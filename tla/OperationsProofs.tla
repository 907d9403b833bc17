-------------------------- MODULE OperationsProofs ---------------------------
(***************************************************************************)
(* What the pipeline of a symbol and the services beside it guarantee, for *)
(* any number of trades, seconds and restarts, of clients, symbols, events *)
(* and jobs.  Each of them is a part of OperationsSpec (PartsBehave), so   *)
(* what holds of the part by itself holds there: that trades reach their   *)
(* rows, that nothing collected or logged is lost in silence, that a       *)
(* client is told the truth about its row or its job, that a               *)
(* synchronisation without an error has the effect it was asked for, and   *)
(* that each indicator is what it is meant to be of whatever candles.      *)
(***************************************************************************)
EXTENDS MCOperations, Sequences, FiniteSetTheorems, WellFoundedInduction, TLAPS

operationsVars == <<side, pipeline, registry, indicators, audit, backtests>>

(* A step of the whole is one of a part, and leaves the others alone.      *)
LEMMA StepsOfTheParts ==
  ASSUME [OperationsNext]_operationsVars
  PROVE  /\ [P!Next]_P!vars /\ [R!Next]_R!vars /\ [I!Next]_I!vars
         /\ [A!Next]_A!vars /\ [J!Next]_J!vars
<1> USE DEF pipeline, registry, indicators, audit, backtests, operationsVars,
            P!vars, P!aggVars, P!history, R!vars, I!vars, A!vars, J!vars
<1>1. CASE UNCHANGED operationsVars
  BY <1>1
<1>2. CASE side = "trades" /\ P!Next /\ UNCHANGED <<registry, indicators, audit, backtests>>
  BY <1>2
<1>3. CASE RegistryNext /\ UNCHANGED <<pipeline, indicators, audit, backtests>>
  <2>1. R!Next
    BY <1>3 DEF RegistryNext, R!Next, R!Sync, R!Serve, R!ServeIndicators
  <2> QED
    BY <1>3, <2>1
<1>4. CASE side = "values" /\ I!Next /\ UNCHANGED <<pipeline, registry, audit, backtests>>
  BY <1>4
<1>5. CASE side = "audit" /\ A!Next /\ UNCHANGED <<pipeline, registry, indicators, backtests>>
  BY <1>5
<1>6. CASE side = "jobs" /\ J!Next /\ UNCHANGED <<pipeline, registry, indicators, audit>>
  BY <1>6
<1> QED
  BY <1>1, <1>2, <1>3, <1>4, <1>5, <1>6 DEF OperationsNext

(* The pipeline, the registry, the indicators, the audit trail and the     *)
(* backtest jobs behave as their own specifications say when they run side *)
(* by side: they share no table and no lock.                               *)
THEOREM PartsBehave ==
  OperationsSpec => P!Spec /\ R!RegistrySpec /\ I!IndicatorsSpec /\ A!AuditSpec /\ J!JobsSpec
<1>1. OperationsInit => P!Init /\ R!Init /\ I!Init /\ A!Init /\ J!Init
  BY DEF OperationsInit, RegistryInit, IndicatorsInit
<1>2. [OperationsNext]_<<side, pipeline, registry, indicators, audit, backtests>>
        => /\ [P!Next]_P!vars /\ [R!Next]_R!vars /\ [I!Next]_I!vars
           /\ [A!Next]_A!vars /\ [J!Next]_J!vars
  BY StepsOfTheParts DEF operationsVars
<1> QED
  BY <1>1, <1>2, PTL DEF OperationsSpec, P!Spec, R!RegistrySpec,
                         I!IndicatorsSpec, A!AuditSpec, J!JobsSpec

-----------------------------------------------------------------------------
(* The pipeline of one symbol.                                             *)
Candle == P!Agg!CandleType
NoCandle == P!Agg!NoCandle

PipeTyped ==
  /\ {now, ticked, starts, lastId, cursor, base} \subseteq Nat /\ trades \in Seq(Nat)
  /\ phase \in {"down", "recovering", "running"}
  /\ current \in Candle \union {NoCandle}
  /\ pending \in Seq(Candle) /\ emitted \in Seq(Candle) /\ buffer \in Seq(Candle)
  /\ lastClose \in Nat \union {-1} /\ lastEmitted \in Nat \union {-1}
  /\ rows \in [P!Seconds -> Candle \union {NoCandle}]

NoRows == \A s \in P!Seconds : rows[s] = NoCandle

(* The ids, and an aggregator that is not running.                         *)
Counted ==
  /\ lastId <= Len(trades) /\ cursor <= lastId /\ base <= Len(trades)
  /\ (cursor # 0 => base < cursor) /\ (lastId # 0 => base < lastId)
  /\ \A id \in 1 .. Len(trades) : trades[id] <= now
  /\ phase = "down" => /\ current = NoCandle /\ pending = <<>>
                       /\ emitted = <<>> /\ buffer = <<>>
  /\ starts = 0 => phase = "down" /\ cursor = 0 /\ NoRows

(* A candle holds trades of its second.                                    *)
Pure(c) == \A id \in c.ids : id \in 1 .. Len(trades) /\ trades[id] = c.time

Purity ==
  /\ Pure(current)
  /\ \A i \in DOMAIN pending : Pure(pending[i])
  /\ \A i \in DOMAIN emitted : Pure(emitted[i])
  /\ \A i \in DOMAIN buffer : Pure(buffer[i])
  /\ \A s \in P!Seconds : rows[s] # NoCandle => Pure(rows[s]) /\ rows[s].time = s

(* In the first run, and while every trade was on time: what is closed has *)
(* all trades of its second since the feed began, and no more will come.   *)
Received == IF lastId = 0 THEN base ELSE lastId

InSecond(s) == {id \in 1 .. Len(trades) : trades[id] = s} \ 1 .. base

Settled(c) == c.time < now /\ c.ids = InSecond(c.time)

SettledQueues ==
  /\ \A i \in DOMAIN pending : Settled(pending[i])
  /\ \A i \in DOMAIN emitted : Settled(emitted[i])
  /\ \A i \in DOMAIN buffer : Settled(buffer[i])

(* What comes next, and the candle under construction.                     *)
OpenWindow ==
  /\ \A id \in Received + 1 .. Len(trades) : trades[id] = now
  /\ current # NoCandle =>
       /\ current.time <= now
       /\ current.ids = {id \in base + 1 .. Received : trades[id] = current.time}
  /\ \A id \in base + 1 .. Received : trades[id] = now => id \in current.ids

(* Candles come in the order of their seconds, and no trade is behind.     *)
InOrder ==
  /\ lastEmitted < now
  /\ \A i \in DOMAIN pending : lastEmitted < pending[i].time
  /\ \A i, j \in DOMAIN pending : i < j => pending[i].time < pending[j].time
  /\ current # NoCandle =>
       lastEmitted < current.time /\ \A i \in DOMAIN pending : pending[i].time < current.time
  /\ \A id \in base + 1 .. Received :
       \/ id \in current.ids \/ trades[id] <= lastEmitted
       \/ \E i \in DOMAIN pending : id \in pending[i].ids

Fresh ==
  /\ lastId = 0 /\ current = NoCandle /\ pending = <<>> /\ emitted = <<>> /\ buffer = <<>>
  /\ lastEmitted = -1 /\ NoRows

Timely ==
  onTime /\ starts <= 1 =>
    /\ \A s \in P!Seconds : rows[s] # NoCandle => Settled(rows[s])
    /\ phase = "recovering" => Fresh
    /\ phase = "running" => SettledQueues /\ OpenWindow /\ InOrder

PipeInv == PipeTyped /\ Counted /\ Purity /\ Timely /\ P!ProcessedIsKept

-----------------------------------------------------------------------------
(* Queues, and what they hold.                                             *)
LEMMA QueueAppend ==
  ASSUME NEW q \in Seq(Candle), NEW c \in Candle
  PROVE  /\ Append(q, c) \in Seq(Candle) /\ DOMAIN q = 1 .. Len(q) /\ Len(q) \in Nat
         /\ DOMAIN Append(q, c) = 1 .. Len(q) + 1
         /\ \A i \in 1 .. Len(q) : Append(q, c)[i] = q[i]
         /\ Append(q, c)[Len(q) + 1] = c
OBVIOUS

LEMMA QueueTail ==
  ASSUME NEW q \in Seq(Candle), q # <<>>
  PROVE  /\ Tail(q) \in Seq(Candle) /\ Head(q) \in Candle /\ Head(q) = q[1]
         /\ DOMAIN q = 1 .. Len(q) /\ Len(q) \in Nat /\ 1 \in DOMAIN q
         /\ DOMAIN Tail(q) = 1 .. Len(q) - 1
         /\ \A i \in 1 .. Len(q) - 1 : Tail(q)[i] = q[i + 1]
OBVIOUS

LEMMA QueueJoin ==
  ASSUME NEW q \in Seq(Candle), NEW r \in Seq(Candle)
  PROVE  /\ q \o r \in Seq(Candle) /\ DOMAIN q = 1 .. Len(q) /\ DOMAIN r = 1 .. Len(r)
         /\ Len(q) \in Nat /\ Len(r) \in Nat
         /\ DOMAIN (q \o r) = 1 .. Len(q) + Len(r)
         /\ \A i \in 1 .. Len(q) : (q \o r)[i] = q[i]
         /\ \A i \in 1 .. Len(r) : (q \o r)[Len(q) + i] = r[i]
OBVIOUS

LEMMA IdsAppend ==
  ASSUME NEW q \in Seq(Candle), NEW c \in Candle
  PROVE  P!IdsIn(Append(q, c)) = P!IdsIn(q) \union c.ids
<1> DEFINE r == Append(q, c)
<1>1. /\ DOMAIN q = 1 .. Len(q) /\ Len(q) \in Nat /\ DOMAIN r = 1 .. Len(q) + 1
      /\ \A i \in 1 .. Len(q) : r[i] = q[i]
      /\ r[Len(q) + 1] = c
  BY QueueAppend
<1>2. /\ P!IdsIn(r) = UNION {r[i].ids : i \in DOMAIN r}
      /\ P!IdsIn(q) = UNION {q[i].ids : i \in DOMAIN q}
  BY DEF P!IdsIn
<1> HIDE DEF r
<1>3. ASSUME NEW id \in P!IdsIn(r)
      PROVE  id \in P!IdsIn(q) \union c.ids
  <2>1. PICK i \in DOMAIN r : id \in r[i].ids
    BY <1>2, <1>3
  <2>2. (i \in DOMAIN q /\ r[i] = q[i]) \/ r[i] = c
    BY <1>1
  <2> QED
    BY <1>2, <2>1, <2>2
<1>4. ASSUME NEW id \in P!IdsIn(q) \union c.ids
      PROVE  id \in P!IdsIn(r)
  <2>1. CASE id \in c.ids
    <3>1. Len(q) + 1 \in DOMAIN r
      BY <1>1
    <3> QED
      BY <1>1, <1>2, <2>1, <3>1
  <2>2. CASE id \in P!IdsIn(q)
    <3>1. PICK i \in DOMAIN q : id \in q[i].ids
      BY <1>2, <2>2
    <3>2. i \in DOMAIN r /\ r[i] = q[i]
      BY <1>1
    <3> QED
      BY <1>2, <3>1, <3>2
  <2> QED
    BY <1>4, <2>1, <2>2
<1>5. P!IdsIn(r) = P!IdsIn(q) \union c.ids
  BY <1>3, <1>4
<1> QED
  BY <1>5 DEF r

LEMMA IdsTail ==
  ASSUME NEW q \in Seq(Candle), q # <<>>
  PROVE  P!IdsIn(q) = Head(q).ids \union P!IdsIn(Tail(q))
<1> DEFINE r == Tail(q)
           c == Head(q)
<1>1. /\ DOMAIN q = 1 .. Len(q) /\ Len(q) \in Nat /\ DOMAIN r = 1 .. Len(q) - 1
      /\ \A i \in 1 .. Len(q) - 1 : r[i] = q[i + 1]
      /\ q[1] = c /\ 1 \in DOMAIN q
  BY QueueTail
<1>2. /\ P!IdsIn(r) = UNION {r[i].ids : i \in DOMAIN r}
      /\ P!IdsIn(q) = UNION {q[i].ids : i \in DOMAIN q}
  BY DEF P!IdsIn
<1> HIDE DEF r, c
<1>3. ASSUME NEW id \in P!IdsIn(q)
      PROVE  id \in c.ids \union P!IdsIn(r)
  <2>1. PICK i \in DOMAIN q : id \in q[i].ids
    BY <1>2, <1>3
  <2>2. CASE i = 1
    BY <1>1, <2>1, <2>2
  <2>3. CASE i # 1
    <3>1. i - 1 \in DOMAIN r /\ r[i - 1] = q[(i - 1) + 1] /\ (i - 1) + 1 = i
      BY <1>1, <2>3
    <3> QED
      BY <1>2, <2>1, <3>1
  <2> QED
    BY <2>2, <2>3
<1>4. ASSUME NEW id \in c.ids \union P!IdsIn(r)
      PROVE  id \in P!IdsIn(q)
  <2>1. CASE id \in c.ids
    BY <1>1, <1>2, <2>1
  <2>2. CASE id \in P!IdsIn(r)
    <3>1. PICK i \in DOMAIN r : id \in r[i].ids
      BY <1>2, <2>2
    <3>2. i + 1 \in DOMAIN q /\ r[i] = q[i + 1]
      BY <1>1
    <3> QED
      BY <1>2, <3>1, <3>2
  <2> QED
    BY <1>4, <2>1, <2>2
<1>5. P!IdsIn(q) = c.ids \union P!IdsIn(r)
  BY <1>3, <1>4
<1> QED
  BY <1>5 DEF r, c

LEMMA IdsJoin ==
  ASSUME NEW q \in Seq(Candle), NEW r \in Seq(Candle)
  PROVE  P!IdsIn(q) \union P!IdsIn(r) \subseteq P!IdsIn(q \o r)
<1> DEFINE p == q \o r
<1>1. /\ DOMAIN q = 1 .. Len(q) /\ DOMAIN r = 1 .. Len(r)
      /\ Len(q) \in Nat /\ Len(r) \in Nat /\ DOMAIN p = 1 .. Len(q) + Len(r)
      /\ \A i \in 1 .. Len(q) : p[i] = q[i]
      /\ \A i \in 1 .. Len(r) : p[Len(q) + i] = r[i]
  BY QueueJoin
<1>2. /\ P!IdsIn(r) = UNION {r[i].ids : i \in DOMAIN r}
      /\ P!IdsIn(q) = UNION {q[i].ids : i \in DOMAIN q}
      /\ P!IdsIn(p) = UNION {p[i].ids : i \in DOMAIN p}
  BY DEF P!IdsIn
<1> HIDE DEF p
<1>3. \A i \in DOMAIN q : i \in DOMAIN p /\ p[i] = q[i]
  BY <1>1
<1>4. \A i \in DOMAIN r : Len(q) + i \in DOMAIN p /\ p[Len(q) + i] = r[i]
  BY <1>1
<1>5. P!IdsIn(q) \union P!IdsIn(r) \subseteq P!IdsIn(p)
  BY <1>2, <1>3, <1>4
<1> QED
  BY <1>5 DEF p

LEMMA IdsOfNone == P!IdsIn(<<>>) = {}
BY DEF P!IdsIn

HeldIds == current.ids \union P!IdsIn(pending) \union P!IdsIn(emitted) \union P!IdsIn(buffer)

LEMMA HeldIs ==
  /\ P!HeldOf({pending, emitted, buffer}) = HeldIds
  /\ P!HeldOf({pending, emitted}) \union P!IdsIn(buffer) = HeldIds
BY DEF P!HeldOf, HeldIds

-----------------------------------------------------------------------------
(* What the steps do.                                                      *)
LEMMA ReceivedNext ==
  ASSUME PipeTyped, Counted
  PROVE  /\ Received \in Nat /\ base <= Received /\ Received <= Len(trades)
         /\ Len(trades) \in Nat /\ DOMAIN trades = 1 .. Len(trades)
         /\ P!NextId = Received + 1
         /\ P!CaughtUp <=> Received = Len(trades)
         /\ \A id \in 1 .. Len(trades) : trades[id] \in Nat
<1>1. /\ lastId \in Nat /\ base \in Nat /\ Len(trades) \in Nat /\ trades \in Seq(Nat)
      /\ lastId <= Len(trades) /\ base <= Len(trades) /\ (lastId # 0 => base < lastId)
  BY DEF PipeTyped, Counted
<1>2. Received \in Nat /\ base <= Received /\ Received <= Len(trades) /\ P!NextId = Received + 1
  BY <1>1 DEF Received, P!NextId
<1>3. P!CaughtUp <=> Received = Len(trades)
  BY <1>1, <1>2 DEF P!CaughtUp
<1> QED
  BY <1>1, <1>2, <1>3

(* The trade that is received next closes the open window or joins it.     *)
Opens == pending' = pending /\ current = NoCandle
Closes == /\ current # NoCandle /\ trades[Received + 1] # current.time
          /\ pending' = Append(pending, current)
Joins == /\ current # NoCandle /\ trades[Received + 1] = current.time
         /\ pending' = pending
         /\ current'.time = current.time /\ current'.ids = current.ids \union {Received + 1}

LEMMA OnTradeEffect ==
  ASSUME PipeTyped, Counted, P!OnTrade
  PROVE  /\ lastId' = Received + 1 /\ Received' = Received + 1
         /\ Received + 1 \in 1 .. Len(trades)
         /\ cursor' \in {cursor, Received + 1}
         /\ phase # "down" /\ (phase = "recovering" => lastId # 0)
         /\ UNCHANGED <<now, trades, phase, starts, emitted, ticked, buffer, rows,
                        stored, base, onTime, dropped, lastEmitted>>
         /\ lastClose' \in Nat \union {-1}
         /\ current' \in Candle
         /\ \/ /\ Opens \/ Closes
               /\ current'.time = trades[Received + 1] /\ current'.ids = {Received + 1}
            \/ Joins
<1>1. /\ Received \in Nat /\ base <= Received /\ Received <= Len(trades)
      /\ Len(trades) \in Nat /\ P!NextId = Received + 1
      /\ P!CaughtUp <=> Received = Len(trades)
      /\ \A id \in 1 .. Len(trades) : trades[id] \in Nat
  BY ReceivedNext
<1>2. /\ lastId' = P!NextId /\ cursor' \in {cursor, lastId'} /\ ~ P!CaughtUp
      /\ P!Agg!AddTrade(lastId', trades[lastId'])
      /\ phase = "running" \/ (phase = "recovering" /\ lastId # 0)
      /\ UNCHANGED <<now, trades, phase, starts, emitted, ticked, buffer, rows,
                     stored, base, onTime, dropped>>
  BY DEF P!OnTrade, P!history
<1> DEFINE id == Received + 1
           w == trades[Received + 1]
<1>3. lastId' = id /\ id \in 1 .. Len(trades) /\ w \in Nat /\ id \in Nat \ {0}
  BY <1>1, <1>2
<1>4. P!Agg!AddTrade(id, w)
  BY <1>2, <1>3
<1>5. Received' = id
  BY <1>3 DEF Received
<1>6. /\ current \in Candle \union {NoCandle} /\ lastClose \in Nat \union {-1}
      /\ NoCandle = [time |-> -1, ids |-> {}, close |-> -1]
      /\ Candle = [time : Nat, ids : SUBSET (Nat \ {0}), close : Nat]
  BY DEF PipeTyped, NoCandle, Candle, P!Agg!NoCandle, P!Agg!NoTime, P!Agg!NoClose, P!Agg!CandleType
<1> HIDE DEF id, w
<1>7. /\ lastEmitted' = lastEmitted
      /\ pending' = IF current # NoCandle /\ w # current.time
                      THEN Append(pending, current) ELSE pending
      /\ lastClose' = IF current # NoCandle /\ w # current.time THEN current.close ELSE lastClose
      /\ current' = IF (current # NoCandle /\ w # current.time) \/ current = NoCandle
                      THEN [time |-> w, ids |-> {id}, close |-> id]
                      ELSE [current EXCEPT !.ids = current.ids \union {id}, !.close = id]
  BY <1>4, Zenon DEF P!Agg!AddTrade, P!Agg!Rolls, P!Agg!OpenCandle, P!Agg!UpdateCandle, NoCandle
<1>8. lastClose' \in Nat \union {-1}
  BY <1>6, <1>7
<1> DEFINE one == [time |-> w, ids |-> {id}, close |-> id]
           more == [current EXCEPT !.ids = current.ids \union {id}]
           next == [more EXCEPT !.close = id]
<1>9. one \in Candle /\ one.time = w /\ one.ids = {id}
  BY <1>3, <1>6
<1>10. [current EXCEPT !.ids = current.ids \union {id}, !.close = id] = next
  OBVIOUS
<1>11. current # NoCandle => /\ next \in Candle /\ next.time = current.time
                             /\ next.ids = current.ids \union {id}
  BY <1>3, <1>6
<1> HIDE DEF one, next
<1>12. CASE current = NoCandle
  <2>1. current' = one /\ pending' = pending
    BY <1>7, <1>12 DEF one
  <2> QED
    BY <1>2, <1>3, <1>5, <1>7, <1>8, <1>9, <1>12, <2>1 DEF Opens, id, w
<1>13. CASE current # NoCandle /\ w # current.time
  <2>1. current' = one /\ pending' = Append(pending, current)
    BY <1>7, <1>13 DEF one
  <2> QED
    BY <1>2, <1>3, <1>5, <1>7, <1>8, <1>9, <1>13, <2>1 DEF Closes, id, w
<1>14. CASE current # NoCandle /\ w = current.time
  <2>1. current' = next /\ pending' = pending
    BY <1>7, <1>10, <1>14
  <2> QED
    BY <1>2, <1>3, <1>5, <1>7, <1>8, <1>11, <1>14, <2>1 DEF Joins, id, w
<1> QED
  BY <1>12, <1>13, <1>14

(* A tick hands out the first closed window, the open one once its second  *)
(* is over, a flat candle, or nothing.                                     *)
HandsOut(c) ==
  /\ c \in Candle /\ emitted' = <<c>> /\ lastEmitted' = c.time /\ lastClose' = c.close

TakesClosed == /\ pending # <<>> /\ HandsOut(Head(pending))
               /\ pending' = Tail(pending) /\ current' = current
TakesOpen == /\ pending = <<>> /\ current # NoCandle /\ current.time < now /\ HandsOut(current)
             /\ pending' = pending /\ current' = NoCandle
TakesFlat == /\ pending = <<>> /\ (current = NoCandle \/ current.time > now - 1)
             /\ 0 < now /\ lastEmitted < now - 1
             /\ HandsOut([time |-> now - 1, ids |-> {}, close |-> lastClose])
             /\ UNCHANGED <<pending, current>>

LEMMA TickEffect ==
  ASSUME PipeTyped, P!Tick
  PROVE  /\ phase = "running" /\ emitted = <<>>
         /\ ticked' = now
         /\ UNCHANGED <<now, trades, phase, starts, lastId, cursor, buffer, rows,
                        stored, base, onTime, dropped>>
         /\ \/ TakesClosed \/ TakesOpen \/ TakesFlat
            \/ UNCHANGED <<current, pending, lastClose, lastEmitted, emitted>>
<1>1. /\ phase = "running" /\ emitted = <<>> /\ ticked < now /\ ticked' = now
      /\ P!Agg!Tick(now)
      /\ UNCHANGED <<now, trades, phase, starts, lastId, cursor, buffer, rows,
                     stored, base, onTime, dropped>>
  BY DEF P!Tick, P!history
<1>2. /\ current \in Candle \union {NoCandle} /\ lastClose \in Nat \union {-1}
      /\ lastEmitted \in Nat \union {-1} /\ now \in Nat /\ ticked \in Nat
      /\ pending \in Seq(Candle)
      /\ NoCandle = P!Agg!NoCandle
      /\ Candle = [time : Nat, ids : SUBSET (Nat \ {0}), close : Nat]
  BY DEF PipeTyped, NoCandle, Candle, P!Agg!CandleType
<1>3. \A c : Append(<<>>, c) = <<c>>
  OBVIOUS
<1>4. \A c \in Candle : P!Agg!Emit(c) => HandsOut(c)
  BY <1>1, <1>3, Zenon DEF P!Agg!Emit, HandsOut
<1>5. CASE P!Agg!TickPending
  <2>1. /\ pending # <<>> /\ pending' = Tail(pending) /\ P!Agg!Emit(Head(pending))
        /\ current' = current
    BY <1>5, Zenon DEF P!Agg!TickPending
  <2>2. Head(pending) \in Candle
    BY <1>2, <2>1, QueueTail
  <2> QED
    BY <1>1, <1>4, <2>1, <2>2 DEF TakesClosed
<1>6. CASE P!Agg!TickCurrent(now)
  <2>1. /\ pending = <<>> /\ current # NoCandle /\ current.time <= now - 1
        /\ current' = NoCandle /\ P!Agg!Emit(current) /\ pending' = pending
    BY <1>2, <1>6, Zenon DEF P!Agg!TickCurrent
  <2>2. current \in Candle /\ current.time \in Nat
    BY <1>2, <2>1
  <2>3. current.time < now
    BY <1>2, <2>1, <2>2
  <2> QED
    BY <1>1, <1>4, <2>1, <2>2, <2>3 DEF TakesOpen
<1>7. CASE P!Agg!TickFlat(now)
  <2> DEFINE c == [time |-> now - 1, ids |-> {}, close |-> lastClose]
  <2>1. /\ pending = <<>> /\ (current = NoCandle \/ current.time > now - 1)
        /\ ~ P!Agg!AlreadyEmitted(now) /\ lastClose # -1
        /\ P!Agg!Emit(c) /\ pending' = pending /\ current' = current
    BY <1>2, <1>7 DEF P!Agg!TickFlat, P!Agg!FlatCandle, P!Agg!NoClose
  <2>2. 0 < now /\ lastEmitted < now - 1
    BY <1>1, <1>2, <2>1 DEF P!Agg!AlreadyEmitted, P!Agg!NoTime
  <2>3. c \in Candle
    BY <1>2, <2>1, <2>2
  <2>4. HandsOut(c)
    BY <1>4, <2>1, <2>3
  <2> HIDE DEF c
  <2>5. TakesFlat
    BY <2>1, <2>2, <2>4 DEF TakesFlat, c
  <2> QED
    BY <1>1, <2>5
<1>8. CASE P!Agg!TickNothing(now)
  <2>1. UNCHANGED <<current, pending, lastClose, lastEmitted, emitted>>
    BY <1>8 DEF P!Agg!TickNothing, P!Agg!aggVars
  <2> QED
    BY <1>1, <2>1
<1> QED
  BY <1>1, <1>5, <1>6, <1>7, <1>8 DEF P!Agg!Tick

(* A non-empty set of indices has a largest one.                           *)
LEMMA LessIn ==
  ASSUME NEW x \in Nat, NEW y \in Nat, y < x
  PROVE  <<y, x>> \in OpToRel(<, Nat)
  BY DEF OpToRel

LEMMA LargestIndex ==
  ASSUME NEW n \in Nat, NEW of \in SUBSET (1 .. n), of # {}
  PROVE  \E i \in of : \A j \in of : j <= i
<1> DEFINE T == {m \in Nat : n - m \in of}
<1>1. T \subseteq Nat /\ T # {}
  <2>1. PICK i \in of : TRUE
    OBVIOUS
  <2>2. n - i \in Nat /\ n - (n - i) = i
    OBVIOUS
  <2> QED
    BY <2>2
<1>2. PICK x \in T : \A y \in T : ~ (<<y, x>> \in OpToRel(<, Nat))
  BY <1>1, NatLessThanWellFounded, WFMin
<1>3. \A y \in T : ~ (y < x)
  BY <1>1, <1>2, LessIn
<1>4. n - x \in of
  OBVIOUS
<1>5. ASSUME NEW j \in of PROVE j <= n - x
  <2>1. n - j \in T
    OBVIOUS
  <2> QED
    BY <1>3, <2>1
<1> QED
  BY <1>4, <1>5

(* What is written: of each second the last candle in the batch, or what   *)
(* was there.                                                              *)
LEMMA UpsertOf ==
  ASSUME NEW q \in Seq(Candle), NEW tab, NEW s \in P!Seconds
  PROVE  \/ P!Upsert(q, tab)[s] = tab[s]
         \/ \E i \in DOMAIN q : P!Upsert(q, tab)[s] = q[i] /\ q[i].time = s
<1> DEFINE of == {i \in DOMAIN q : q[i].time = s}
<1>1. P!Upsert(q, tab)[s] = IF of = {} THEN tab[s]
                            ELSE q[CHOOSE i \in of : \A j \in of : j <= i]
  BY DEF P!Upsert
<1>2. of \subseteq 1 .. Len(q) /\ Len(q) \in Nat
  OBVIOUS
<1>3. ASSUME of # {}
      PROVE  (CHOOSE i \in of : \A j \in of : j <= i) \in of
  BY <1>2, <1>3, LargestIndex
<1> QED
  BY <1>1, <1>3

LEMMA UpsertTyped ==
  ASSUME NEW q \in Seq(Candle), NEW tab \in [P!Seconds -> Candle \union {NoCandle}]
  PROVE  P!Upsert(q, tab) \in [P!Seconds -> Candle \union {NoCandle}]
<1>1. P!Upsert(q, tab) = [s \in P!Seconds |-> P!Upsert(q, tab)[s]]
  BY DEF P!Upsert
<1>2. \A i \in DOMAIN q : q[i] \in Candle
  OBVIOUS
<1>3. \A s \in P!Seconds : P!Upsert(q, tab)[s] \in Candle \union {NoCandle}
  BY <1>2, UpsertOf
<1> QED
  BY <1>1, <1>3

(* Every step is one of the pipeline's.                                    *)
NoAggregatorNow ==
  /\ current' = NoCandle /\ pending' = <<>> /\ lastClose' = -1 /\ lastEmitted' = -1
  /\ emitted' = <<>> /\ buffer' = <<>>

(* The last flush of a run stores the buffer, or loses it.                 *)
StopStores ==
  /\ rows' = P!Upsert(buffer, rows) /\ stored' = stored \union P!IdsIn(buffer)
  /\ dropped' = dropped \union P!HeldOf({pending, emitted})
StopLoses ==
  /\ rows' = rows /\ stored' = stored
  /\ dropped' = dropped \union P!HeldOf({pending, emitted, buffer})

LEMMA StepEffects ==
  /\ P!ExchangeTrade => /\ trades' = Append(trades, now)
       /\ UNCHANGED <<now, phase, starts, lastId, cursor, current, pending, lastClose,
                      lastEmitted, emitted, ticked, buffer, rows, stored, base, onTime, dropped>>
  /\ P!ClockAdvances => /\ now' = now + 1
       /\ onTime' = (onTime /\ (phase = "down" \/ P!CaughtUp))
       /\ UNCHANGED <<trades, phase, starts, lastId, cursor, current, pending, lastClose,
                      lastEmitted, emitted, ticked, buffer, rows, stored, base, dropped>>
  /\ P!Start => /\ phase = "down" /\ phase' = "recovering" /\ starts' = starts + 1
       /\ lastId' = cursor /\ NoAggregatorNow
       /\ UNCHANGED <<now, trades, cursor, ticked, rows, stored, base, onTime, dropped>>
  /\ P!Run => /\ phase = "recovering" /\ phase' = "running" /\ (lastId = 0 \/ P!CaughtUp)
       /\ base' = (IF lastId = 0 THEN Len(trades) ELSE base)
       /\ lastClose' \in {0, lastClose} /\ ticked' = now
       /\ UNCHANGED <<now, trades, starts, lastId, cursor, current, pending, lastEmitted,
                      emitted, buffer, rows, stored, onTime, dropped>>
  /\ P!WriteCandle => /\ phase = "running" /\ buffer' = buffer \o emitted /\ emitted' = <<>>
       /\ UNCHANGED <<now, trades, phase, starts, lastId, cursor, current, pending, lastClose,
                      lastEmitted, ticked, rows, stored, base, onTime, dropped>>
  /\ P!LookupFails => /\ phase = "running" /\ emitted' = <<>>
       /\ dropped' = dropped \union P!IdsIn(emitted)
       /\ UNCHANGED <<now, trades, phase, starts, lastId, cursor, current, pending, lastClose,
                      lastEmitted, ticked, buffer, rows, stored, base, onTime>>
  /\ P!Flush => /\ phase = "running" /\ buffer' = <<>> /\ rows' = P!Upsert(buffer, rows)
       /\ stored' = stored \union P!IdsIn(buffer)
       /\ UNCHANGED <<now, trades, phase, starts, lastId, cursor, current, pending, lastClose,
                      lastEmitted, emitted, ticked, base, onTime, dropped>>
  /\ P!Stop => /\ phase # "down" /\ phase' = "down" /\ (StopStores \/ StopLoses)
       /\ cursor' \in P!ClosedAt /\ NoAggregatorNow
       /\ UNCHANGED <<now, trades, starts, lastId, ticked, base, onTime>>
  /\ P!Crash => /\ phase # "down" /\ phase' = "down" /\ NoAggregatorNow
       /\ dropped' = dropped \union P!HeldOf({pending, emitted, buffer})
       /\ UNCHANGED <<now, trades, starts, lastId, cursor, ticked, rows, stored, base, onTime>>
<1> USE DEF P!aggVars, P!history
<1>1. P!NoAggregator => NoAggregatorNow
  BY DEF P!NoAggregator, NoAggregatorNow, NoCandle, P!Agg!NoClose, P!Agg!NoTime
<1>2. P!Run => lastClose' \in {0, lastClose}
  BY DEF P!Run, P!Agg!Seed
<1> QED
  BY <1>1, <1>2, ZenonT(60)
     DEF P!ExchangeTrade, P!ClockAdvances, P!Start, P!Run, P!WriteCandle, P!LookupFails, P!Flush,
         P!Stop, P!Crash, P!StoreAll, StopStores, StopLoses

(* What close() persists is the old id or one the feed has had.            *)
LEMMA ClosedInside ==
  ASSUME PipeTyped, Counted, NEW id \in P!ClosedAt
  PROVE  id \in Nat /\ id <= lastId /\ (id # 0 => base < id)
<1>1. id = cursor \/ id \in base + 1 .. lastId
  BY DEF P!ClosedAt
<1>2. cursor \in Nat /\ lastId \in Nat /\ base \in Nat /\ cursor <= lastId
      /\ (cursor # 0 => base < cursor)
  BY DEF PipeTyped, Counted
<1> QED
  BY <1>1, <1>2

-----------------------------------------------------------------------------
(* The state keeps its types, and the ids their order.                     *)
LEMMA TypedKept ==
  ASSUME PipeInv, P!Next
  PROVE  PipeTyped'
<1>1. PipeTyped /\ Counted
  BY DEF PipeInv
<1>2. /\ now \in Nat /\ ticked \in Nat /\ starts \in Nat /\ lastId \in Nat /\ cursor \in Nat
      /\ base \in Nat /\ trades \in Seq(Nat) /\ Len(trades) \in Nat
      /\ phase \in {"down", "recovering", "running"}
      /\ current \in Candle \union {NoCandle}
      /\ pending \in Seq(Candle) /\ emitted \in Seq(Candle) /\ buffer \in Seq(Candle)
      /\ lastClose \in Nat \union {-1} /\ lastEmitted \in Nat \union {-1}
      /\ rows \in [P!Seconds -> Candle \union {NoCandle}]
      /\ <<>> \in Seq(Candle)
  BY <1>1 DEF PipeTyped
<1>3. P!Upsert(buffer, rows) \in [P!Seconds -> Candle \union {NoCandle}]
  BY <1>2, UpsertTyped
<1>4. CASE P!ExchangeTrade
  <2>1. trades' = Append(trades, now)
    BY <1>4, StepEffects
  <2>2. trades' \in Seq(Nat)
    BY <1>2, <2>1
  <2> QED
    BY <1>2, <1>4, <2>2, StepEffects DEF PipeTyped
<1>5. CASE P!ClockAdvances
  <2>1. now' \in Nat
    BY <1>2, <1>5, StepEffects
  <2> QED
    BY <1>2, <1>5, <2>1, StepEffects DEF PipeTyped
<1>6. CASE P!Start
  <2>1. starts' \in Nat
    BY <1>2, <1>6, StepEffects
  <2> QED
    BY <1>2, <1>6, <2>1, StepEffects DEF PipeTyped, NoAggregatorNow
<1>7. CASE P!Run
  <2>1. base' \in Nat /\ lastClose' \in Nat \union {-1}
    BY <1>2, <1>7, StepEffects
  <2> QED
    BY <1>2, <1>7, <2>1, StepEffects DEF PipeTyped
<1>8. CASE P!OnTrade
  <2>1. /\ lastId' = Received + 1 /\ cursor' \in {cursor, Received + 1}
        /\ lastClose' \in Nat \union {-1} /\ current' \in Candle
        /\ UNCHANGED <<now, trades, phase, starts, emitted, ticked, buffer, rows, base,
                       lastEmitted>>
        /\ Opens \/ Closes \/ Joins
    BY <1>1, <1>8, OnTradeEffect
  <2>2. Received + 1 \in Nat
    BY <1>1, ReceivedNext
  <2>3. pending' = pending \/ (current \in Candle /\ pending' = Append(pending, current))
    BY <1>2, <2>1 DEF Opens, Closes, Joins
  <2>4. pending' \in Seq(Candle)
    <3>1. pending \in Seq(Candle)
      BY <1>2
    <3>2. CASE pending' = pending
      BY <3>1, <3>2
    <3>3. CASE current \in Candle /\ pending' = Append(pending, current)
      BY <3>1, <3>3, QueueAppend
    <3> QED
      BY <2>3, <3>2, <3>3
  <2> QED
    BY <1>2, <2>1, <2>2, <2>4 DEF PipeTyped
<1>9. CASE P!Tick
  <2>1. /\ ticked' = now /\ emitted = <<>>
        /\ UNCHANGED <<now, trades, phase, starts, lastId, cursor, buffer, rows, base>>
        /\ \/ TakesClosed \/ TakesOpen \/ TakesFlat
           \/ UNCHANGED <<current, pending, lastClose, lastEmitted, emitted>>
    BY <1>1, <1>9, TickEffect
  <2>2. ASSUME NEW c, HandsOut(c)
        PROVE  /\ emitted' \in Seq(Candle) /\ lastEmitted' \in Nat \union {-1}
               /\ lastClose' \in Nat \union {-1}
    BY <2>2 DEF HandsOut, Candle, P!Agg!CandleType
  <2>3. /\ emitted' \in Seq(Candle) /\ lastEmitted' \in Nat \union {-1}
        /\ lastClose' \in Nat \union {-1}
        /\ current' \in Candle \union {NoCandle} /\ pending' \in Seq(Candle)
    <3>1. CASE TakesClosed
      BY <1>2, <2>2, <3>1, QueueTail DEF TakesClosed
    <3>2. CASE TakesOpen
      BY <1>2, <2>2, <3>2 DEF TakesOpen
    <3>3. CASE TakesFlat
      BY <1>2, <2>2, <3>3 DEF TakesFlat
    <3>4. CASE UNCHANGED <<current, pending, lastClose, lastEmitted, emitted>>
      BY <1>2, <3>4
    <3> QED
      BY <2>1, <3>1, <3>2, <3>3, <3>4
  <2> QED
    BY <1>2, <2>1, <2>3 DEF PipeTyped
<1>10. CASE P!WriteCandle
  <2>1. buffer' \in Seq(Candle)
    BY <1>2, <1>10, QueueJoin, StepEffects
  <2> QED
    BY <1>2, <1>10, <2>1, StepEffects DEF PipeTyped
<1>11. CASE P!Flush
  BY <1>2, <1>3, <1>11, StepEffects DEF PipeTyped
<1>12. CASE P!Stop
  <2>1. cursor' \in Nat /\ rows' \in [P!Seconds -> Candle \union {NoCandle}]
    BY <1>1, <1>2, <1>3, <1>12, ClosedInside, StepEffects DEF StopStores, StopLoses
  <2> QED
    BY <1>2, <1>12, <2>1, StepEffects DEF PipeTyped, NoAggregatorNow
<1>13. CASE P!Crash
  BY <1>2, <1>13, StepEffects DEF PipeTyped, NoAggregatorNow
<1>14. CASE P!LookupFails
  BY <1>2, <1>14, StepEffects DEF PipeTyped
<1> QED
  BY <1>4, <1>5, <1>6, <1>7, <1>8, <1>9, <1>10, <1>11, <1>12, <1>13, <1>14 DEF P!Next

LEMMA CountedKept ==
  ASSUME PipeInv, P!Next
  PROVE  Counted'
<1>1. PipeTyped /\ Counted
  BY DEF PipeInv
<1>2. /\ now \in Nat /\ starts \in Nat /\ lastId \in Nat /\ cursor \in Nat
      /\ base \in Nat /\ trades \in Seq(Nat) /\ Len(trades) \in Nat
      /\ lastId <= Len(trades) /\ cursor <= lastId /\ base <= Len(trades)
      /\ (cursor # 0 => base < cursor) /\ (lastId # 0 => base < lastId)
      /\ \A id \in 1 .. Len(trades) : trades[id] <= now
      /\ \A id \in 1 .. Len(trades) : trades[id] \in Nat
      /\ phase = "down" => /\ current = NoCandle /\ pending = <<>>
                           /\ emitted = <<>> /\ buffer = <<>>
      /\ starts = 0 => phase = "down" /\ cursor = 0 /\ NoRows
  <2>1. /\ now \in Nat /\ starts \in Nat /\ lastId \in Nat /\ cursor \in Nat
        /\ base \in Nat /\ trades \in Seq(Nat)
    BY <1>1 DEF PipeTyped
  <2>2. Len(trades) \in Nat /\ \A id \in 1 .. Len(trades) : trades[id] \in Nat
    BY <2>1
  <2> QED
    BY <1>1, <2>1, <2>2 DEF Counted
<1>3. CASE P!ExchangeTrade
  <2>0. trades' = Append(trades, now)
    BY <1>3, StepEffects
  <2>1. /\ Len(trades') = Len(trades) + 1
        /\ \A id \in 1 .. Len(trades) : trades'[id] = trades[id]
        /\ trades'[Len(trades) + 1] = now
    BY <1>2, <2>0
  <2>2. \A id \in 1 .. Len(trades') : trades'[id] <= now
    <3>1. TAKE id \in 1 .. Len(trades')
    <3>2. CASE id = Len(trades) + 1
      BY <1>2, <2>1, <3>2
    <3>3. CASE id # Len(trades) + 1
      <4>1. id \in 1 .. Len(trades)
        BY <1>2, <2>1, <3>3
      <4> QED
        BY <1>2, <2>1, <4>1
    <3> QED
      BY <3>2, <3>3
  <2>3. lastId <= Len(trades') /\ base <= Len(trades')
    BY <1>2, <2>1
  <2> QED
    BY <1>2, <1>3, <2>2, <2>3, StepEffects DEF Counted, NoRows
<1>4. CASE P!ClockAdvances
  <2>1. \A id \in 1 .. Len(trades) : trades[id] <= now'
    BY <1>2, <1>4, StepEffects
  <2> QED
    BY <1>2, <1>4, <2>1, StepEffects DEF Counted, NoRows
<1>5. CASE P!Start
  <2>1. /\ starts' # 0 /\ lastId' = cursor /\ cursor <= Len(trades) /\ cursor <= cursor
        /\ phase' = "recovering"
    BY <1>2, <1>5, StepEffects
  <2> QED
    BY <1>2, <1>5, <2>1, StepEffects DEF Counted
<1>6. CASE P!Run
  <2>1. base' <= Len(trades) /\ (cursor # 0 => base' < cursor) /\ (lastId # 0 => base' < lastId)
        /\ starts # 0 /\ phase' = "running"
    BY <1>2, <1>6, StepEffects
  <2> QED
    BY <1>2, <1>6, <2>1, StepEffects DEF Counted
<1>7. CASE P!OnTrade
  <2>1. /\ lastId' = Received + 1 /\ cursor' \in {cursor, Received + 1}
        /\ Received + 1 \in 1 .. Len(trades) /\ phase # "down"
        /\ UNCHANGED <<now, trades, phase, starts, rows, base>>
    BY <1>1, <1>7, OnTradeEffect
  <2>2. Received \in Nat /\ base <= Received
    BY <1>1, ReceivedNext
  <2>3. cursor <= Received + 1
    BY <1>2, <2>1, <2>2 DEF Received
  <2>4. /\ lastId' <= Len(trades) /\ cursor' <= lastId'
        /\ (cursor' # 0 => base < cursor') /\ (lastId' # 0 => base < lastId')
    BY <1>2, <2>1, <2>2, <2>3
  <2> QED
    BY <1>2, <2>1, <2>4 DEF Counted
<1>8. CASE P!Tick
  <2>1. /\ phase = "running"
        /\ UNCHANGED <<now, trades, phase, starts, lastId, cursor, base>>
    BY <1>1, <1>8, TickEffect
  <2> QED
    BY <1>2, <2>1 DEF Counted
<1>9. CASE P!WriteCandle
  BY <1>2, <1>9, StepEffects DEF Counted
<1>10. CASE P!Flush
  BY <1>2, <1>10, StepEffects DEF Counted
<1>11. CASE P!Stop
  <2>1. cursor' <= lastId /\ (cursor' # 0 => base < cursor') /\ starts # 0
    BY <1>1, <1>2, <1>11, ClosedInside, StepEffects
  <2> QED
    BY <1>2, <1>11, <2>1, StepEffects DEF Counted, NoAggregatorNow
<1>12. CASE P!Crash
  <2>1. starts # 0
    BY <1>2, <1>12, StepEffects
  <2> QED
    BY <1>2, <1>12, <2>1, StepEffects DEF Counted, NoAggregatorNow
<1>13. CASE P!LookupFails
  BY <1>2, <1>13, StepEffects DEF Counted
<1> QED
  BY <1>3, <1>4, <1>5, <1>6, <1>7, <1>8, <1>9, <1>10, <1>11, <1>12, <1>13 DEF P!Next

(* A candle holds trades of its second only.                               *)
LEMMA PurityKept ==
  ASSUME PipeInv, P!Next
  PROVE  Purity'
<1>1. PipeTyped /\ Counted /\ Purity
  BY DEF PipeInv
<1>2. /\ trades \in Seq(Nat) /\ Len(trades) \in Nat
      /\ current \in Candle \union {NoCandle}
      /\ pending \in Seq(Candle) /\ emitted \in Seq(Candle) /\ buffer \in Seq(Candle)
      /\ NoCandle.ids = {}
  BY <1>1 DEF PipeTyped, NoCandle, P!Agg!NoCandle
<1>3. /\ Pure(current)
      /\ \A i \in DOMAIN pending : Pure(pending[i])
      /\ \A i \in DOMAIN emitted : Pure(emitted[i])
      /\ \A i \in DOMAIN buffer : Pure(buffer[i])
      /\ \A s \in P!Seconds : rows[s] # NoCandle => Pure(rows[s]) /\ rows[s].time = s
  BY <1>1 DEF Purity
<1>4. trades' = trades => \A c : Pure(c) => Pure(c)'
  BY DEF Pure
<1>5. Pure(NoCandle)' /\ DOMAIN <<>> = {}
  BY <1>2 DEF Pure
<1>6. \A s \in P!Seconds : P!Upsert(buffer, rows)[s] # NoCandle
        => Pure(P!Upsert(buffer, rows)[s]) /\ P!Upsert(buffer, rows)[s].time = s
  <2>1. TAKE s \in P!Seconds
  <2>2. CASE P!Upsert(buffer, rows)[s] = rows[s]
    BY <1>3, <2>2
  <2>3. CASE \E i \in DOMAIN buffer : P!Upsert(buffer, rows)[s] = buffer[i] /\ buffer[i].time = s
    BY <1>3, <2>3
  <2> QED
    BY <1>2, <2>2, <2>3, UpsertOf
<1>7. CASE P!ExchangeTrade
  <2>0. trades' = Append(trades, now) /\ now \in Nat
    BY <1>1, <1>7, StepEffects DEF PipeTyped
  <2>1. /\ Len(trades') = Len(trades) + 1
        /\ \A id \in 1 .. Len(trades) : trades'[id] = trades[id]
    BY <1>2, <2>0
  <2>2. \A id \in 1 .. Len(trades) : id \in 1 .. Len(trades')
    BY <1>2, <2>1
  <2>3. \A c : Pure(c) => Pure(c)'
    BY <2>1, <2>2 DEF Pure
  <2> QED
    BY <1>3, <1>7, <2>3, StepEffects DEF Purity, Pure
<1>8. CASE P!ClockAdvances
  BY <1>3, <1>4, <1>8, StepEffects DEF Purity, Pure
<1>9. CASE P!Start
  BY <1>3, <1>4, <1>5, <1>9, StepEffects DEF Purity, Pure, NoAggregatorNow
<1>10. CASE P!Run
  BY <1>3, <1>4, <1>10, StepEffects DEF Purity, Pure
<1>11. CASE P!OnTrade
  <2>1. /\ UNCHANGED <<trades, emitted, buffer, rows>>
        /\ Received + 1 \in 1 .. Len(trades)
        /\ \/ /\ Opens \/ Closes
              /\ current'.time = trades[Received + 1] /\ current'.ids = {Received + 1}
           \/ Joins
    BY <1>1, <1>11, OnTradeEffect
  <2>2. \A i \in DOMAIN pending' : Pure(pending'[i])
    <3>1. CASE pending' = pending
      BY <1>3, <3>1
    <3>2. CASE current \in Candle /\ pending' = Append(pending, current)
      BY <1>2, <1>3, <3>2, QueueAppend
    <3> QED
      BY <1>2, <2>1, <3>1, <3>2 DEF Opens, Closes, Joins
  <2>3. Pure(current')
    BY <1>3, <2>1 DEF Pure, Joins
  <2> QED
    BY <1>3, <2>1, <2>2, <2>3 DEF Purity, Pure
<1>12. CASE P!Tick
  <2>1. /\ UNCHANGED <<trades, buffer, rows>> /\ emitted = <<>>
        /\ \/ TakesClosed \/ TakesOpen \/ TakesFlat
           \/ UNCHANGED <<current, pending, lastClose, lastEmitted, emitted>>
    BY <1>1, <1>12, TickEffect
  <2>2. ASSUME NEW c, HandsOut(c), Pure(c)
        PROVE  \A i \in DOMAIN emitted' : Pure(emitted'[i])
    BY <2>2 DEF HandsOut
  <2>3. /\ \A i \in DOMAIN emitted' : Pure(emitted'[i])
        /\ \A i \in DOMAIN pending' : Pure(pending'[i])
        /\ Pure(current')
    <3>1. CASE TakesClosed
      <4>1. Pure(Head(pending))
        BY <1>2, <1>3, <3>1, QueueTail DEF TakesClosed
      <4>2. \A i \in DOMAIN pending' : i + 1 \in DOMAIN pending /\ pending'[i] = pending[i + 1]
        BY <1>2, <3>1, QueueTail DEF TakesClosed
      <4> QED
        BY <1>3, <2>2, <3>1, <4>1, <4>2 DEF TakesClosed
    <3>2. CASE TakesOpen
      BY <1>2, <1>3, <2>2, <3>2 DEF TakesOpen, Pure
    <3>3. CASE TakesFlat
      <4>1. Pure([time |-> now - 1, ids |-> {}, close |-> lastClose])
        BY DEF Pure
      <4> QED
        BY <1>3, <2>2, <3>3, <4>1 DEF TakesFlat
    <3>4. CASE UNCHANGED <<current, pending, lastClose, lastEmitted, emitted>>
      BY <1>3, <3>4
    <3> QED
      BY <2>1, <3>1, <3>2, <3>3, <3>4
  <2> QED
    BY <1>3, <2>1, <2>3 DEF Purity, Pure
<1>13. CASE P!WriteCandle
  <2>1. \A i \in DOMAIN (buffer \o emitted) : Pure((buffer \o emitted)[i])
    <3>1. TAKE i \in DOMAIN (buffer \o emitted)
    <3>2. CASE i <= Len(buffer)
      BY <1>2, <1>3, <3>2, QueueJoin
    <3>3. CASE i > Len(buffer)
      <4>1. i - Len(buffer) \in DOMAIN emitted /\ Len(buffer) + (i - Len(buffer)) = i
        BY <1>2, <3>3, QueueJoin
      <4>2. (buffer \o emitted)[i] = emitted[i - Len(buffer)]
        BY <1>2, <4>1, QueueJoin
      <4> QED
        BY <1>3, <4>1, <4>2
    <3> QED
      BY <1>2, <3>2, <3>3, QueueJoin
  <2> QED
    BY <1>3, <1>5, <1>13, <2>1, StepEffects DEF Purity, Pure
<1>14. CASE P!Flush
  BY <1>3, <1>5, <1>6, <1>14, StepEffects DEF Purity, Pure
<1>15. CASE P!Stop
  <2>1. CASE StopStores
    BY <1>3, <1>5, <1>6, <1>15, <2>1, StepEffects DEF Purity, Pure, NoAggregatorNow, StopStores
  <2>2. CASE StopLoses
    BY <1>3, <1>5, <1>15, <2>2, StepEffects DEF Purity, Pure, NoAggregatorNow, StopLoses
  <2> QED
    BY <1>15, <2>1, <2>2, StepEffects
<1>16. CASE P!Crash
  BY <1>3, <1>5, <1>16, StepEffects DEF Purity, Pure, NoAggregatorNow
<1>17. CASE P!LookupFails
  BY <1>3, <1>5, <1>17, StepEffects DEF Purity, Pure
<1> QED
  BY <1>7, <1>8, <1>9, <1>10, <1>11, <1>12, <1>13, <1>14, <1>15, <1>16, <1>17 DEF P!Next

(* What was processed is in the table, on its way or known as lost.        *)
LEMMA KeptKept ==
  ASSUME PipeInv, P!Next
  PROVE  P!ProcessedIsKept'
<1>1. PipeTyped /\ Counted /\ P!ProcessedIsKept
  BY DEF PipeInv
<1>2. /\ lastId \in Nat /\ cursor \in Nat /\ base \in Nat /\ Len(trades) \in Nat
      /\ cursor <= lastId /\ (cursor # 0 => base < cursor) /\ (lastId # 0 => base < lastId)
      /\ pending \in Seq(Candle) /\ emitted \in Seq(Candle) /\ buffer \in Seq(Candle)
      /\ phase = "down" => /\ current = NoCandle /\ pending = <<>>
                           /\ emitted = <<>> /\ buffer = <<>>
      /\ NoCandle.ids = {}
  BY <1>1 DEF PipeTyped, Counted, NoCandle, P!Agg!NoCandle
<1>3. P!Processed = base + 1 .. (IF phase = "down" THEN cursor ELSE lastId)
  BY DEF P!Processed
<1>4. P!Processed' = base' + 1 .. (IF phase' = "down" THEN cursor' ELSE lastId')
  BY DEF P!Processed
<1>5. P!Processed \subseteq stored \union dropped \union HeldIds
  BY <1>1, HeldIs DEF P!ProcessedIsKept
<1>6. SUFFICES P!Processed' \subseteq stored' \union dropped' \union HeldIds'
  BY HeldIs DEF P!ProcessedIsKept, HeldIds, P!HeldOf
<1>7. CASE P!ExchangeTrade
  BY <1>3, <1>4, <1>5, <1>7, StepEffects DEF HeldIds, P!IdsIn
<1>8. CASE P!ClockAdvances
  BY <1>3, <1>4, <1>5, <1>8, StepEffects DEF HeldIds, P!IdsIn
<1>9. CASE P!Start
  <2>1. P!Processed' = P!Processed
    BY <1>3, <1>4, <1>9, StepEffects
  <2>2. HeldIds = {}
    BY <1>2, <1>9, IdsOfNone, StepEffects DEF HeldIds
  <2> QED
    BY <1>5, <1>9, <2>1, <2>2, StepEffects
<1>10. CASE P!Run
  <2>1. P!Processed' \subseteq P!Processed
    BY <1>2, <1>3, <1>4, <1>10, StepEffects
  <2> QED
    BY <1>5, <1>10, <2>1, StepEffects DEF HeldIds, P!IdsIn
<1>11. CASE P!OnTrade
  <2>1. /\ UNCHANGED <<phase, emitted, buffer, stored, dropped, base>>
        /\ lastId' = Received + 1 /\ phase # "down" /\ current' \in Candle
        /\ \/ /\ Opens \/ Closes
              /\ current'.ids = {Received + 1}
           \/ Joins
    BY <1>1, <1>11, OnTradeEffect
  <2>2. Received \in Nat
    BY <1>1, ReceivedNext
  <2>3. P!Processed' \subseteq P!Processed \union {Received + 1}
    BY <1>2, <1>3, <1>4, <2>1, <2>2 DEF Received
  <2>4. current.ids \union P!IdsIn(pending) \union {Received + 1}
          \subseteq current'.ids \union P!IdsIn(pending')
    <3>1. CASE Opens
      BY <1>2, <2>1, <3>1 DEF Opens, Joins
    <3>2. CASE Closes
      <4>1. current \in Candle /\ pending' = Append(pending, current)
        BY <1>1, <3>2 DEF PipeTyped, Closes
      <4>2. P!IdsIn(pending') = P!IdsIn(pending) \union current.ids
        BY <1>2, <4>1, IdsAppend
      <4> QED
        BY <2>1, <3>2, <4>2 DEF Closes, Joins
    <3>3. CASE Joins
      BY <3>3 DEF Joins
    <3> QED
      BY <2>1, <3>1, <3>2, <3>3
  <2>5. P!IdsIn(emitted') = P!IdsIn(emitted) /\ P!IdsIn(buffer') = P!IdsIn(buffer)
    BY <2>1
  <2> QED
    BY <1>5, <2>1, <2>3, <2>4, <2>5 DEF HeldIds
<1>12. CASE P!Tick
  <2>1. /\ UNCHANGED <<phase, lastId, cursor, base, buffer, stored, dropped>> /\ emitted = <<>>
        /\ \/ TakesClosed \/ TakesOpen \/ TakesFlat
           \/ UNCHANGED <<current, pending, lastClose, lastEmitted, emitted>>
    BY <1>1, <1>12, TickEffect
  <2>2. P!Processed' = P!Processed /\ P!IdsIn(buffer') = P!IdsIn(buffer) /\ P!IdsIn(emitted) = {}
    BY <1>3, <1>4, <2>1, IdsOfNone
  <2>3. ASSUME NEW c, HandsOut(c)
        PROVE  c.ids \subseteq P!IdsIn(emitted')
    BY <2>3 DEF HandsOut, P!IdsIn
  <2>4. current.ids \union P!IdsIn(pending)
          \subseteq current'.ids \union P!IdsIn(pending') \union P!IdsIn(emitted')
    <3>1. CASE TakesClosed
      BY <1>2, <2>3, <3>1, IdsTail DEF TakesClosed
    <3>2. CASE TakesOpen
      BY <2>3, <3>2 DEF TakesOpen
    <3>3. CASE TakesFlat
      BY <3>3 DEF TakesFlat
    <3>4. CASE UNCHANGED <<current, pending, lastClose, lastEmitted, emitted>>
      BY <3>4
    <3> QED
      BY <2>1, <3>1, <3>2, <3>3, <3>4
  <2> QED
    BY <1>5, <2>1, <2>2, <2>4 DEF HeldIds
<1>13. CASE P!WriteCandle
  <2>1. P!IdsIn(buffer) \union P!IdsIn(emitted) \subseteq P!IdsIn(buffer')
    BY <1>2, <1>13, IdsJoin, StepEffects
  <2>2. P!Processed' = P!Processed /\ current' = current /\ P!IdsIn(pending') = P!IdsIn(pending)
        /\ stored' = stored /\ dropped' = dropped
    BY <1>3, <1>4, <1>13, StepEffects
  <2> QED
    BY <1>5, <2>1, <2>2 DEF HeldIds
<1>14. CASE P!Flush
  <2>1. /\ P!Processed' = P!Processed /\ current' = current /\ P!IdsIn(pending') = P!IdsIn(pending)
        /\ P!IdsIn(emitted') = P!IdsIn(emitted)
        /\ stored' = stored \union P!IdsIn(buffer) /\ dropped' = dropped
    BY <1>3, <1>4, <1>14, StepEffects
  <2> QED
    BY <1>5, <2>1 DEF HeldIds
<1>15. CASE P!Stop
  <2>1. phase' = "down" /\ phase # "down" /\ base' = base /\ cursor' \in Nat /\ cursor' <= lastId
    BY <1>1, <1>15, ClosedInside, StepEffects
  <2>2. P!Processed' \subseteq P!Processed
    BY <1>2, <1>3, <1>4, <2>1
  <2>3. CASE StopStores
    BY <1>5, <2>2, <2>3, HeldIs DEF StopStores
  <2>4. CASE StopLoses
    BY <1>5, <2>2, <2>4, HeldIs DEF StopLoses
  <2> QED
    BY <1>15, <2>3, <2>4, StepEffects
<1>16. CASE P!Crash
  <2>1. /\ phase # "down" /\ phase' = "down" /\ base' = base /\ cursor' = cursor
        /\ stored' = stored
        /\ dropped' = dropped \union P!HeldOf({pending, emitted, buffer})
    BY <1>16, StepEffects
  <2>2. P!Processed' \subseteq P!Processed
    BY <1>2, <1>3, <1>4, <2>1
  <2> QED
    BY <1>5, <2>1, <2>2, HeldIs
<1>17. CASE P!LookupFails
  <2>1. /\ P!Processed' = P!Processed /\ UNCHANGED <<current, pending, buffer, stored>>
        /\ emitted' = <<>> /\ dropped' = dropped \union P!IdsIn(emitted)
    BY <1>3, <1>4, <1>17, StepEffects
  <2>2. P!IdsIn(pending') = P!IdsIn(pending) /\ P!IdsIn(buffer') = P!IdsIn(buffer)
    BY <2>1
  <2> QED
    BY <1>5, <2>1, <2>2 DEF HeldIds
<1> QED
  BY <1>7, <1>8, <1>9, <1>10, <1>11, <1>12, <1>13, <1>14, <1>15, <1>16, <1>17 DEF P!Next

-----------------------------------------------------------------------------
(* The first run, while every trade was on time.                           *)
Bounded ==
  /\ now \in Nat /\ base \in Nat /\ Len(trades) \in Nat /\ Received \in Nat
  /\ base <= Received /\ Received <= Len(trades)
  /\ \A id \in 1 .. Len(trades) : trades[id] \in Nat /\ trades[id] <= now
  /\ current \in Candle \union {NoCandle} /\ NoCandle.ids = {}
  /\ pending \in Seq(Candle) /\ DOMAIN pending = 1 .. Len(pending) /\ Len(pending) \in Nat
  /\ \A i \in DOMAIN pending : pending[i] \in Candle
  /\ lastEmitted \in Nat \union {-1}
  /\ \A c \in Candle : c.time \in Nat
  /\ \A id \in base + 1 .. Len(trades) : id \in 1 .. Len(trades)

LEMMA BoundedHolds ==
  ASSUME PipeTyped, Counted
  PROVE  Bounded
<1>1. /\ Received \in Nat /\ base <= Received /\ Received <= Len(trades)
      /\ Len(trades) \in Nat /\ \A id \in 1 .. Len(trades) : trades[id] \in Nat
  BY ReceivedNext
<1>2. /\ now \in Nat /\ base \in Nat /\ current \in Candle \union {NoCandle}
      /\ pending \in Seq(Candle) /\ lastEmitted \in Nat \union {-1}
      /\ \A id \in 1 .. Len(trades) : trades[id] <= now
  BY DEF PipeTyped, Counted
<1>3. /\ DOMAIN pending = 1 .. Len(pending) /\ Len(pending) \in Nat
      /\ \A i \in DOMAIN pending : pending[i] \in Candle
  BY <1>2
<1>4. (\A c \in Candle : c.time \in Nat) /\ NoCandle.ids = {}
  BY DEF Candle, NoCandle, P!Agg!CandleType, P!Agg!NoCandle
<1>5. \A id \in base + 1 .. Len(trades) : id \in 1 .. Len(trades)
  BY <1>1, <1>2
<1> QED
  BY <1>1, <1>2, <1>3, <1>4, <1>5 DEF Bounded

(* No trade of a second before now is still to come.                       *)
LEMMA NothingToCome ==
  ASSUME Bounded, OpenWindow, NEW w \in Nat, w < now
  PROVE  InSecond(w) = {id \in base + 1 .. Received : trades[id] = w}
<1>1. ASSUME NEW id \in InSecond(w)
      PROVE  id \in base + 1 .. Received /\ trades[id] = w
  <2>1. id \in 1 .. Len(trades) /\ trades[id] = w /\ id \notin 1 .. base
    BY <1>1 DEF InSecond
  <2>2. id \in base + 1 .. Len(trades)
    BY <2>1 DEF Bounded
  <2>3. id \notin Received + 1 .. Len(trades)
    BY <2>1 DEF Bounded, OpenWindow
  <2> QED
    BY <2>1, <2>2, <2>3 DEF Bounded
<1>2. ASSUME NEW id \in base + 1 .. Received, trades[id] = w
      PROVE  id \in InSecond(w)
  <2>1. id \in 1 .. Len(trades) /\ id \notin 1 .. base
    BY DEF Bounded
  <2> QED
    BY <1>2, <2>1 DEF InSecond
<1> QED
  BY <1>1, <1>2

LEMMA OverIsSettled ==
  ASSUME Bounded, OpenWindow, current # NoCandle, current.time < now
  PROVE  Settled(current)
<1>1. current.time \in Nat
  BY DEF Bounded
<1>2. current.ids = {id \in base + 1 .. Received : trades[id] = current.time}
  BY DEF OpenWindow
<1>3. InSecond(current.time) = {id \in base + 1 .. Received : trades[id] = current.time}
  BY <1>1, NothingToCome
<1> QED
  BY <1>2, <1>3 DEF Settled

LEMMA TimelyTrade ==
  ASSUME PipeTyped, Counted, SettledQueues, OpenWindow, InOrder, P!OnTrade
  PROVE  SettledQueues' /\ OpenWindow' /\ InOrder'
<1>1. Bounded
  BY BoundedHolds
<1> DEFINE id == Received + 1
<1>2. /\ Received' = id /\ id \in 1 .. Len(trades) /\ current' \in Candle
      /\ UNCHANGED <<now, trades, emitted, buffer, base, lastEmitted>>
      /\ \/ /\ Opens \/ Closes
            /\ current'.time = trades[id] /\ current'.ids = {id}
         \/ Joins
  BY OnTradeEffect
<1>3. trades[id] = now
  BY <1>1, <1>2 DEF OpenWindow, Bounded
<1>4. /\ now \in Nat /\ base \in Nat /\ Len(trades) \in Nat /\ Received \in Nat
      /\ base <= Received /\ id \in Nat /\ id <= Len(trades)
      /\ \A k \in base + 1 .. id : k \in base + 1 .. Received \/ k = id
      /\ id \notin base + 1 .. Received /\ id \in base + 1 .. id
      /\ \A k \in base + 1 .. Received : k \in base + 1 .. id
      /\ \A k \in id + 1 .. Len(trades) : k \in Received + 1 .. Len(trades)
  BY <1>1, <1>2 DEF Bounded
<1> HIDE DEF id
<1>5. current # NoCandle => /\ current.time <= now /\ current.time \in Nat
                            /\ current.ids = {k \in base + 1 .. Received : trades[k] = current.time}
  BY <1>1 DEF OpenWindow, Bounded
<1>6. ASSUME \A i \in DOMAIN pending' : Settled(pending'[i])
      PROVE  SettledQueues'
  BY <1>2, <1>6 DEF SettledQueues, Settled, InSecond
<1>7. Closes => current # NoCandle /\ current.time < now /\ Settled(current)
  <2>1. SUFFICES ASSUME Closes PROVE current # NoCandle /\ current.time < now
    BY <1>1, OverIsSettled
  <2> QED
    BY <1>3, <1>4, <1>5, <2>1 DEF Closes, id
<1>8. CASE Closes /\ current'.time = trades[id] /\ current'.ids = {id}
  <2>1. /\ pending' = Append(pending, current) /\ current \in Candle
        /\ current # NoCandle /\ current.time < now /\ Settled(current)
    BY <1>1, <1>7, <1>8 DEF Closes, Bounded
  <2>2. /\ DOMAIN pending = 1 .. Len(pending) /\ Len(pending) \in Nat
        /\ DOMAIN pending' = 1 .. Len(pending) + 1
        /\ \A i \in 1 .. Len(pending) : pending'[i] = pending[i]
        /\ pending'[Len(pending) + 1] = current
    BY <1>1, <2>1, QueueAppend DEF Bounded
  <2>3. \A i \in DOMAIN pending' : i \in DOMAIN pending \/ i = Len(pending) + 1
    BY <2>2
  <2>4. SettledQueues'
    <3>1. \A i \in DOMAIN pending' : Settled(pending'[i])
      BY <2>1, <2>2, <2>3 DEF SettledQueues
    <3> QED
      BY <1>6, <3>1
  <2>5. OpenWindow'
    <3>1. \A k \in base + 1 .. Received : trades[k] # now
      BY <2>1, <1>5 DEF OpenWindow
    <3>2. current'.ids = {k \in base + 1 .. id : trades[k] = current'.time}
      BY <1>3, <1>4, <1>8, <3>1
    <3>3. \A k \in base + 1 .. id : trades[k] = now => k \in current'.ids
      BY <1>3, <1>4, <1>8, <3>2
    <3>4. \A k \in id + 1 .. Len(trades) : trades[k] = now
      BY <1>4 DEF OpenWindow
    <3>5. current'.time <= now
      BY <1>3, <1>4, <1>8
    <3> QED
      BY <1>2, <3>2, <3>3, <3>4, <3>5 DEF OpenWindow
  <2>6. InOrder'
    <3>1. lastEmitted < current.time /\ \A i \in DOMAIN pending : pending[i].time < current.time
      BY <2>1 DEF InOrder
    <3>2. \A i \in DOMAIN pending' : lastEmitted < pending'[i].time
      BY <2>1, <2>2, <2>3, <3>1 DEF InOrder
    <3>3. \A i, j \in DOMAIN pending' : i < j => pending'[i].time < pending'[j].time
      BY <2>1, <2>2, <2>3, <3>1 DEF InOrder
    <3>4. \A i \in DOMAIN pending' : pending'[i].time < now
      BY <2>1, <2>2, <2>3 DEF SettledQueues, Settled
    <3>5. \A k \in base + 1 .. id :
            \/ k \in current'.ids \/ trades[k] <= lastEmitted
            \/ \E i \in DOMAIN pending' : k \in pending'[i].ids
      <4>1. TAKE k \in base + 1 .. id
      <4>2. CASE k = id
        BY <1>8, <4>2
      <4>3. CASE k \in base + 1 .. Received
        <5>1. CASE k \in current.ids
          <6>1. Len(pending) + 1 \in DOMAIN pending'
            BY <2>2
          <6> QED
            BY <2>2, <5>1, <6>1
        <5>2. CASE \E i \in DOMAIN pending : k \in pending[i].ids
          <6>1. PICK i \in DOMAIN pending : k \in pending[i].ids
            BY <5>2
          <6>2. i \in DOMAIN pending' /\ pending'[i] = pending[i]
            BY <2>2
          <6> QED
            BY <6>1, <6>2
        <5> QED
          BY <4>3, <5>1, <5>2 DEF InOrder
      <4> QED
        BY <1>4, <4>2, <4>3
    <3>6. lastEmitted < now
      BY DEF InOrder
    <3> QED
      BY <1>2, <1>3, <1>8, <3>2, <3>3, <3>4, <3>5, <3>6 DEF InOrder
  <2> QED
    BY <2>4, <2>5, <2>6
<1>9. CASE Opens /\ current'.time = trades[id] /\ current'.ids = {id}
  <2>1. pending' = pending /\ current = NoCandle /\ current.ids = {}
    BY <1>1, <1>9 DEF Opens, Bounded
  <2>2. SettledQueues'
    BY <1>6, <2>1 DEF SettledQueues
  <2>3. OpenWindow'
    <3>1. \A k \in base + 1 .. Received : trades[k] # now
      BY <2>1 DEF OpenWindow
    <3>2. current'.ids = {k \in base + 1 .. id : trades[k] = current'.time}
      BY <1>3, <1>4, <1>9, <3>1
    <3>3. \A k \in base + 1 .. id : trades[k] = now => k \in current'.ids
      BY <1>3, <1>4, <1>9, <3>2
    <3>4. \A k \in id + 1 .. Len(trades) : trades[k] = now
      BY <1>4 DEF OpenWindow
    <3>5. current'.time <= now
      BY <1>3, <1>4, <1>9
    <3> QED
      BY <1>2, <3>2, <3>3, <3>4, <3>5 DEF OpenWindow
  <2>4. InOrder'
    <3>1. \A i \in DOMAIN pending : pending[i].time < now
      BY DEF SettledQueues, Settled
    <3>2. \A k \in base + 1 .. id :
            \/ k \in current'.ids \/ trades[k] <= lastEmitted
            \/ \E i \in DOMAIN pending : k \in pending[i].ids
      BY <1>4, <1>9, <2>1 DEF InOrder
    <3>3. /\ lastEmitted < now
          /\ \A i \in DOMAIN pending : lastEmitted < pending[i].time
          /\ \A i, j \in DOMAIN pending : i < j => pending[i].time < pending[j].time
      BY DEF InOrder
    <3> QED
      BY <1>2, <1>3, <1>9, <2>1, <3>1, <3>2, <3>3 DEF InOrder
  <2> QED
    BY <2>2, <2>3, <2>4
<1>10. CASE Joins
  <2>1. /\ pending' = pending /\ current # NoCandle /\ current.time = now
        /\ current'.time = now /\ current'.ids = current.ids \union {id}
    BY <1>3, <1>10 DEF Joins, id
  <2>2. SettledQueues'
    BY <1>6, <2>1 DEF SettledQueues
  <2>3. OpenWindow'
    <3>1. current'.ids = {k \in base + 1 .. id : trades[k] = now}
      BY <1>3, <1>4, <1>5, <2>1
    <3>2. \A k \in id + 1 .. Len(trades) : trades[k] = now
      BY <1>4 DEF OpenWindow
    <3> QED
      BY <1>2, <1>4, <2>1, <3>1, <3>2 DEF OpenWindow
  <2>4. InOrder'
    <3>1. /\ lastEmitted < now
          /\ \A i \in DOMAIN pending : lastEmitted < pending[i].time /\ pending[i].time < now
          /\ \A i, j \in DOMAIN pending : i < j => pending[i].time < pending[j].time
      BY <2>1 DEF InOrder
    <3>2. \A k \in base + 1 .. id :
            \/ k \in current'.ids \/ trades[k] <= lastEmitted
            \/ \E i \in DOMAIN pending : k \in pending[i].ids
      BY <1>4, <2>1 DEF InOrder
    <3> QED
      BY <1>2, <2>1, <3>1, <3>2 DEF InOrder
  <2> QED
    BY <2>2, <2>3, <2>4
<1> QED
  BY <1>2, <1>8, <1>9, <1>10

LEMMA TimelyTick ==
  ASSUME PipeTyped, Counted, Purity, SettledQueues, OpenWindow, InOrder, P!Tick
  PROVE  SettledQueues' /\ OpenWindow' /\ InOrder'
<1>1. Bounded
  BY BoundedHolds
<1>2. /\ UNCHANGED <<now, trades, lastId, buffer, base>> /\ emitted = <<>>
      /\ \/ TakesClosed \/ TakesOpen \/ TakesFlat
         \/ UNCHANGED <<current, pending, lastClose, lastEmitted, emitted>>
  BY TickEffect
<1>3. Received' = Received
  BY <1>2 DEF Received
<1>5. ASSUME \A i \in DOMAIN pending' : Settled(pending'[i]),
             \A i \in DOMAIN emitted' : Settled(emitted'[i])
      PROVE  SettledQueues'
  BY <1>2, <1>5 DEF SettledQueues, Settled, InSecond
<1>6. ASSUME NEW c, HandsOut(c), Settled(c)
      PROVE  \A i \in DOMAIN emitted' : Settled(emitted'[i])
  BY <1>6 DEF HandsOut
<1>7. /\ now \in Nat /\ base \in Nat /\ Received \in Nat /\ Received <= Len(trades)
      /\ Len(trades) \in Nat
      /\ \A k \in base + 1 .. Received : trades[k] \in Nat
  BY <1>1 DEF Bounded
<1>8. CASE TakesClosed
  <2>1. /\ pending # <<>> /\ pending' = Tail(pending) /\ current' = current
        /\ HandsOut(Head(pending)) /\ lastEmitted' = Head(pending).time
    BY <1>8 DEF TakesClosed, HandsOut
  <2>2. /\ Head(pending) = pending[1] /\ Head(pending) \in Candle /\ 1 \in DOMAIN pending
        /\ DOMAIN pending = 1 .. Len(pending) /\ Len(pending) \in Nat
        /\ DOMAIN pending' = 1 .. Len(pending) - 1
        /\ \A i \in 1 .. Len(pending) - 1 : pending'[i] = pending[i + 1]
    BY <1>1, <2>1, QueueTail DEF Bounded
  <2> DEFINE h == Head(pending)
  <2>3. \A i \in DOMAIN pending' :
          i + 1 \in DOMAIN pending /\ pending'[i] = pending[i + 1] /\ 1 < i + 1
    BY <2>2
  <2>4. Settled(h) /\ h.time \in Nat
    BY <1>1, <2>2 DEF SettledQueues, Bounded
  <2>5. SettledQueues'
    <3>1. \A i \in DOMAIN pending' : Settled(pending'[i])
      BY <2>3 DEF SettledQueues
    <3>2. \A i \in DOMAIN emitted' : Settled(emitted'[i])
      BY <1>6, <2>1, <2>4
    <3> QED
      BY <1>5, <3>1, <3>2
  <2>6. OpenWindow'
    BY <1>2, <1>3, <2>1 DEF OpenWindow
  <2>7. InOrder'
    <3>1. h.time < now
      BY <2>4 DEF Settled
    <3>2. \A i \in DOMAIN pending' : h.time < pending'[i].time
      BY <2>2, <2>3 DEF InOrder
    <3>3. \A i, j \in DOMAIN pending' : i < j => pending'[i].time < pending'[j].time
      <4>1. TAKE i, j \in DOMAIN pending'
      <4>2. HAVE i < j
      <4>3. i + 1 < j + 1 /\ i + 1 \in DOMAIN pending /\ j + 1 \in DOMAIN pending
        BY <2>2, <4>2
      <4> QED
        BY <2>3, <4>3 DEF InOrder
    <3>4. current # NoCandle => h.time < current.time
                                /\ \A i \in DOMAIN pending' : pending'[i].time < current.time
      BY <2>2, <2>3 DEF InOrder
    <3>5. \A k \in base + 1 .. Received :
            \/ k \in current.ids \/ trades[k] <= h.time
            \/ \E i \in DOMAIN pending' : k \in pending'[i].ids
      <4>1. TAKE k \in base + 1 .. Received
      <4>2. CASE trades[k] <= lastEmitted
        <5>1. lastEmitted < h.time /\ lastEmitted \in Int /\ trades[k] \in Nat
          BY <1>1, <1>7, <2>2 DEF InOrder, Bounded
        <5> QED
          BY <2>4, <4>2, <5>1
      <4>3. CASE \E i \in DOMAIN pending : k \in pending[i].ids
        <5>1. PICK i \in DOMAIN pending : k \in pending[i].ids
          BY <4>3
        <5>2. CASE i = 1
          <6>1. trades[k] = h.time
            BY <2>2, <5>1, <5>2 DEF Purity, Pure
          <6> QED
            BY <2>4, <6>1
        <5>3. CASE i # 1
          <6>1. i - 1 \in DOMAIN pending' /\ (i - 1) + 1 = i
            BY <2>2, <5>3
          <6>2. pending'[i - 1] = pending[i]
            BY <2>3, <6>1
          <6> QED
            BY <5>1, <6>1, <6>2
        <5> QED
          BY <5>2, <5>3
      <4> QED
        BY <4>2, <4>3 DEF InOrder
    <3> HIDE DEF h
    <3>6. lastEmitted' = h.time
      BY <2>1 DEF h
    <3> QED
      BY <1>2, <1>3, <2>1, <3>1, <3>2, <3>3, <3>4, <3>5, <3>6 DEF InOrder
  <2> QED
    BY <2>5, <2>6, <2>7
<1>9. CASE TakesOpen
  <2>1. /\ pending = <<>> /\ pending' = <<>> /\ current # NoCandle /\ current.time < now
        /\ current' = NoCandle /\ HandsOut(current) /\ lastEmitted' = current.time
        /\ current.time \in Nat
    BY <1>1, <1>9 DEF TakesOpen, HandsOut, Bounded
  <2>2. Settled(current)
    BY <1>1, <2>1, OverIsSettled
  <2>3. SettledQueues'
    BY <1>5, <1>6, <2>1, <2>2 DEF SettledQueues
  <2>4. \A k \in base + 1 .. Received : k \in current.ids => trades[k] = current.time
    BY <2>1 DEF OpenWindow
  <2>5. OpenWindow'
    <3>1. \A k \in base + 1 .. Received : trades[k] # now
      BY <2>1, <2>4, <1>7 DEF OpenWindow
    <3> QED
      BY <1>2, <1>3, <2>1, <3>1 DEF OpenWindow
  <2>6. InOrder'
    <3>1. \A k \in base + 1 .. Received : trades[k] <= current.time
      <4>1. TAKE k \in base + 1 .. Received
      <4>2. k \in current.ids \/ trades[k] <= lastEmitted
        BY <2>1 DEF InOrder
      <4>3. lastEmitted < current.time /\ lastEmitted \in Int /\ trades[k] \in Nat
        BY <1>1, <1>7, <2>1 DEF InOrder, Bounded
      <4> QED
        BY <2>1, <2>4, <4>2, <4>3
    <3> QED
      BY <1>2, <1>3, <2>1, <3>1 DEF InOrder
  <2> QED
    BY <2>3, <2>5, <2>6
<1>10. CASE TakesFlat
  <2> DEFINE f == [time |-> now - 1, ids |-> {}, close |-> lastClose]
  <2>1. /\ pending = <<>> /\ pending' = <<>> /\ current' = current
        /\ HandsOut(f) /\ lastEmitted' = now - 1 /\ 0 < now /\ lastEmitted < now - 1
        /\ current = NoCandle \/ current.time > now - 1
    BY <1>10 DEF TakesFlat, HandsOut
  <2>2. current # NoCandle => current.time = now
    BY <1>1, <2>1 DEF OpenWindow, Bounded
  <2>3. \A k \in base + 1 .. Received : k \in current.ids \/ trades[k] <= lastEmitted
    BY <2>1 DEF InOrder
  <2>4. \A k \in base + 1 .. Received : k \in current.ids => trades[k] = now
    BY <1>1, <2>2 DEF OpenWindow, Bounded
  <2>5. \A k \in base + 1 .. Received : trades[k] # now - 1
    <3>1. TAKE k \in base + 1 .. Received
    <3>2. trades[k] \in Nat /\ lastEmitted \in Int
      BY <1>1, <1>7 DEF Bounded
    <3> QED
      BY <1>7, <2>1, <2>3, <2>4, <3>2
  <2>6. Settled(f)
    <3>1. now - 1 \in Nat /\ now - 1 < now
      BY <1>7, <2>1
    <3>2. InSecond(now - 1) = {k \in base + 1 .. Received : trades[k] = now - 1}
      BY <1>1, <3>1, NothingToCome
    <3>3. InSecond(now - 1) = {}
      BY <2>5, <3>2
    <3> QED
      BY <3>1, <3>3 DEF Settled
  <2>7. SettledQueues'
    BY <1>5, <1>6, <2>1, <2>6 DEF SettledQueues
  <2>8. OpenWindow'
    BY <1>2, <1>3, <2>1 DEF OpenWindow
  <2>9. InOrder'
    <3>1. \A k \in base + 1 .. Received : k \in current.ids \/ trades[k] <= now - 1
      <4>1. TAKE k \in base + 1 .. Received
      <4>2. trades[k] \in Nat /\ lastEmitted \in Int
        BY <1>1, <1>7 DEF Bounded
      <4> QED
        BY <1>7, <2>1, <2>3, <4>2
    <3>2. now - 1 < now /\ (current # NoCandle => now - 1 < current.time)
      BY <1>7, <2>2
    <3> QED
      BY <1>2, <1>3, <2>1, <3>1, <3>2 DEF InOrder
  <2> QED
    BY <2>7, <2>8, <2>9
<1>11. CASE UNCHANGED <<current, pending, lastClose, lastEmitted, emitted>>
  <2>1. SettledQueues'
    BY <1>5, <1>11 DEF SettledQueues
  <2>2. OpenWindow' /\ InOrder'
    BY <1>2, <1>3, <1>11 DEF OpenWindow, InOrder
  <2> QED
    BY <2>1, <2>2
<1> QED
  BY <1>2, <1>8, <1>9, <1>10, <1>11

LEMMA TimelyKept ==
  ASSUME PipeInv, P!Next
  PROVE  Timely'
<1>1. PipeTyped /\ Counted /\ Purity /\ Timely
  BY DEF PipeInv
<1>2. Bounded
  BY <1>1, BoundedHolds
<1>3. /\ now \in Nat /\ base \in Nat /\ starts \in Nat /\ trades \in Seq(Nat)
      /\ Len(trades) \in Nat /\ buffer \in Seq(Candle) /\ emitted \in Seq(Candle)
      /\ \A c \in Candle : c.time \in Nat
      /\ rows \in [P!Seconds -> Candle \union {NoCandle}]
      /\ base <= Received /\ Received <= Len(trades) /\ Received \in Nat
      /\ \A id \in 1 .. Len(trades) : trades[id] \in Nat /\ trades[id] <= now
      /\ starts = 0 => phase = "down" /\ cursor = 0 /\ NoRows
  BY <1>1, <1>2 DEF PipeTyped, Counted, Bounded
<1> DEFINE Rows == \A s \in P!Seconds : rows[s] # NoCandle => Settled(rows[s])
           Recovers == phase = "recovering" => Fresh
           Runs == phase = "running" => SettledQueues /\ OpenWindow /\ InOrder
<1>4. onTime /\ starts <= 1 => Rows /\ Recovers /\ Runs
  BY <1>1 DEF Timely
<1>5. (onTime' /\ starts' <= 1 => Rows' /\ Recovers' /\ Runs') => Timely'
  BY DEF Timely
<1> HIDE DEF Rows, Recovers, Runs
<1>6. CASE P!ExchangeTrade
  <2>1. /\ trades' = Append(trades, now)
        /\ UNCHANGED <<now, phase, starts, lastId, current, pending, lastEmitted, emitted,
                       buffer, rows, base, onTime>>
    BY <1>6, StepEffects
  <2>2. /\ Len(trades') = Len(trades) + 1
        /\ \A id \in 1 .. Len(trades) : trades'[id] = trades[id]
        /\ trades'[Len(trades) + 1] = now
    BY <1>3, <2>1
  <2>3. SUFFICES ASSUME onTime, starts <= 1 PROVE Rows' /\ Recovers' /\ Runs'
    BY <1>5, <2>1
  <2>4. Rows /\ Recovers /\ Runs
    BY <1>4, <2>3
  <2>5. Received' = Received
    BY <2>1 DEF Received
  <2>6. ASSUME NEW w, w < now
        PROVE  InSecond(w)' = InSecond(w)
    <3>1. w # now
      BY <1>3, <2>6
    <3>2. \A id : id \in 1 .. Len(trades') <=> id \in 1 .. Len(trades) \/ id = Len(trades) + 1
      BY <1>3, <2>2
    <3> QED
      BY <2>1, <2>2, <3>1, <3>2 DEF InSecond
  <2>7. \A c : Settled(c) => c.time < now' /\ c.ids = InSecond(c.time)'
    BY <2>1, <2>6 DEF Settled
  <2>8. Rows'
    BY <2>1, <2>4, <2>7 DEF Rows, Settled
  <2>9. Recovers'
    BY <2>1, <2>4 DEF Recovers, Fresh, NoRows
  <2>10. Runs'
    <3>1. SUFFICES ASSUME phase = "running" PROVE SettledQueues' /\ OpenWindow' /\ InOrder'
      BY <2>1 DEF Runs
    <3>2. SettledQueues /\ OpenWindow /\ InOrder
      BY <2>4, <3>1 DEF Runs
    <3>3. SettledQueues'
      BY <2>1, <2>7, <3>2 DEF SettledQueues, Settled
    <3>4. \A id \in base + 1 .. Received : id \in 1 .. Len(trades) /\ trades'[id] = trades[id]
      BY <1>3, <2>2
    <3>5. \A id \in Received + 1 .. Len(trades') : trades'[id] = now
      BY <1>3, <2>2, <3>2 DEF OpenWindow
    <3>6. OpenWindow'
      BY <2>1, <2>5, <3>2, <3>4, <3>5 DEF OpenWindow
    <3>7. InOrder'
      BY <2>1, <2>5, <3>2, <3>4 DEF InOrder
    <3> QED
      BY <3>3, <3>6, <3>7
  <2> QED
    BY <2>8, <2>9, <2>10
<1>7. CASE P!ClockAdvances
  <2>1. /\ now' = now + 1 /\ onTime' = (onTime /\ (phase = "down" \/ P!CaughtUp))
        /\ UNCHANGED <<trades, phase, starts, lastId, current, pending, lastEmitted, emitted,
                       buffer, rows, base>>
    BY <1>7, StepEffects
  <2>2. onTime' => onTime /\ (phase = "down" \/ P!CaughtUp)
    BY <2>1, Zenon
  <2>3. SUFFICES ASSUME onTime, starts <= 1, phase = "down" \/ P!CaughtUp
                 PROVE  Rows' /\ Recovers' /\ Runs'
    BY <1>5, <2>1, <2>2
  <2>4. Rows /\ Recovers /\ Runs
    BY <1>4, <2>3
  <2>5. Received' = Received
    BY <2>1 DEF Received
  <2>6. \A c \in Candle : Settled(c) => c.time < now' /\ c.ids = InSecond(c.time)'
    BY <1>3, <2>1 DEF Settled, InSecond
  <2>7. Rows'
    <3>1. \A s \in P!Seconds : rows[s] # NoCandle => rows[s] \in Candle
      BY <1>3
    <3> QED
      BY <2>1, <2>4, <2>6, <3>1 DEF Rows, Settled
  <2>8. Recovers'
    BY <2>1, <2>4 DEF Recovers, Fresh, NoRows
  <2>9. Runs'
    <3>1. SUFFICES ASSUME phase = "running" PROVE SettledQueues' /\ OpenWindow' /\ InOrder'
      BY <2>1 DEF Runs
    <3>2. SettledQueues /\ OpenWindow /\ InOrder /\ Received = Len(trades)
      BY <1>1, <2>3, <2>4, <3>1, ReceivedNext DEF Runs
    <3>3. /\ \A i \in DOMAIN pending : pending[i] \in Candle
          /\ \A i \in DOMAIN emitted : emitted[i] \in Candle
          /\ \A i \in DOMAIN buffer : buffer[i] \in Candle
      BY <1>2, <1>3 DEF Bounded
    <3>4. SettledQueues'
      BY <2>1, <2>6, <3>2, <3>3 DEF SettledQueues, Settled
    <3>5. \A id \in base + 1 .. Received : id \in 1 .. Len(trades) /\ trades[id] # now + 1
      BY <1>3
    <3>6. \A id \in Received + 1 .. Len(trades) : FALSE
      BY <1>3, <3>2
    <3>7. current # NoCandle => current.time <= now + 1
      BY <1>2, <3>2 DEF OpenWindow, Bounded
    <3>8. OpenWindow'
      BY <2>1, <2>5, <3>2, <3>5, <3>6, <3>7 DEF OpenWindow
    <3>9. lastEmitted < now + 1
      BY <1>2, <3>2 DEF InOrder, Bounded
    <3>10. InOrder'
      BY <2>1, <2>5, <3>2, <3>9 DEF InOrder
    <3> QED
      BY <3>4, <3>8, <3>10
  <2> QED
    BY <2>7, <2>8, <2>9
<1>8. CASE P!Start
  <2>1. /\ phase' = "recovering" /\ starts' = starts + 1 /\ lastId' = cursor
        /\ NoAggregatorNow /\ UNCHANGED <<now, trades, rows, base, onTime>>
    BY <1>8, StepEffects
  <2>2. SUFFICES ASSUME onTime, starts + 1 <= 1 PROVE Rows' /\ Recovers' /\ Runs'
    BY <1>5, <2>1
  <2>3. starts = 0 /\ cursor = 0 /\ NoRows
    BY <1>3, <2>2
  <2>4. Rows' /\ NoRows'
    BY <2>1, <2>3 DEF Rows, NoRows
  <2>5. Recovers'
    BY <2>1, <2>3, <2>4 DEF Recovers, Fresh, NoAggregatorNow
  <2>6. Runs'
    BY <2>1 DEF Runs
  <2> QED
    BY <2>4, <2>5, <2>6
<1>9. CASE P!Run
  <2>1. /\ phase = "recovering" /\ phase' = "running"
        /\ base' = (IF lastId = 0 THEN Len(trades) ELSE base)
        /\ UNCHANGED <<now, trades, starts, lastId, current, pending, lastEmitted, emitted,
                       buffer, rows, onTime>>
    BY <1>9, StepEffects
  <2>2. SUFFICES ASSUME onTime, starts <= 1 PROVE Rows' /\ Recovers' /\ Runs'
    BY <1>5, <2>1
  <2>3. Fresh
    BY <1>4, <2>1, <2>2 DEF Recovers
  <2>4. lastId = 0 /\ base' = Len(trades) /\ Received' = Len(trades)
    BY <2>1, <2>3 DEF Fresh, Received
  <2>5. Rows'
    BY <2>1, <2>3 DEF Rows, Fresh, NoRows
  <2>6. Recovers'
    BY <2>1 DEF Recovers
  <2>7. Len(trades') = Len(trades) /\ (\A id \in Len(trades) + 1 .. Len(trades) : FALSE)
    BY <1>3, <2>1
  <2>8. SettledQueues'
    BY <2>1, <2>3 DEF Fresh, SettledQueues
  <2>9. OpenWindow'
    BY <2>1, <2>3, <2>4, <2>7 DEF Fresh, OpenWindow
  <2>10. InOrder'
    BY <1>3, <2>1, <2>3, <2>4, <2>7 DEF Fresh, InOrder
  <2> QED
    BY <2>5, <2>6, <2>8, <2>9, <2>10 DEF Runs
<1>10. CASE P!OnTrade
  <2>1. /\ phase = "running" \/ (phase = "recovering" /\ lastId # 0)
        /\ UNCHANGED <<now, trades, phase, starts, rows, base, onTime>>
    <3>1. phase # "down" /\ (phase = "recovering" => lastId # 0)
      BY <1>1, <1>10, OnTradeEffect
    <3>2. phase \in {"down", "recovering", "running"}
      BY <1>1 DEF PipeTyped
    <3> QED
      BY <1>1, <1>10, <3>1, <3>2, OnTradeEffect
  <2>2. SUFFICES ASSUME onTime, starts <= 1 PROVE Rows' /\ Recovers' /\ Runs'
    BY <1>5, <2>1
  <2>3. Rows /\ Recovers /\ Runs
    BY <1>4, <2>2
  <2>4. phase = "running"
    BY <2>1, <2>3 DEF Recovers, Fresh
  <2>5. SettledQueues' /\ OpenWindow' /\ InOrder'
    BY <1>1, <1>10, <2>3, <2>4, TimelyTrade DEF Runs
  <2>6. Rows'
    BY <2>1, <2>3 DEF Rows, Settled, InSecond
  <2> QED
    BY <2>1, <2>4, <2>5, <2>6 DEF Recovers, Runs
<1>11. CASE P!Tick
  <2>1. phase = "running" /\ UNCHANGED <<now, trades, phase, starts, rows, base, onTime>>
    BY <1>1, <1>11, TickEffect
  <2>2. SUFFICES ASSUME onTime, starts <= 1 PROVE Rows' /\ Recovers' /\ Runs'
    BY <1>5, <2>1
  <2>3. Rows /\ Recovers /\ Runs
    BY <1>4, <2>2
  <2>4. SettledQueues' /\ OpenWindow' /\ InOrder'
    BY <1>1, <1>11, <2>1, <2>3, TimelyTick DEF Runs
  <2>5. Rows'
    BY <2>1, <2>3 DEF Rows, Settled, InSecond
  <2> QED
    BY <2>1, <2>4, <2>5 DEF Recovers, Runs
<1>12. CASE P!WriteCandle
  <2>1. /\ phase = "running" /\ buffer' = buffer \o emitted /\ emitted' = <<>>
        /\ UNCHANGED <<now, trades, phase, starts, lastId, current, pending, lastEmitted,
                       rows, base, onTime>>
    BY <1>12, StepEffects
  <2>2. SUFFICES ASSUME onTime, starts <= 1 PROVE Rows' /\ Recovers' /\ Runs'
    BY <1>5, <2>1
  <2>3. Rows /\ Recovers /\ SettledQueues /\ OpenWindow /\ InOrder
    BY <1>4, <2>1, <2>2 DEF Runs
  <2>4. Received' = Received
    BY <2>1 DEF Received
  <2>5. \A i \in DOMAIN (buffer \o emitted) : Settled((buffer \o emitted)[i])
    <3>1. TAKE i \in DOMAIN (buffer \o emitted)
    <3>2. CASE i <= Len(buffer)
      BY <1>3, <2>3, <3>2, QueueJoin DEF SettledQueues
    <3>3. CASE i > Len(buffer)
      <4>1. i - Len(buffer) \in DOMAIN emitted /\ Len(buffer) + (i - Len(buffer)) = i
        BY <1>3, <3>3, QueueJoin
      <4>2. (buffer \o emitted)[i] = emitted[i - Len(buffer)]
        BY <1>3, <4>1, QueueJoin
      <4> QED
        BY <2>3, <4>1, <4>2 DEF SettledQueues
    <3> QED
      BY <1>3, <3>2, <3>3, QueueJoin
  <2>6. SettledQueues'
    BY <2>1, <2>3, <2>5 DEF SettledQueues, Settled, InSecond
  <2>7. OpenWindow' /\ InOrder'
    BY <2>1, <2>3, <2>4 DEF OpenWindow, InOrder
  <2>8. Rows'
    BY <2>1, <2>3 DEF Rows, Settled, InSecond
  <2> QED
    BY <2>1, <2>6, <2>7, <2>8 DEF Recovers, Runs
<1>13. ASSUME rows' = P!Upsert(buffer, rows) \/ rows' = rows,
              UNCHANGED <<now, trades, base>>, Rows,
              \A i \in DOMAIN buffer : Settled(buffer[i])
       PROVE  Rows'
  <2>1. \A s \in P!Seconds : rows'[s] # NoCandle => Settled(rows'[s])
    <3>1. TAKE s \in P!Seconds
    <3>2. CASE rows'[s] = rows[s]
      BY <1>13, <3>2 DEF Rows
    <3>3. CASE \E i \in DOMAIN buffer : rows'[s] = buffer[i]
      BY <1>13, <3>3
    <3> QED
      BY <1>3, <1>13, <3>2, <3>3, UpsertOf
  <2> QED
    BY <1>13, <2>1 DEF Rows, Settled, InSecond
<1>14. CASE P!Flush
  <2>1. /\ phase = "running" /\ buffer' = <<>> /\ rows' = P!Upsert(buffer, rows)
        /\ UNCHANGED <<now, trades, phase, starts, lastId, current, pending, lastEmitted,
                       emitted, base, onTime>>
    BY <1>14, StepEffects
  <2>2. SUFFICES ASSUME onTime, starts <= 1 PROVE Rows' /\ Recovers' /\ Runs'
    BY <1>5, <2>1
  <2>3. Rows /\ Recovers /\ SettledQueues /\ OpenWindow /\ InOrder
    BY <1>4, <2>1, <2>2 DEF Runs
  <2>4. Received' = Received
    BY <2>1 DEF Received
  <2>5. Rows'
    BY <1>13, <2>1, <2>3 DEF SettledQueues
  <2>6. SettledQueues'
    BY <2>1, <2>3 DEF SettledQueues, Settled, InSecond
  <2>7. OpenWindow' /\ InOrder'
    BY <2>1, <2>3, <2>4 DEF OpenWindow, InOrder
  <2> QED
    BY <2>1, <2>5, <2>6, <2>7 DEF Recovers, Runs
<1>15. CASE P!Stop
  <2>1. /\ phase # "down" /\ phase' = "down"
        /\ rows' = P!Upsert(buffer, rows) \/ rows' = rows
        /\ UNCHANGED <<now, trades, starts, base, onTime>>
    BY <1>15, StepEffects DEF StopStores, StopLoses
  <2>2. SUFFICES ASSUME onTime, starts <= 1 PROVE Rows' /\ Recovers' /\ Runs'
    BY <1>5, <2>1
  <2>3. Rows /\ Recovers /\ Runs
    BY <1>4, <2>2
  <2>4. \A i \in DOMAIN buffer : Settled(buffer[i])
    <3>1. CASE phase = "recovering"
      BY <2>3, <3>1 DEF Recovers, Fresh
    <3>2. CASE phase = "running"
      BY <2>3, <3>2 DEF Runs, SettledQueues
    <3> QED
      BY <1>1, <2>1, <3>1, <3>2 DEF PipeTyped
  <2>5. Rows'
    BY <1>13, <2>1, <2>3, <2>4
  <2> QED
    BY <2>1, <2>5 DEF Recovers, Runs
<1>16. CASE P!Crash
  <2>1. /\ phase' = "down" /\ UNCHANGED <<now, trades, starts, base, onTime, rows>>
    BY <1>16, StepEffects
  <2>2. SUFFICES ASSUME onTime, starts <= 1 PROVE Rows' /\ Recovers' /\ Runs'
    BY <1>5, <2>1
  <2>3. Rows
    BY <1>4, <2>2
  <2> QED
    BY <2>1, <2>3 DEF Rows, Recovers, Runs, Settled, InSecond
<1>17. CASE P!LookupFails
  <2>1. /\ phase = "running" /\ emitted' = <<>>
        /\ UNCHANGED <<now, trades, phase, starts, lastId, current, pending, lastEmitted,
                       buffer, rows, base, onTime>>
    BY <1>17, StepEffects
  <2>2. SUFFICES ASSUME onTime, starts <= 1 PROVE Rows' /\ Recovers' /\ Runs'
    BY <1>5, <2>1
  <2>3. Rows /\ Recovers /\ SettledQueues /\ OpenWindow /\ InOrder
    BY <1>4, <2>1, <2>2 DEF Runs
  <2>4. Received' = Received
    BY <2>1 DEF Received
  <2>5. SettledQueues'
    BY <2>1, <2>3 DEF SettledQueues, Settled, InSecond
  <2>6. OpenWindow' /\ InOrder'
    BY <2>1, <2>3, <2>4 DEF OpenWindow, InOrder
  <2>7. Rows'
    BY <2>1, <2>3 DEF Rows, Settled, InSecond
  <2> QED
    BY <2>1, <2>5, <2>6, <2>7 DEF Recovers, Runs
<1> QED
  BY <1>6, <1>7, <1>8, <1>9, <1>10, <1>11, <1>12, <1>14, <1>15, <1>16, <1>17 DEF P!Next

LEMMA PipeStarts == P!Init => PipeInv
<1> SUFFICES ASSUME P!Init PROVE PipeInv
  OBVIOUS
<1>1. /\ now = 0 /\ trades = <<>> /\ phase = "down" /\ starts = 0 /\ lastId = 0 /\ cursor = 0
      /\ current = NoCandle /\ pending = <<>> /\ lastClose = -1 /\ lastEmitted = -1
      /\ emitted = <<>> /\ ticked = 0 /\ buffer = <<>>
      /\ rows = [s \in P!Seconds |-> NoCandle] /\ base = 0
  BY DEF P!Init, P!NoStored, NoCandle, P!Agg!NoClose, P!Agg!NoTime
<1>2. PipeTyped
  BY <1>1 DEF PipeTyped
<1>3. NoRows
  BY <1>1 DEF NoRows
<1>4. Counted
  BY <1>1, <1>3 DEF Counted
<1>5. Purity
  BY <1>1 DEF Purity, Pure, NoCandle, P!Agg!NoCandle
<1>6. Timely
  BY <1>1 DEF Timely
<1>7. P!ProcessedIsKept
  BY <1>1 DEF P!ProcessedIsKept, P!Processed
<1> QED
  BY <1>2, <1>4, <1>5, <1>6, <1>7 DEF PipeInv

LEMMA PipeSteps ==
  ASSUME PipeInv, [P!Next]_P!vars
  PROVE  PipeInv'
<1>1. CASE P!Next
  BY <1>1, TypedKept, CountedKept, PurityKept, TimelyKept, KeptKept DEF PipeInv
<1>2. CASE UNCHANGED P!vars
  <2> USE DEF P!vars, P!aggVars, P!history
  <2>1. PipeTyped' /\ Counted'
    BY <1>2 DEF PipeInv, PipeTyped, Counted, NoRows
  <2>2. Purity'
    BY <1>2 DEF PipeInv, Purity, Pure
  <2>3. Timely'
    BY <1>2 DEF PipeInv, Timely, Fresh, NoRows, SettledQueues, Settled, InSecond, OpenWindow,
                InOrder, Received
  <2>4. P!ProcessedIsKept'
    BY <1>2 DEF PipeInv, P!ProcessedIsKept, P!Processed, P!HeldOf, P!IdsIn
  <2> QED
    BY <2>1, <2>2, <2>3, <2>4 DEF PipeInv
<1> QED
  BY <1>1, <1>2

LEMMA PipeInvariant == P!Spec => []PipeInv
BY PipeStarts, PipeSteps, PTL DEF P!Spec

LEMMA RowsTell == PipeInv => P!TradesReachTheirRows
<1> SUFFICES ASSUME PipeInv PROVE P!RowsHoldTheirSecond /\ P!ProcessedIsKept
  BY DEF P!TradesReachTheirRows
<1>1. /\ trades \in Seq(Nat) /\ Purity /\ Timely /\ P!NoStored = NoCandle
      /\ rows \in [P!Seconds -> Candle \union {NoCandle}] /\ NoCandle.ids = {}
  BY DEF PipeInv, PipeTyped, P!NoStored, NoCandle, P!Agg!NoCandle
<1>2. \A s : P!Of(s) = {id \in 1 .. Len(trades) : trades[id] = s}
  BY <1>1 DEF P!Of
<1>3. P!StoredPure
  <2>1. SUFFICES ASSUME NEW s \in P!Seconds PROVE rows[s].ids \subseteq P!Of(s)
    BY DEF P!StoredPure
  <2>2. CASE rows[s] = NoCandle
    BY <1>1, <2>2
  <2>3. CASE rows[s] # NoCandle
    BY <1>1, <1>2, <2>3 DEF Purity, Pure
  <2> QED
    BY <2>2, <2>3
<1>4. P!TimelyCandlesComplete
  <2>1. SUFFICES ASSUME onTime, starts <= 1, NEW s \in P!Seconds, rows[s] # NoCandle
                 PROVE  rows[s].ids = P!Of(s) \ (1 .. base)
    BY <1>1 DEF P!TimelyCandlesComplete
  <2>2. rows[s].ids = InSecond(rows[s].time) /\ rows[s].time = s
    BY <1>1, <2>1 DEF Timely, Settled, Purity
  <2> QED
    BY <1>2, <2>2 DEF InSecond
<1> QED
  BY <1>3, <1>4 DEF PipeInv, P!RowsHoldTheirSecond

-----------------------------------------------------------------------------
(* The collector of trades.                                                *)
Message == [id : Nat, symbol : Symbols]

CollectorState ==
  [phase : {"off", "setup", "on", "store", "ended"}, picks : SUBSET Symbols,
   todo : SUBSET Symbols, buffer : Seq(Message), received : SUBSET Message,
   why : {"none", "full", "timeout", "again"}]

Collected == collector.received \subseteq R!Buffered \union kept \union left

CollectInv ==
  /\ collector \in CollectorState /\ IsFiniteSet(collector.received)
  /\ collector.phase # "ended" => Collected

LEMMA PhaseIs ==
  ASSUME NEW st \in CollectorState,
         NEW phase_ \in {"off", "setup", "on", "store", "ended"}
  PROVE  LET new == [st EXCEPT !.phase = phase_] IN
         /\ new \in CollectorState /\ new.phase = phase_
         /\ new.buffer = st.buffer /\ new.received = st.received
BY DEF CollectorState

LEMMA WhyIs ==
  ASSUME NEW st \in CollectorState, NEW why \in {"none", "full", "timeout", "again"}
  PROVE  LET new == [st EXCEPT !.why = why] IN
         /\ new \in CollectorState /\ new.phase = st.phase
         /\ new.buffer = st.buffer /\ new.received = st.received
BY DEF CollectorState

LEMMA StoresIs ==
  ASSUME NEW st \in CollectorState, NEW why \in {"none", "full", "timeout", "again"}
  PROVE  LET new == [st EXCEPT !.phase = "store", !.why = why] IN
         /\ new \in CollectorState /\ new.phase = "store"
         /\ new.buffer = st.buffer /\ new.received = st.received
<1> DEFINE g == [st EXCEPT !.phase = "store"]
<1>1. g \in CollectorState /\ g.phase = "store" /\ g.buffer = st.buffer /\ g.received = st.received
  BY PhaseIs
<1> DEFINE h == [g EXCEPT !.why = why]
<1>2. [st EXCEPT !.phase = "store", !.why = why] = h
  OBVIOUS
<1> HIDE DEF g
<1>3. h \in CollectorState /\ h.phase = g.phase /\ h.buffer = g.buffer /\ h.received = g.received
  BY <1>1, WhyIs
<1> HIDE DEF h
<1> QED
  BY <1>1, <1>2, <1>3

LEMMA EmptiedIs ==
  ASSUME NEW st \in CollectorState
  PROVE  LET new == [st EXCEPT !.phase = "on", !.buffer = <<>>, !.why = "none"] IN
         /\ new \in CollectorState /\ new.phase = "on"
         /\ new.buffer = <<>> /\ new.received = st.received
<1> DEFINE g == [st EXCEPT !.phase = "on"]
           h == [g EXCEPT !.buffer = <<>>]
           k == [h EXCEPT !.why = "none"]
<1>1. g \in CollectorState /\ g.phase = "on" /\ g.received = st.received
  BY PhaseIs
<1>2. [st EXCEPT !.phase = "on", !.buffer = <<>>, !.why = "none"] = k
  OBVIOUS
<1> HIDE DEF g
<1>3. <<>> \in Seq(Message)
  OBVIOUS
<1>4. h \in CollectorState /\ h.phase = "on" /\ h.buffer = <<>> /\ h.received = g.received
  BY <1>1, <1>3 DEF CollectorState
<1> HIDE DEF h
<1>5. k \in CollectorState /\ k.phase = h.phase /\ k.buffer = h.buffer /\ k.received = h.received
  BY <1>4, WhyIs
<1> HIDE DEF k
<1> QED
  BY <1>1, <1>2, <1>4, <1>5

LEMMA TodoIs ==
  ASSUME NEW st \in CollectorState, NEW todo \in SUBSET Symbols
  PROVE  LET new == [st EXCEPT !.todo = todo] IN
         /\ new \in CollectorState /\ new.phase = st.phase
         /\ new.buffer = st.buffer /\ new.received = st.received
BY DEF CollectorState

LEMMA ReceivedIs ==
  ASSUME NEW st \in CollectorState, NEW t \in Message
  PROVE  LET new == [st EXCEPT !.buffer = Append(@, t), !.received = @ \union {t}] IN
         /\ new \in CollectorState /\ new.phase = st.phase
         /\ new.buffer = Append(st.buffer, t) /\ new.received = st.received \union {t}
<1> DEFINE b == Append(st.buffer, t)
           r == st.received \union {t}
           g == [st EXCEPT !.buffer = b]
           h == [g EXCEPT !.received = r]
<1>1. b \in Seq(Message) /\ r \in SUBSET Message
  BY DEF CollectorState
<1>2. [st EXCEPT !.buffer = Append(@, t), !.received = @ \union {t}] = h
  OBVIOUS
<1>3. b = Append(st.buffer, t) /\ r = st.received \union {t}
  OBVIOUS
<1> HIDE DEF b, r
<1>4. g \in CollectorState /\ g.phase = st.phase /\ g.buffer = b
  BY <1>1 DEF CollectorState
<1> HIDE DEF g
<1>5. h \in CollectorState /\ h.phase = g.phase /\ h.buffer = g.buffer /\ h.received = r
  BY <1>1, <1>4 DEF CollectorState
<1> HIDE DEF h
<1> QED
  BY <1>2, <1>3, <1>4, <1>5

LEMMA CollectInit == R!Init => CollectInv
BY FS_EmptySet DEF R!Init, CollectInv, CollectorState, Collected

(* What was received stays received while neither buffer nor table shrink. *)
LEMMA CollectStays ==
  ASSUME CollectInv, collector' \in CollectorState,
         collector'.buffer = collector.buffer, collector'.received = collector.received,
         collector'.phase # "ended" => collector.phase # "ended",
         kept \subseteq kept', left \subseteq left'
  PROVE  CollectInv'
<1>1. R!Buffered' = R!Buffered
  BY DEF R!Buffered
<1> QED
  BY <1>1 DEF CollectInv, Collected

(* The same number, of the module that the instance extends.              *)
LEMMA SameCount == \A S : R!Cardinality(S) = Cardinality(S)
BY Zenon DEF R!Cardinality, R!IsFiniteSet, Cardinality, IsFiniteSet

LEMMA ReceiveStep == CollectInv /\ R!Receive => CollectInv'
<1> SUFFICES ASSUME CollectInv, R!Receive PROVE CollectInv'
  OBVIOUS
<1> DEFINE n == Cardinality(collector.received) + 1
<1> DEFINE after(s) == R!Takes([id |-> Cardinality(collector.received) + 1, symbol |-> s])
<1>1. PICK s \in collector.picks :
        \/ collector' = [after(s) EXCEPT !.phase = "store", !.why = "full"]
        \/ collector' = after(s)
  BY SameCount DEF R!Receive
<1>2. n \in Nat
  BY FS_CardinalityType DEF CollectInv
<1> DEFINE t == [id |-> n, symbol |-> s]
           took == R!Takes(t)
<1>3. \/ collector' = [took EXCEPT !.phase = "store", !.why = "full"]
      \/ collector' = took
  BY <1>1
<1> HIDE DEF n
<1>4. t \in Message
  BY <1>2 DEF CollectInv, CollectorState, Message
<1> HIDE DEF t
<1>5. /\ took \in CollectorState /\ took.phase = collector.phase
      /\ took.buffer = Append(collector.buffer, t)
      /\ took.received = collector.received \union {t}
  BY <1>4, ReceivedIs DEF CollectInv, R!Takes
<1> HIDE DEF took
<1>6. /\ collector' \in CollectorState
      /\ collector'.buffer = Append(collector.buffer, t)
      /\ collector'.received = collector.received \union {t}
  BY <1>3, <1>5, StoresIs
<1>7. IsFiniteSet(collector'.received)
  BY <1>6, FS_AddElement DEF CollectInv
<1>8. R!Buffered \union {t} \subseteq R!Buffered'
  <2>1. collector.buffer \in Seq(Message) /\ t \in Message
    BY <1>4 DEF CollectInv, CollectorState
  <2> DEFINE b == collector.buffer
             c == Append(b, t)
  <2>2. /\ Len(b) \in Nat /\ Len(c) = Len(b) + 1
        /\ \A i \in 1 .. Len(b) : c[i] = b[i]
        /\ c[Len(b) + 1] = t
    BY <2>1
  <2>3. \A i \in 1 .. Len(b) : i \in 1 .. Len(c)
    BY <2>2
  <2>4. Len(b) + 1 \in 1 .. Len(c)
    BY <2>2
  <2>5. collector'.buffer = c
    BY <1>6
  <2>6. R!Buffered = {b[i] : i \in 1 .. Len(b)} /\ R!Buffered' = {c[i] : i \in 1 .. Len(c)}
    BY <2>5 DEF R!Buffered
  <2> HIDE DEF b, c
  <2> QED
    BY <2>2, <2>3, <2>4, <2>6
<1>9. collector.phase = "on" /\ kept' = kept /\ left' = left
  BY DEF R!Receive
<1> QED
  BY <1>6, <1>7, <1>8, <1>9 DEF CollectInv, Collected

LEMMA StoreTradesStep == CollectInv /\ R!StoreTrades => CollectInv'
<1> SUFFICES ASSUME CollectInv, R!StoreTrades PROVE CollectInv'
  OBVIOUS
<1>1. PICK bad \in SUBSET R!Inserted :
        /\ kept' = kept \union (R!Inserted \ bad)
        /\ left' = left \union (((R!Buffered \ R!Inserted) \union bad) \ kept)
  BY DEF R!StoreTrades
<1>2. /\ collector.phase = "store"
      /\ collector' = [collector EXCEPT !.phase = "on", !.buffer = <<>>, !.why = "none"]
  BY DEF R!StoreTrades
<1>3. /\ collector' \in CollectorState /\ collector'.received = collector.received
  BY <1>2, EmptiedIs DEF CollectInv
<1>4. R!Buffered \subseteq kept' \union left'
  BY <1>1
<1>5. Collected
  BY <1>2 DEF CollectInv
<1>6. collector'.received \subseteq kept' \union left'
  BY <1>1, <1>3, <1>4, <1>5 DEF Collected
<1> QED
  BY <1>3, <1>6 DEF CollectInv, Collected

LEMMA CollectStep == CollectInv /\ [R!Next]_R!vars => CollectInv'
<1> SUFFICES ASSUME CollectInv, [R!Next]_R!vars PROVE CollectInv'
  OBVIOUS
<1> USE DEF CollectInv
<1>1. CASE R!GetVolatileSymbols
  <2>1. PICK picks \in SUBSET Symbols \ {{}} :
          collector' = [phase |-> "setup", picks |-> picks, todo |-> picks,
                        buffer |-> <<>>, received |-> {}, why |-> "none"]
    BY <1>1 DEF R!GetVolatileSymbols
  <2>2. collector' \in CollectorState /\ collector'.received = {}
    BY <2>1 DEF CollectorState
  <2> QED
    BY <2>2, FS_EmptySet DEF Collected
<1>2. CASE R!SetupDatabase
  <2>1. kept' = kept /\ left' = left /\ collector.phase = "setup"
    BY <1>2 DEF R!SetupDatabase
  <2>2. \/ collector' = [collector EXCEPT !.phase = "on"]
        \/ \E s \in collector.todo : collector' = [collector EXCEPT !.todo = @ \ {s}]
    BY <1>2 DEF R!SetupDatabase
  <2>3. CASE collector' = [collector EXCEPT !.phase = "on"]
    BY <2>1, <2>3, PhaseIs, CollectStays
  <2>4. ASSUME NEW s \in collector.todo, collector' = [collector EXCEPT !.todo = @ \ {s}]
        PROVE  CollectInv'
    <3> DEFINE todo == collector.todo \ {s}
    <3>1. todo \in SUBSET Symbols
      BY DEF CollectorState
    <3>2. collector' = [collector EXCEPT !.todo = todo]
      BY <2>4
    <3> HIDE DEF todo
    <3> QED
      BY <2>1, <3>1, <3>2, TodoIs, CollectStays
  <2> QED
    BY <2>2, <2>3, <2>4
<1>3. CASE R!Receive
  BY <1>3, ReceiveStep
<1>4. CASE R!Timeout
  <2>1. PICK why \in {"timeout", "again"} : collector' = R!Stores(why)
    BY <1>4 DEF R!Timeout
  <2>2. kept' = kept /\ left' = left /\ collector.phase = "on"
    BY <1>4 DEF R!Timeout
  <2> QED
    BY <2>1, <2>2, StoresIs, CollectStays, ZenonT(60) DEF R!Stores
<1>5. CASE R!StoreTrades
  BY <1>5, StoreTradesStep
<1>6. CASE R!StoreFails
  <2>1. kept' = kept /\ left' = left /\ collector.phase = "store"
    BY <1>6 DEF R!StoreFails
  <2>2. CASE collector' = [collector EXCEPT !.why = "again"]
    BY <2>1, <2>2, WhyIs, CollectStays
  <2>3. CASE collector' = [collector EXCEPT !.phase = "ended"]
    BY <2>1, <2>3, PhaseIs, CollectStays
  <2> QED
    BY <1>6, <2>2, <2>3 DEF R!StoreFails
<1>7. CASE R!Kill
  BY <1>7, PhaseIs, CollectStays DEF R!Kill
<1>8. CASE UNCHANGED <<collector, kept, left>>
  BY <1>8, CollectStays
<1>9. CASE R!Sync \/ R!ExchangeChanges \/ R!Serve \/ R!ServeIndicators
  <2>1. UNCHANGED <<collector, kept, left>>
    BY <1>9
       DEF R!Sync, R!Fetch, R!GetExisting, R!SyncSymbol, R!SelectDelisted,
           R!DeactivateDelisted, R!RunSync, R!SyncKeeps, R!ExchangeChanges,
           R!Serve, R!Request, R!WriteFound, R!DeleteEntry, R!FailFound, R!OneStatement,
           R!Leaves, R!ServeIndicators
  <2> QED
    BY <2>1, <1>8
<1> QED
  BY <1>1, <1>2, <1>3, <1>4, <1>5, <1>6, <1>7, <1>8, <1>9 DEF R!Next, R!Collect, R!vars

LEMMA CollectInvariant == R!RegistrySpec => []R!CollectedIsKept
<1>1. CollectInv => R!CollectedIsKept
  BY DEF CollectInv, Collected, R!CollectedIsKept
<1> QED
  BY <1>1, CollectInit, CollectStep, PTL DEF R!RegistrySpec

-----------------------------------------------------------------------------
(* The tables of symbols and indicators, and the synchronisation.          *)
TablesOK ==
  /\ table \in [Symbols -> R!Row \union {NoRow}]
  /\ defs \in [Indicators -> R!Definition \union {NoRow}]
  /\ exchange \in [Symbols -> R!Info]

Starting == [phase : {"known"}, auto : BOOLEAN, delist : BOOLEAN, eu : BOOLEAN,
             listed : [Symbols -> R!Info]]

Loop == [phase : {"each", "gone", "ended"}, auto : BOOLEAN, delist : BOOLEAN, eu : BOOLEAN,
         listed : [Symbols -> R!Info], known : SUBSET Symbols, todo : SUBSET Symbols,
         seen : SUBSET Symbols, errors : {0, 1}, gone : SUBSET Symbols]

SyncOK == sync \in {R!Idle, [phase |-> "failed"]} \union Starting \union Loop

LEMMA RowsApart == NoRow \notin R!Row /\ NoRow \notin R!Definition
BY TradingAssumption DEF R!RegistryAssumption

LEMMA InLoop ==
  ASSUME SyncOK, sync.phase \in {"each", "gone", "ended"}
  PROVE  sync \in Loop
BY DEF SyncOK, R!Idle, Starting, Loop

(* What no field but the changed one tells apart.                          *)
SameRun(a, b) ==
  /\ a.auto = b.auto /\ a.delist = b.delist /\ a.eu = b.eu
  /\ a.listed = b.listed /\ a.known = b.known

LEMMA PhaseSet ==
  ASSUME NEW st \in Loop, NEW to \in {"each", "gone", "ended"}
  PROVE  LET new == [st EXCEPT !.phase = to] IN
         /\ new \in Loop /\ SameRun(new, st) /\ new.phase = to /\ new.todo = st.todo
         /\ new.seen = st.seen /\ new.errors = st.errors /\ new.gone = st.gone
BY DEF Loop, SameRun

LEMMA TodoSet ==
  ASSUME NEW st \in Loop, NEW todo \in SUBSET Symbols
  PROVE  LET new == [st EXCEPT !.todo = todo] IN
         /\ new \in Loop /\ SameRun(new, st) /\ new.phase = st.phase /\ new.todo = todo
         /\ new.seen = st.seen /\ new.errors = st.errors /\ new.gone = st.gone
BY DEF Loop, SameRun

LEMMA SeenSet ==
  ASSUME NEW st \in Loop, NEW seen \in SUBSET Symbols
  PROVE  LET new == [st EXCEPT !.seen = seen] IN
         /\ new \in Loop /\ SameRun(new, st) /\ new.phase = st.phase /\ new.todo = st.todo
         /\ new.seen = seen /\ new.errors = st.errors /\ new.gone = st.gone
BY DEF Loop, SameRun

LEMMA ErrorsSet ==
  ASSUME NEW st \in Loop, NEW errors \in {0, 1}
  PROVE  LET new == [st EXCEPT !.errors = errors] IN
         /\ new \in Loop /\ SameRun(new, st) /\ new.phase = st.phase /\ new.todo = st.todo
         /\ new.seen = st.seen /\ new.errors = errors /\ new.gone = st.gone
BY DEF Loop, SameRun

LEMMA GoneSet ==
  ASSUME NEW st \in Loop, NEW these \in SUBSET Symbols
  PROVE  LET new == [st EXCEPT !.gone = these] IN
         /\ new \in Loop /\ SameRun(new, st) /\ new.phase = st.phase /\ new.todo = st.todo
         /\ new.seen = st.seen /\ new.errors = st.errors /\ new.gone = these
BY DEF Loop, SameRun

LEMMA SkipIs ==
  ASSUME NEW s \in Symbols, sync \in Loop, R!Skip(s)
  PROVE  /\ sync' \in Loop /\ SameRun(sync', sync) /\ sync'.phase = sync.phase
         /\ sync'.todo = sync.todo \ {s} /\ sync'.seen = sync.seen
         /\ sync'.errors = sync.errors /\ table' = table
<1> DEFINE todo == sync.todo \ {s}
<1>1. todo \in SUBSET Symbols
  BY DEF Loop
<1>2. sync' = [sync EXCEPT !.todo = todo] /\ table' = table
  BY DEF R!Skip
<1>3. todo = sync.todo \ {s}
  OBVIOUS
<1> HIDE DEF todo
<1> QED
  BY <1>1, <1>2, <1>3, TodoSet

LEMMA StoreIs ==
  ASSUME NEW s \in Symbols, sync \in Loop, R!Store(s)
  PROVE  /\ sync' \in Loop /\ SameRun(sync', sync) /\ sync'.phase = sync.phase
         /\ sync'.todo = sync.todo \ {s} /\ sync'.seen = sync.seen \union {s}
         /\ sync'.errors = sync.errors
<1> DEFINE todo == sync.todo \ {s}
           seen == sync.seen \union {s}
           g == [sync EXCEPT !.todo = todo]
           h == [g EXCEPT !.seen = seen]
<1>1. todo \in SUBSET Symbols /\ seen \in SUBSET Symbols
  BY DEF Loop
<1>2. sync' = h
  BY DEF R!Store
<1>3. todo = sync.todo \ {s} /\ seen = sync.seen \union {s}
  OBVIOUS
<1> HIDE DEF todo, seen
<1>4. /\ g \in Loop /\ SameRun(g, sync) /\ g.phase = sync.phase /\ g.todo = todo
      /\ g.seen = sync.seen /\ g.errors = sync.errors
  BY <1>1, TodoSet
<1> HIDE DEF g
<1>5. /\ h \in Loop /\ SameRun(h, g) /\ h.phase = g.phase /\ h.todo = g.todo
      /\ h.seen = seen /\ h.errors = g.errors
  BY <1>1, <1>4, SeenSet
<1> HIDE DEF h
<1> QED
  BY <1>2, <1>3, <1>4, <1>5 DEF SameRun

LEMMA FailIs ==
  ASSUME NEW s \in Symbols, sync \in Loop, R!Fail(s)
  PROVE  /\ sync' \in Loop /\ sync'.phase = sync.phase /\ sync'.errors = 1
         /\ sync'.todo = sync.todo \ {s} /\ sync'.seen = sync.seen \union {s}
         /\ table' = table
<1> DEFINE todo == sync.todo \ {s}
           seen == sync.seen \union {s}
           g == [sync EXCEPT !.todo = todo]
           h == [g EXCEPT !.seen = seen]
           k == [h EXCEPT !.errors = 1]
<1>1. todo \in SUBSET Symbols /\ seen \in SUBSET Symbols
  BY DEF Loop
<1>2. sync' = k /\ table' = table
  BY DEF R!Fail
<1>3. todo = sync.todo \ {s} /\ seen = sync.seen \union {s}
  OBVIOUS
<1> HIDE DEF todo, seen
<1>4. g \in Loop /\ g.phase = sync.phase /\ g.todo = todo
  BY <1>1, TodoSet
<1> HIDE DEF g
<1>5. h \in Loop /\ h.phase = g.phase /\ h.todo = g.todo /\ h.seen = seen
  BY <1>1, <1>4, SeenSet
<1> HIDE DEF h
<1>6. /\ k \in Loop /\ k.phase = h.phase /\ k.errors = 1 /\ k.todo = h.todo
      /\ k.seen = h.seen
  BY <1>5, ErrorsSet
<1> HIDE DEF k
<1> QED
  BY <1>2, <1>3, <1>4, <1>5, <1>6

LEMMA SelectIs ==
  ASSUME sync \in Loop, R!SelectDelisted
  PROVE  /\ sync' \in Loop /\ SameRun(sync', sync) /\ sync'.seen = sync.seen
         /\ sync'.errors = sync.errors /\ sync'.todo = sync.todo
         /\ \/ sync.delist /\ sync'.phase = "gone" /\ sync'.gone = R!Delisted
            \/ ~sync.delist /\ sync'.phase = "ended"
         /\ table' = table
<1>1. table' = table
  BY DEF R!SelectDelisted
<1>2. CASE ~sync.delist
  <2>1. sync' = [sync EXCEPT !.phase = "ended"]
    BY <1>2 DEF R!SelectDelisted
  <2> QED
    BY <1>1, <1>2, <2>1, PhaseSet
<1>3. CASE sync.delist
  <2> DEFINE d == R!Delisted
             g == [sync EXCEPT !.phase = "gone"]
             h == [g EXCEPT !.gone = d]
  <2>1. d \in SUBSET Symbols
    BY DEF R!Delisted
  <2>2. d = R!Delisted
    OBVIOUS
  <2>3. sync' = h
    BY <1>3 DEF R!SelectDelisted
  <2> HIDE DEF d
  <2>4. /\ g \in Loop /\ SameRun(g, sync) /\ g.phase = "gone" /\ g.seen = sync.seen
        /\ g.errors = sync.errors /\ g.todo = sync.todo
    BY PhaseSet
  <2> HIDE DEF g
  <2>5. /\ h \in Loop /\ SameRun(h, g) /\ h.phase = g.phase /\ h.seen = g.seen
        /\ h.errors = g.errors /\ h.todo = g.todo /\ h.gone = d
    BY <2>1, <2>4, GoneSet
  <2> HIDE DEF h
  <2> QED
    BY <1>1, <1>3, <2>2, <2>3, <2>4, <2>5 DEF SameRun
<1> QED
  BY <1>2, <1>3

LEMMA DeactivateIs ==
  ASSUME SyncOK, R!DeactivateDelisted
  PROVE  /\ sync \in Loop /\ sync' \in Loop /\ SameRun(sync', sync) /\ sync'.seen = sync.seen
         /\ sync'.errors = sync.errors /\ sync'.todo = sync.todo
         /\ \/ sync.gone = {} /\ sync'.phase = "ended" /\ table' = table
            \/ /\ sync'.phase = sync.phase
               /\ \E s \in sync.gone :
                    /\ sync'.gone = sync.gone \ {s}
                    /\ table' = [table EXCEPT ![s] =
                         IF R!Exists(s) THEN [@ EXCEPT !.active = FALSE] ELSE @]
<1>1. sync \in Loop /\ sync.phase = "gone"
  BY InLoop DEF R!DeactivateDelisted
<1>2. CASE sync.gone = {}
  <2>1. sync' = [sync EXCEPT !.phase = "ended"] /\ table' = table
    BY <1>2 DEF R!DeactivateDelisted
  <2> QED
    BY <1>1, <1>2, <2>1, PhaseSet
<1>3. CASE sync.gone # {}
  <2>1. PICK s \in sync.gone :
          /\ sync' = [sync EXCEPT !.gone = @ \ {s}]
          /\ table' = [table EXCEPT ![s] =
                         IF R!Exists(s) THEN [@ EXCEPT !.active = FALSE] ELSE @]
    BY <1>3 DEF R!DeactivateDelisted
  <2> DEFINE rest == sync.gone \ {s}
  <2>2. rest \in SUBSET Symbols
    BY <1>1 DEF Loop
  <2>3. sync' = [sync EXCEPT !.gone = rest] /\ rest = sync.gone \ {s}
    BY <2>1
  <2> HIDE DEF rest
  <2>4. /\ sync' \in Loop /\ SameRun(sync', sync) /\ sync'.seen = sync.seen
        /\ sync'.errors = sync.errors /\ sync'.todo = sync.todo /\ sync'.phase = sync.phase
        /\ sync'.gone = rest
    BY <1>1, <2>2, <2>3, GoneSet
  <2> QED
    BY <1>1, <2>1, <2>3, <2>4
<1> QED
  BY <1>2, <1>3

LEMMA FetchIs ==
  ASSUME TablesOK, NEW auto \in BOOLEAN, NEW delist \in BOOLEAN, NEW eu \in BOOLEAN,
         R!Fetch(auto, delist, eu)
  PROVE  sync' \in Starting /\ table' = table
BY DEF R!Fetch, Starting, TablesOK

LEMMA GetExistingIs ==
  ASSUME SyncOK, R!GetExisting
  PROVE  /\ \/ sync' = [phase |-> "failed"]
            \/ /\ sync' \in Loop /\ sync'.phase = "each" /\ sync'.seen = {}
               /\ sync'.known = {s \in Symbols : R!Exists(s)}
         /\ table' = table
<1>1. sync \in Starting
  BY DEF SyncOK, R!Idle, Starting, Loop, R!GetExisting
<1>2. table' = table
  BY DEF R!GetExisting
<1> DEFINE there == {s \in Symbols : R!Exists(s)}
           todo == R!Listed
<1>3. CASE sync' = [phase |-> "failed"]
  BY <1>2, <1>3
<1>4. CASE sync' = [phase |-> "each", auto |-> sync.auto, delist |-> sync.delist,
                 eu |-> sync.eu, listed |-> sync.listed,
                 known |-> there, todo |-> todo,
                 seen |-> {}, errors |-> 0, gone |-> {}]
  <2>1. there \in SUBSET Symbols /\ todo \in SUBSET Symbols
    BY DEF R!Listed
  <2>2. there = {s \in Symbols : R!Exists(s)}
    OBVIOUS
  <2> HIDE DEF there, todo
  <2>3. sync' \in Loop /\ sync'.phase = "each" /\ sync'.seen = {} /\ sync'.known = there
    BY <1>1, <1>4, <2>1 DEF Loop, Starting
  <2> QED
    BY <1>2, <2>2, <2>3
<1> QED
  BY <1>3, <1>4 DEF R!GetExisting

LEMMA ParsedIs ==
  ASSUME NEW s \in Symbols, sync \in Loop, sync.listed[s] # R!Odd
  PROVE  R!Parsed(s) \in R!Row /\ R!Parsed(s).bare = FALSE
<1> DEFINE rule == sync.listed[s]
           may == sync.eu => R!CheckEuCompliance(s)
           on == sync.auto /\ may
<1>1. rule \in 0 .. MaxRules
  <2>1. rule \in R!Info
    BY DEF Loop
  <2> QED
    BY <2>1 DEF R!Info, R!Odd
<1>2. may \in BOOLEAN
  OBVIOUS
<1>3. on \in BOOLEAN
  OBVIOUS
<1>4. R!Parsed(s) = [rules |-> rule, bare |-> FALSE, allowed |-> may, active |-> on]
  BY Zenon DEF R!Parsed
<1> HIDE DEF rule, may, on
<1> QED
  BY <1>1, <1>2, <1>3, <1>4 DEF R!Row

LEMMA SameParsed ==
  ASSUME NEW s \in Symbols, SameRun(sync', sync)
  PROVE  R!Parsed(s)' = R!Parsed(s)
BY Zenon DEF SameRun, R!Parsed, R!CheckEuCompliance

LEMMA StoreRow ==
  ASSUME TablesOK, NEW s \in Symbols, sync \in Loop, R!Store(s)
  PROVE  /\ table' \in [Symbols -> R!Row \union {NoRow}]
         /\ \A t \in Symbols \ {s} : table'[t] = table[t]
         /\ R!Exists(s) => table'[s] \in R!Row
         /\ (s \in sync.known <=> R!Exists(s))
              => /\ table'[s] \in R!Row
                 /\ [table'[s] EXCEPT !.bare = FALSE] = R!Parsed(s)
<1> DEFINE new == R!Parsed(s)
<1>1. new \in R!Row /\ new.bare = FALSE
  BY ParsedIs DEF R!Store
<1>2. [new EXCEPT !.bare = FALSE] = new
  <2> HIDE DEF new
  <2> QED
    BY <1>1 DEF R!Row
<1>3. CASE s \in sync.known
  <2>1. table' = [table EXCEPT ![s] = IF R!Exists(s) /\ R!Differs(@, new) THEN new ELSE @]
    BY <1>3 DEF R!Store, R!UpdateSymbol
  <2>2. R!Exists(s) => table[s] \in R!Row
    BY DEF TablesOK, R!Exists
  <2>3. ASSUME R!Exists(s), ~R!Differs(table[s], new)
        PROVE  [table[s] EXCEPT !.bare = FALSE] = new
    <3> DEFINE row == table[s]
    <3>1. row.rules = new.rules /\ row.allowed = new.allowed /\ row.active = new.active
      BY <2>3 DEF R!Differs
    <3>2. row \in R!Row
      BY <2>2, <2>3
    <3> HIDE DEF row, new
    <3>3. [row EXCEPT !.bare = FALSE] = new
      BY <1>1, <3>1, <3>2 DEF R!Row
    <3> QED
      BY <3>3 DEF row
  <2> HIDE DEF new
  <2>4. table' \in [Symbols -> R!Row \union {NoRow}]
    BY <1>1, <2>1 DEF TablesOK
  <2>5. /\ \A t \in Symbols \ {s} : table'[t] = table[t]
        /\ table'[s] = IF R!Exists(s) /\ R!Differs(table[s], new) THEN new ELSE table[s]
    BY <2>1 DEF TablesOK
  <2> QED
    BY <1>1, <1>2, <1>3, <2>2, <2>3, <2>4, <2>5 DEF new
<1>4. CASE s \notin sync.known
  <2>1. ~R!Exists(s) /\ table' = [table EXCEPT ![s] = new]
    BY <1>4 DEF R!Store, R!AddSymbol
  <2> HIDE DEF new
  <2>2. /\ table' \in [Symbols -> R!Row \union {NoRow}]
        /\ \A t \in Symbols \ {s} : table'[t] = table[t]
        /\ table'[s] = new
    BY <1>1, <2>1 DEF TablesOK
  <2> QED
    BY <1>1, <1>2, <2>1, <2>2 DEF new
<1> QED
  BY <1>3, <1>4

-----------------------------------------------------------------------------
(* What a step makes of the rows: none goes but by a deletion, and outside *)
(* the synchronisation only those that are noted are touched.              *)
TableMoves ==
  /\ table' \in [Symbols -> R!Row \union {NoRow}] /\ removed \subseteq removed'
  /\ \A s \in Symbols : R!Exists(s) => table'[s] # NoRow \/ s \in removed'

Apart ==
  /\ sync' = sync
  /\ sync # R!Idle => /\ touched \subseteq touched'
                      /\ \A s \in Symbols \ touched' : table'[s] = table[s]

LEMMA WritesIs ==
  ASSUME TablesOK, NEW new, R!Writes(new),
         \A s \in Symbols \intersect DOMAIN new : new[s] \in R!Row \union {NoRow}
  PROVE  /\ table' \in [Symbols -> R!Row \union {NoRow}]
         /\ \A s \in Symbols \ DOMAIN new : table'[s] = table[s]
         /\ \A s \in Symbols \intersect DOMAIN new : table'[s] = new[s]
         /\ sync # R!Idle => touched' = touched \union DOMAIN new
BY DEF TablesOK, R!Writes

LEMMA WriteMoves ==
  ASSUME TablesOK, NEW new, R!Writes(new),
         \A s \in Symbols \intersect DOMAIN new : new[s] \in R!Row,
         sync' = sync, removed' = removed
  PROVE  TableMoves /\ Apart
<1>1. /\ table' \in [Symbols -> R!Row \union {NoRow}]
      /\ \A s \in Symbols \ DOMAIN new : table'[s] = table[s]
      /\ \A s \in Symbols \intersect DOMAIN new : table'[s] = new[s]
      /\ sync # R!Idle => touched' = touched \union DOMAIN new
  BY WritesIs
<1> QED
  BY <1>1, RowsApart DEF TableMoves, Apart, R!Exists

LEMMA SilentMoves ==
  ASSUME TablesOK, table' = table, touched' = touched, sync' = sync, removed' = removed
  PROVE  TableMoves /\ Apart
BY DEF TablesOK, TableMoves, Apart, R!Exists

LEMMA SwitchedOn ==
  ASSUME TablesOK, NEW S, NEW new, DOMAIN new = {s \in S : R!Exists(s)},
         \/ \A s \in DOMAIN new : new[s] = [table[s] EXCEPT !.active = TRUE]
         \/ \A s \in DOMAIN new : new[s] = [table[s] EXCEPT !.active = FALSE]
  PROVE  \A s \in Symbols \intersect DOMAIN new : new[s] \in R!Row
<1>1. \A s \in Symbols \intersect DOMAIN new : table[s] \in R!Row
  BY DEF TablesOK, R!Exists
<1> QED
  BY <1>1 DEF R!Row

LEMMA OneStatementMoves ==
  ASSUME TablesOK, NEW c \in Clients, R!OneStatement(c)
  PROVE  TableMoves /\ Apart
<1>1. sync' = sync /\ removed' = removed
  BY DEF R!OneStatement
<1>2. ASSUME NEW ids \in SUBSET Symbols, R!Writes(R!BulkActivate(ids))
      PROVE  TableMoves /\ Apart
  <2> DEFINE new == R!BulkActivate(ids)
  <2>1. /\ DOMAIN new = {s \in ids : R!Exists(s)}
        /\ \A s \in DOMAIN new : new[s] = [table[s] EXCEPT !.active = TRUE]
    BY DEF R!BulkActivate
  <2>2. R!Writes(new)
    BY <1>2
  <2> HIDE DEF new
  <2> QED
    BY <1>1, <2>1, <2>2, SwitchedOn, WriteMoves
<1>3. ASSUME NEW ids \in SUBSET Symbols, R!Writes(R!BulkDeactivate(ids))
      PROVE  TableMoves /\ Apart
  <2> DEFINE new == R!BulkDeactivate(ids)
  <2>1. /\ DOMAIN new = {s \in ids : R!Exists(s)}
        /\ \A s \in DOMAIN new : new[s] = [table[s] EXCEPT !.active = FALSE]
    BY DEF R!BulkDeactivate
  <2>2. R!Writes(new)
    BY <1>3
  <2> HIDE DEF new
  <2> QED
    BY <1>1, <2>1, <2>2, SwitchedOn, WriteMoves
<1>4. ASSUME R!Writes(R!ActivateEuCompliant)
      PROVE  TableMoves /\ Apart
  <2> DEFINE new == R!ActivateEuCompliant
             ids == {t \in Euro : R!Exists(t) /\ table[t].allowed}
  <2>1. /\ DOMAIN new = {s \in ids : R!Exists(s)}
        /\ \A s \in DOMAIN new : new[s] = [table[s] EXCEPT !.active = TRUE]
    BY DEF R!ActivateEuCompliant
  <2>2. R!Writes(new)
    BY <1>4
  <2> HIDE DEF new, ids
  <2> QED
    BY <1>1, <2>1, <2>2, SwitchedOn, WriteMoves
<1>5. ASSUME NEW s \in Symbols, R!UpdateEntry(c, s), ~R!Silent
      PROVE  TableMoves /\ Apart
  <2>1. PICK f \in {"allowed", "active"}, on \in BOOLEAN :
          R!Writes([t \in {u \in {s} : R!Exists(u)} |-> [table[t] EXCEPT ![f] = on]])
    BY <1>5 DEF R!UpdateEntry
  <2> DEFINE new == [t \in {u \in {s} : R!Exists(u)} |-> [table[t] EXCEPT ![f] = on]]
  <2>2. \A t \in Symbols \intersect DOMAIN new : table[t] \in R!Row
    BY DEF TablesOK, R!Exists
  <2>3. \A t \in DOMAIN new : new[t] = [table[t] EXCEPT ![f] = on]
    OBVIOUS
  <2>4. ASSUME NEW row \in R!Row
        PROVE  [row EXCEPT ![f] = on] \in R!Row
    <3>1. CASE f = "allowed"
      BY <3>1 DEF R!Row
    <3>2. CASE f = "active"
      BY <3>2 DEF R!Row
    <3> QED
      BY <3>1, <3>2
  <2>5. \A t \in Symbols \intersect DOMAIN new : new[t] \in R!Row
    BY <2>2, <2>3, <2>4
  <2>6. R!Writes(new)
    BY <2>1
  <2> HIDE DEF new
  <2> QED
    BY <1>1, <2>5, <2>6, WriteMoves
<1>6. CASE R!Silent
  BY <1>1, <1>6, SilentMoves DEF R!Silent
<1> QED
  BY <1>2, <1>3, <1>4, <1>5, <1>6 DEF R!OneStatement

LEMMA SetupMoves ==
  ASSUME TablesOK, R!SetupDatabase
  PROVE  TableMoves /\ Apart
<1>1. sync' = sync /\ removed' = removed
  BY DEF R!SetupDatabase, R!Collects
<1>2. CASE R!Silent
  BY <1>1, <1>2, SilentMoves DEF R!Silent
<1>3. CASE \E s \in collector.todo : R!Writes([t \in {s} |->
             IF R!Exists(t) THEN [table[t] EXCEPT !.active = TRUE, !.allowed = TRUE]
             ELSE [rules |-> 0, bare |-> FALSE, allowed |-> TRUE, active |-> TRUE]])
  <2>1. PICK s \in collector.todo : R!Writes([t \in {s} |->
             IF R!Exists(t) THEN [table[t] EXCEPT !.active = TRUE, !.allowed = TRUE]
             ELSE [rules |-> 0, bare |-> FALSE, allowed |-> TRUE, active |-> TRUE]])
    BY <1>3
  <2> DEFINE bases == [rules |-> 0, bare |-> FALSE, allowed |-> TRUE, active |-> TRUE]
             both(row) == [row EXCEPT !.active = TRUE, !.allowed = TRUE]
             new == [t \in {s} |-> IF R!Exists(t) THEN both(table[t]) ELSE bases]
  <2>2. bases \in R!Row
    <3>1. 0 \in 0 .. MaxRules
      BY TradingAssumption DEF R!RegistryAssumption
    <3> QED
      BY <3>1 DEF R!Row
  <2>3. \A row \in R!Row : both(row) \in R!Row
    <3> SUFFICES ASSUME NEW row \in R!Row PROVE both(row) \in R!Row
      OBVIOUS
    <3> DEFINE g == [row EXCEPT !.active = TRUE]
               h == [g EXCEPT !.allowed = TRUE]
    <3>1. both(row) = h
      OBVIOUS
    <3>2. g \in R!Row
      BY DEF R!Row
    <3> HIDE DEF g
    <3>3. h \in R!Row
      BY <3>2 DEF R!Row
    <3> QED
      BY <3>1, <3>3
  <2>4. \A t \in Symbols : R!Exists(t) => table[t] \in R!Row
    BY DEF TablesOK, R!Exists
  <2>5. R!Writes(new)
    BY <2>1
  <2> HIDE DEF bases, both
  <2>6. \A t \in Symbols \intersect DOMAIN new : new[t] \in R!Row
    BY <2>2, <2>3, <2>4
  <2> HIDE DEF new
  <2> QED
    BY <1>1, <2>5, <2>6, WriteMoves
<1> QED
  BY <1>2, <1>3 DEF R!SetupDatabase

-----------------------------------------------------------------------------
(* The requests under way.                                                 *)
SymbolOps == {"activate", "deactivate", "allow", "disallow", "update", "delete"}
IndicatorOps == {"switch_on", "switch_off", "unregister", "change"}

Change == [{"params"} -> {0, 1}] \union [{"active"} -> BOOLEAN] \union R!Definition

Held == [op : {"held"}, on : Symbols, body : R!Row]

Asked == [op : SymbolOps \union IndicatorOps \union {"register", "entry"}, on : Symbols \union Indicators,
          body : R!Row \union Change \union {NoRow},
          at : {"found", "404", "409", "200", "500"}, hit : BOOLEAN]

(* A request that is to write has found its row, which only a deletion can *)
(* have taken since; one that was answered met it.                         *)
CallOK(r) ==
  /\ r \in {R!Calm} \union Held \union Asked
  /\ r.op \in SymbolOps =>
       r.on \in Symbols /\ (r.at = "found" => R!Exists(r.on) \/ r.on \in removed)
  /\ r.op = "update" => r.body \in R!Row
  /\ r.op \in IndicatorOps => r.on \in Indicators /\ (r.at = "found" => R!Known(r.on))
  /\ r.op = "change" => r.body \in Change
  /\ r.op \notin {"none", "held", "entry"} /\ r.at = "200" => r.hit = TRUE \/ r.on \in removed

CallsOK ==
  /\ calls = [c \in Clients |-> calls[c]]
  /\ \A c \in Clients : CallOK(calls[c])

DefsMove ==
  /\ defs' \in [Indicators -> R!Definition \union {NoRow}]
  /\ \A n \in Indicators : R!Known(n) => defs'[n] # NoRow

LEMMA CallKept ==
  ASSUME NEW r, CallOK(r), TableMoves, DefsMove
  PROVE  CallOK(r)'
<1>1. r.op \in SymbolOps =>
        r.on \in Symbols /\ (r.at = "found" => R!Exists(r.on)' \/ r.on \in removed')
  BY DEF CallOK, TableMoves, R!Exists
<1>2. r.op \in IndicatorOps => r.on \in Indicators /\ (r.at = "found" => R!Known(r.on)')
  BY DEF CallOK, DefsMove, R!Known
<1>3. r.op \notin {"none", "held", "entry"} /\ r.at = "200" => r.hit = TRUE \/ r.on \in removed'
  BY DEF CallOK, TableMoves
<1> QED
  BY <1>1, <1>2, <1>3 DEF CallOK

LEMMA CallsKept ==
  ASSUME CallsOK, calls' = calls, TableMoves, DefsMove
  PROVE  CallsOK'
<1>1. ASSUME NEW c \in Clients
      PROVE  CallOK(calls[c])'
  <2>1. PICK r : r = calls[c]
    OBVIOUS
  <2>2. CallOK(r)
    BY <2>1 DEF CallsOK
  <2>3. CallOK(r)'
    BY <2>2, CallKept
  <2>4. r = calls'[c]
    BY <2>1
  <2> QED
    BY <2>3, <2>4 DEF CallOK
<1> QED
  BY <1>1 DEF CallsOK

LEMMA CallSet ==
  ASSUME CallsOK, NEW d \in Clients, NEW r, calls' = [calls EXCEPT ![d] = r],
         CallOK(r)', TableMoves, DefsMove
  PROVE  CallsOK'
<1>1. ASSUME NEW c \in Clients
      PROVE  CallOK(calls[c])'
  <2>1. calls'[c] = IF c = d THEN r ELSE calls[c]
    BY DEF CallsOK
  <2>2. CASE c = d
    <3>1. calls'[c] = r
      BY <2>1, <2>2
    <3> QED
      BY <3>1 DEF CallOK
  <2>3. CASE c # d
    <3>1. PICK old : old = calls[c]
      OBVIOUS
    <3>2. CallOK(old)
      BY <3>1 DEF CallsOK
    <3>3. CallOK(old)'
      BY <3>2, CallKept
    <3>4. old = calls'[c]
      BY <2>1, <2>3, <3>1
    <3> QED
      BY <3>3, <3>4 DEF CallOK
  <2> QED
    BY <2>2, <2>3
<1>2. calls' = [c \in Clients |-> calls'[c]]
  BY DEF CallsOK
<1> QED
  BY <1>1, <1>2 DEF CallsOK

LEMMA DefsStayMoves ==
  ASSUME TablesOK, defs' = defs
  PROVE  DefsMove
BY DEF TablesOK, DefsMove, R!Known

(* A request that was only begun or put aside.                             *)
LEMMA FindsStep ==
  ASSUME CallsOK, TableMoves, DefsMove, table' = table, removed' = removed,
         NEW c \in Clients, NEW op \in SymbolOps, NEW s \in Symbols,
         NEW body \in R!Row \union {NoRow}, op = "update" => body \in R!Row,
         R!Finds(c, op, s, body)
  PROVE  CallsOK'
<1>1. PICK at : at = IF R!Exists(s) THEN "found" ELSE "404"
  OBVIOUS
<1>2. PICK r : r = [op |-> op, on |-> s, body |-> body, at |-> at, hit |-> FALSE]
  OBVIOUS
<1>3. calls' = [calls EXCEPT ![c] = r]
  BY <1>1, <1>2 DEF R!Finds
<1>4. at \in {"found", "404"} /\ (at = "found" => R!Exists(s))
  BY <1>1
<1>5. r \in Asked
  BY <1>2, <1>4 DEF Asked
<1>6. /\ r.op = op /\ r.on = s /\ r.body = body /\ r.at = at
  BY <1>2
<1>7. /\ op \notin {"none", "held", "entry"} /\ op \notin IndicatorOps /\ op # "change"
  BY DEF SymbolOps, IndicatorOps
<1>8. CallOK(r)
  BY <1>4, <1>5, <1>6, <1>7 DEF CallOK
<1>9. CallOK(r)'
  BY <1>8, CallKept
<1> QED
  BY <1>3, <1>9, CallSet

LEMMA FindsIndicatorStep ==
  ASSUME CallsOK, TableMoves, DefsMove,
         NEW c \in Clients, NEW op \in IndicatorOps, NEW n \in Indicators,
         NEW body \in Change \union {NoRow}, op = "change" => body \in Change,
         R!FindsIndicator(c, op, n, body)
  PROVE  CallsOK'
<1>1. PICK at : at = IF R!Known(n) THEN "found" ELSE "404"
  OBVIOUS
<1>2. PICK r : r = [op |-> op, on |-> n, body |-> body, at |-> at, hit |-> FALSE]
  OBVIOUS
<1>3. calls' = [calls EXCEPT ![c] = r]
  BY <1>1, <1>2 DEF R!FindsIndicator
<1>4. at \in {"found", "404"} /\ (at = "found" => R!Known(n))
  BY <1>1
<1>5. r \in Asked
  BY <1>2, <1>4 DEF Asked
<1>6. /\ r.op = op /\ r.on = n /\ r.body = body /\ r.at = at
  BY <1>2
<1>7. /\ op \notin {"none", "held"} /\ op \notin SymbolOps /\ op # "update"
  BY DEF SymbolOps, IndicatorOps
<1>8. CallOK(r)
  BY <1>4, <1>5, <1>6, <1>7 DEF CallOK
<1>9. CallOK(r)'
  BY <1>8, CallKept
<1> QED
  BY <1>3, <1>9, CallSet

LEMMA CalmStep ==
  ASSUME CallsOK, TableMoves, DefsMove, NEW c \in Clients,
         calls' = [calls EXCEPT ![c] = R!Calm]
  PROVE  CallsOK'
<1>1. PICK r : r = R!Calm
  OBVIOUS
<1>2. r.op = "none"
  BY <1>1 DEF R!Calm
<1>3. CallOK(r)
  BY <1>1, <1>2 DEF CallOK, SymbolOps, IndicatorOps
<1>4. CallOK(r)'
  BY <1>3, CallKept
<1> QED
  BY <1>1, <1>4, CallSet

LEMMA AskUpdateStep ==
  ASSUME TablesOK, CallsOK, TableMoves, DefsMove, table' = table, removed' = removed,
         NEW c \in Clients, R!AskUpdate(c)
  PROVE  CallsOK'
<1>1. PICK old : old = calls[c]
  OBVIOUS
<1>2. old \in Held
  BY <1>1 DEF CallsOK, CallOK, R!AskUpdate, R!Calm, Asked, SymbolOps, IndicatorOps
<1>3. PICK on \in BOOLEAN : R!Finds(c, "update", old.on, [old.body EXCEPT !.active = on])
  BY <1>1 DEF R!AskUpdate
<1>4. PICK body : body = [old.body EXCEPT !.active = on]
  OBVIOUS
<1>5. PICK row : row = old.body
  OBVIOUS
<1>6. row \in R!Row /\ old.on \in Symbols
  BY <1>2, <1>5 DEF Held
<1>7. body = [row EXCEPT !.active = on]
  BY <1>4, <1>5
<1>8. body \in R!Row
  BY <1>6, <1>7 DEF R!Row
<1>9. R!Finds(c, "update", old.on, body)
  BY <1>3, <1>4
<1>10. "update" \in SymbolOps
  BY DEF SymbolOps
<1> QED
  BY <1>6, <1>8, <1>9, <1>10, FindsStep

LEMMA GetSymbolStep ==
  ASSUME TablesOK, CallsOK, TableMoves, DefsMove,
         NEW c \in Clients, NEW s \in Symbols, R!GetSymbol(c, s)
  PROVE  CallsOK'
<1>1. CASE ~R!Exists(s)
  <2>1. calls' = [calls EXCEPT ![c] = R!Calm]
    BY <1>1 DEF R!GetSymbol
  <2> QED
    BY <2>1, CalmStep
<1>2. CASE R!Exists(s)
  <2>1. PICK row : row = table[s]
    OBVIOUS
  <2>2. PICK body : body = R!RowToSymbol(row)
    OBVIOUS
  <2>3. PICK r : r = [op |-> "held", on |-> s, body |-> body]
    OBVIOUS
  <2>4. calls' = [calls EXCEPT ![c] = r]
    BY <1>2, <2>1, <2>2, <2>3 DEF R!GetSymbol
  <2>5. row \in R!Row
    BY <1>2, <2>1 DEF TablesOK, R!Exists
  <2>6. body \in R!Row
    BY <2>2, <2>5 DEF R!RowToSymbol, R!Row
  <2>7. r \in Held
    BY <2>3, <2>6 DEF Held
  <2>8. r.op = "held"
    BY <2>3
  <2>9. CallOK(r)
    BY <2>7, <2>8 DEF CallOK, SymbolOps, IndicatorOps
  <2>10. CallOK(r)'
    BY <2>9, CallKept
  <2> QED
    BY <2>4, <2>10, CallSet
<1> QED
  BY <1>1, <1>2

LEMMA RequestStep ==
  ASSUME TablesOK, CallsOK, NEW c \in Clients, R!Request(c)
  PROVE  TableMoves /\ Apart /\ CallsOK'
<1>1. /\ table' = table /\ touched' = touched /\ sync' = sync /\ removed' = removed
      /\ defs' = defs
  BY DEF R!Request, R!Silent
<1>2. TableMoves /\ Apart /\ DefsMove
  BY <1>1, SilentMoves, DefsStayMoves
<1>3. {"activate", "deactivate", "allow", "disallow", "delete"} \subseteq SymbolOps
  BY DEF SymbolOps
<1>4. ASSUME NEW s \in Symbols,
             NEW op \in {"activate", "deactivate", "allow", "disallow", "delete"},
             R!Ask(c, op, s)
      PROVE  CallsOK'
  <2>1. R!Finds(c, op, s, NoRow) /\ op \in SymbolOps /\ op # "update"
    BY <1>3, <1>4 DEF R!Ask
  <2> QED
    BY <1>1, <1>2, <2>1, FindsStep
<1>5. \/ \E s \in Symbols :
           \/ \E op \in {"activate", "deactivate", "allow", "disallow", "delete"} : R!Ask(c, op, s)
           \/ R!GetSymbol(c, s)
      \/ R!AskUpdate(c)
  BY DEF R!Request, R!AskActivate, R!AskDeactivate, R!AskAllow, R!AskDisallow, R!AskDelete
<1> QED
  BY <1>1, <1>2, <1>4, <1>5, GetSymbolStep, AskUpdateStep

(* An answer changes two fields of the request.                            *)
LEMMA AnswersIs ==
  ASSUME CallsOK, NEW c \in Clients, NEW at \in {"200", "500"}, NEW hit \in BOOLEAN,
         R!Found(c), R!Answers(c, at, hit), at = "200" => hit = TRUE \/ calls[c].on \in removed',
         TableMoves, DefsMove
  PROVE  CallsOK'
<1>1. PICK old : old = calls[c]
  OBVIOUS
<1>2. old \in Asked
  BY <1>1 DEF CallsOK, CallOK, R!Found, R!Calm, Held
<1> DEFINE g == [old EXCEPT !.at = at]
           h == [g EXCEPT !.hit = hit]
<1>3. calls' = [calls EXCEPT ![c] = h]
  BY <1>1 DEF R!Answers
<1>4. g \in Asked /\ g.op = old.op /\ g.on = old.on /\ g.body = old.body /\ g.at = at
  BY <1>2 DEF Asked
<1> HIDE DEF g
<1>5. /\ h \in Asked /\ h.op = old.op /\ h.on = old.on /\ h.body = old.body /\ h.at = at
      /\ h.hit = hit
  BY <1>4 DEF Asked
<1> HIDE DEF h
<1>6. PICK r : r = h
  OBVIOUS
<1>7. CallOK(old)
  BY <1>1 DEF CallsOK
<1>8. /\ r \in Asked /\ r.op = old.op /\ r.on = old.on /\ r.body = old.body
      /\ r.at \in {"200", "500"} /\ r.hit = hit
      /\ r.at = "200" => hit = TRUE \/ r.on \in removed'
  BY <1>1, <1>5, <1>6
<1>9. CallOK(r)'
  BY <1>7, <1>8 DEF CallOK
<1> QED
  BY <1>3, <1>6, <1>9, CallSet

LEMMA WrittenIs ==
  ASSUME NEW op \in {"activate", "deactivate", "allow", "disallow", "update"},
         NEW row \in R!Row, NEW body, op = "update" => body \in R!Row
  PROVE  R!Written(op, row, body) \in R!Row
<1>1. CASE op = "activate"
  <2>1. R!Written(op, row, body) = R!ActivateSymbol(row, body)
    BY <1>1 DEF R!Written
  <2> QED
    BY <2>1 DEF R!ActivateSymbol, R!Row
<1>2. CASE op = "deactivate"
  <2>1. R!Written(op, row, body) = R!DeactivateSymbol(row, body)
    BY <1>2 DEF R!Written
  <2> QED
    BY <2>1 DEF R!DeactivateSymbol, R!Row
<1>3. CASE op = "allow"
  <2>1. R!Written(op, row, body) = R!AllowSymbol(row, body)
    BY <1>3 DEF R!Written
  <2> QED
    BY <2>1 DEF R!AllowSymbol, R!Row
<1>4. CASE op = "disallow"
  <2>1. R!Written(op, row, body) = R!DisallowSymbol(row, body)
    BY <1>4 DEF R!Written
  <2> QED
    BY <2>1 DEF R!DisallowSymbol, R!Row
<1>5. CASE op = "update"
  <2>1. R!Written(op, row, body) = R!UpdateWhole(row, body)
    BY <1>5 DEF R!Written
  <2> QED
    BY <1>5, <2>1 DEF R!UpdateWhole
<1> QED
  BY <1>1, <1>2, <1>3, <1>4, <1>5

LEMMA FoundRow ==
  ASSUME CallsOK, NEW c \in Clients, R!Found(c), calls[c].op \in SymbolOps
  PROVE  calls[c].on \in Symbols /\ (R!Exists(calls[c].on) \/ calls[c].on \in removed)
BY DEF CallsOK, CallOK, R!Found

LEMMA WriteFoundStep ==
  ASSUME TablesOK, CallsOK, NEW c \in Clients, R!WriteFound(c)
  PROVE  TableMoves /\ Apart /\ CallsOK'
<1>1. /\ sync' = sync /\ removed' = removed /\ defs' = defs /\ R!Found(c)
      /\ calls[c].op \in {"activate", "deactivate", "allow", "disallow", "update"}
  BY DEF R!WriteFound
<1>2. PICK s : s = calls[c].on
  OBVIOUS
<1>3. calls[c].op \in SymbolOps
  BY <1>1 DEF SymbolOps
<1>4. s \in Symbols /\ (R!Exists(s) \/ s \in removed)
  BY <1>1, <1>2, <1>3, FoundRow
<1>5. PICK hit \in BOOLEAN : hit = R!Exists(s)
  BY Zenon DEF R!Exists
<1>6. R!Answers(c, "200", hit)
  BY <1>2, <1>5 DEF R!WriteFound
<1>7. ASSUME R!Exists(s)
      PROVE  TableMoves /\ Apart
  <2>1. PICK op : op = calls[c].op
    OBVIOUS
  <2>2. PICK body : body = calls[c].body
    OBVIOUS
  <2> DEFINE new == [t \in {s} |-> R!Written(op, table[s], body)]
  <2>3. R!Writes(new)
    BY <1>2, <1>7, <2>1, <2>2 DEF R!WriteFound
  <2>4. table[s] \in R!Row
    BY <1>4, <1>7 DEF TablesOK, R!Exists
  <2>5. op = "update" => body \in R!Row
    BY <2>1, <2>2 DEF CallsOK, CallOK
  <2>6. R!Written(op, table[s], body) \in R!Row
    BY <1>1, <2>1, <2>4, <2>5, WrittenIs
  <2>7. \A t \in Symbols \intersect DOMAIN new : new[t] \in R!Row
    BY <2>6
  <2> HIDE DEF new
  <2> QED
    BY <1>1, <2>3, <2>7, WriteMoves
<1>8. ASSUME ~R!Exists(s)
      PROVE  TableMoves /\ Apart
  <2>1. table' = table /\ touched' = touched
    BY <1>2, <1>8 DEF R!WriteFound, R!Silent
  <2> QED
    BY <1>1, <2>1, SilentMoves
<1>9. TableMoves /\ Apart
  BY <1>7, <1>8
<1>10. DefsMove
  BY <1>1, DefsStayMoves
<1>11. hit = TRUE \/ calls[c].on \in removed'
  BY <1>1, <1>2, <1>4, <1>5
<1>12. CallsOK'
  BY <1>1, <1>6, <1>9, <1>10, <1>11, AnswersIs
<1> QED
  BY <1>9, <1>12

LEMMA DeleteEntryStep ==
  ASSUME TablesOK, CallsOK, NEW c \in Clients, R!DeleteEntry(c)
  PROVE  TableMoves /\ Apart /\ CallsOK'
<1>1. PICK s : s = calls[c].on
  OBVIOUS
<1>2. /\ sync' = sync /\ removed' = removed \union {s} /\ defs' = defs /\ R!Found(c)
      /\ calls[c].op = "delete"
  BY <1>1 DEF R!DeleteEntry
<1>3. PICK hit \in BOOLEAN : hit = R!Exists(s)
  BY Zenon DEF R!Exists
<1>4. R!Answers(c, "200", hit)
  BY <1>1, <1>3 DEF R!DeleteEntry
<1> DEFINE new == [t \in {s} |-> NoRow]
<1>5. R!Writes(new)
  BY <1>1 DEF R!DeleteEntry
<1>6. /\ DOMAIN new = {s}
      /\ \A t \in Symbols \intersect DOMAIN new : new[t] \in R!Row \union {NoRow}
  OBVIOUS
<1> HIDE DEF new
<1>7. /\ table' \in [Symbols -> R!Row \union {NoRow}]
      /\ \A t \in Symbols \ {s} : table'[t] = table[t]
      /\ sync # R!Idle => touched' = touched \union {s}
  BY <1>5, <1>6, WritesIs
<1>8. TableMoves /\ Apart
  BY <1>2, <1>7 DEF TableMoves, Apart, R!Exists
<1>9. DefsMove
  BY <1>2, DefsStayMoves
<1>10. calls[c].on \in removed'
  BY <1>1, <1>2
<1>11. CallsOK'
  BY <1>2, <1>4, <1>8, <1>9, <1>10, AnswersIs
<1> QED
  BY <1>8, <1>11

LEMMA FailFoundStep ==
  ASSUME TablesOK, CallsOK, NEW c \in Clients, R!FailFound(c)
  PROVE  TableMoves /\ Apart /\ CallsOK'
<1>1. /\ table' = table /\ touched' = touched /\ sync' = sync /\ removed' = removed
      /\ defs' = defs /\ R!Found(c) /\ R!Answers(c, "500", FALSE)
  BY DEF R!FailFound, R!Silent
<1>2. TableMoves /\ Apart /\ DefsMove
  BY <1>1, SilentMoves, DefsStayMoves
<1>3. FALSE \in BOOLEAN
  OBVIOUS
<1>4. CallsOK'
  BY <1>1, <1>2, <1>3, AnswersIs
<1> QED
  BY <1>2, <1>4

LEMMA LeavesStep ==
  ASSUME TablesOK, CallsOK, NEW c \in Clients, R!Leaves(c)
  PROVE  TableMoves /\ Apart /\ CallsOK'
<1>1. /\ table' = table /\ touched' = touched /\ sync' = sync /\ removed' = removed
      /\ defs' = defs /\ calls' = [calls EXCEPT ![c] = R!Calm]
  BY DEF R!Leaves
<1> QED
  BY <1>1, SilentMoves, DefsStayMoves, CalmStep

LEMMA OneStatementStep ==
  ASSUME TablesOK, CallsOK, NEW c \in Clients, R!OneStatement(c)
  PROVE  TableMoves /\ Apart /\ CallsOK'
<1>1. TableMoves /\ Apart /\ DefsMove
  BY OneStatementMoves, DefsStayMoves DEF R!OneStatement
<1>2. CASE calls' = calls
  BY <1>1, <1>2, CallsKept
<1>3. CASE \E s \in Symbols : R!UpdateEntry(c, s)
  <2>1. PICK s \in Symbols, at \in {"200", "500"} : R!Tells(c, s, at)
    BY <1>3 DEF R!UpdateEntry
  <2>2. PICK hit \in BOOLEAN : hit = (at = "200" /\ R!Exists(s))
    BY Zenon DEF R!Exists
  <2>3. PICK r : r = [op |-> "entry", on |-> s, body |-> NoRow, at |-> at, hit |-> hit]
    OBVIOUS
  <2>4. calls' = [calls EXCEPT ![c] = r]
    BY <2>1, <2>2, <2>3 DEF R!Tells
  <2>5. r \in Asked /\ r.op = "entry"
    BY <2>3 DEF Asked
  <2>6. CallOK(r)
    BY <2>5 DEF CallOK, SymbolOps, IndicatorOps
  <2>7. CallOK(r)'
    BY <1>1, <2>6, CallKept
  <2> QED
    BY <1>1, <2>4, <2>7, CallSet
<1> QED
  BY <1>1, <1>2, <1>3 DEF R!OneStatement

-----------------------------------------------------------------------------
(* The requests about indicators.                                          *)
LEMMA SwitchedIs ==
  ASSUME NEW op \in IndicatorOps, NEW row \in R!Definition, NEW body,
         op = "change" => body \in Change
  PROVE  R!Switched(op, row, body) \in R!Definition
<1>1. CASE op = "switch_on"
  <2>1. R!Switched(op, row, body) = R!ActivateIndicator(row, body)
    BY <1>1 DEF R!Switched
  <2> QED
    BY <2>1 DEF R!ActivateIndicator, R!Definition
<1>2. CASE op \in {"switch_off", "unregister"}
  <2>1. R!Switched(op, row, body) = R!DeactivateIndicator(row, body)
    BY <1>2 DEF R!Switched
  <2> QED
    BY <2>1 DEF R!DeactivateIndicator, R!Definition
<1>3. CASE op = "change"
  <2>1. R!Switched(op, row, body) = R!UpdateIndicator(row, body)
    BY <1>3 DEF R!Switched
  <2> QED
    BY <1>3, <2>1 DEF R!UpdateIndicator, R!Definition, Change
<1> QED
  BY <1>1, <1>2, <1>3 DEF IndicatorOps

LEMMA AskIndicatorsStep ==
  ASSUME TablesOK, CallsOK, NEW c \in Clients, R!AskIndicators(c), TableMoves
  PROVE  DefsMove /\ CallsOK'
<1>1. defs' = defs
  BY DEF R!AskIndicators
<1>2. DefsMove
  BY <1>1, DefsStayMoves
<1>3. PICK n \in Indicators :
        \/ R!AskActivateIndicator(c, n) \/ R!AskDeactivateIndicator(c, n) \/ R!AskUnregister(c, n)
        \/ R!AskUpdateIndicator(c, n) \/ R!AskRegister(c, n)
  BY DEF R!AskIndicators
<1>4. ASSUME NEW op \in {"switch_on", "switch_off", "unregister"},
             R!FindsIndicator(c, op, n, NoRow)
      PROVE  CallsOK'
  <2>1. op \in IndicatorOps /\ op # "change"
    BY <1>4 DEF IndicatorOps
  <2> QED
    BY <1>2, <1>4, <2>1, FindsIndicatorStep
<1>5. ASSUME R!AskUpdateIndicator(c, n)
      PROVE  CallsOK'
  <2>1. PICK body \in Change : R!FindsIndicator(c, "change", n, body)
    BY <1>5 DEF R!AskUpdateIndicator, Change
  <2>2. "change" \in IndicatorOps
    BY DEF IndicatorOps
  <2> QED
    BY <1>2, <2>1, <2>2, FindsIndicatorStep
<1>6. ASSUME R!AskRegister(c, n)
      PROVE  CallsOK'
  <2>1. PICK at : at = IF R!Known(n) THEN "409" ELSE "found"
    OBVIOUS
  <2>2. PICK r : r = [op |-> "register", on |-> n, body |-> NoRow, at |-> at, hit |-> FALSE]
    OBVIOUS
  <2>3. calls' = [calls EXCEPT ![c] = r]
    BY <1>6, <2>1, <2>2 DEF R!AskRegister
  <2>4. r \in Asked
    BY <2>1, <2>2 DEF Asked
  <2>5. r.op = "register" /\ r.at # "200"
    BY <2>1, <2>2
  <2>6. CallOK(r)'
    BY <2>4, <2>5 DEF CallOK, SymbolOps, IndicatorOps
  <2> QED
    BY <1>2, <2>3, <2>6, CallSet
<1> QED
  BY <1>2, <1>3, <1>4, <1>5, <1>6
     DEF R!AskActivateIndicator, R!AskDeactivateIndicator, R!AskUnregister

LEMMA WriteDefinitionStep ==
  ASSUME TablesOK, CallsOK, NEW c \in Clients, R!WriteDefinition(c), TableMoves
  PROVE  DefsMove /\ CallsOK'
<1>1. PICK n : n = calls[c].on
  OBVIOUS
<1>2. PICK op : op = calls[c].op
  OBVIOUS
<1>3. PICK body : body = calls[c].body
  OBVIOUS
<1>4. R!Found(c) /\ op \in IndicatorOps
  BY <1>2 DEF R!WriteDefinition, IndicatorOps
<1>5. n \in Indicators /\ R!Known(n) /\ (op = "change" => body \in Change)
  BY <1>1, <1>2, <1>3, <1>4 DEF CallsOK, CallOK, R!Found
<1>6. defs' = [defs EXCEPT ![n] = R!Switched(op, @, body)]
  BY <1>1, <1>2, <1>3, <1>5 DEF R!WriteDefinition
<1>7. defs[n] \in R!Definition
  BY <1>5 DEF TablesOK, R!Known
<1>8. PICK new : new = R!Switched(op, defs[n], body)
  OBVIOUS
<1>9. new \in R!Definition
  BY <1>4, <1>5, <1>7, <1>8, SwitchedIs
<1>10. defs' = [defs EXCEPT ![n] = new]
  BY <1>6, <1>8
<1>11. DefsMove
  BY <1>5, <1>9, <1>10, RowsApart DEF DefsMove, TablesOK, R!Known
<1>12. PICK hit \in BOOLEAN : hit = R!Known(n)
  BY Zenon DEF R!Known
<1>13. R!Answers(c, "200", hit) /\ hit = TRUE
  BY <1>1, <1>5, <1>12 DEF R!WriteDefinition
<1>14. CallsOK'
  BY <1>4, <1>11, <1>13, AnswersIs
<1> QED
  BY <1>11, <1>14

LEMMA ServeIndicatorsStep ==
  ASSUME TablesOK, CallsOK, R!ServeIndicators
  PROVE  TableMoves /\ Apart /\ DefsMove /\ CallsOK'
<1>1. /\ table' = table /\ touched' = touched /\ sync' = sync /\ removed' = removed
  BY DEF R!ServeIndicators
<1>2. TableMoves /\ Apart
  BY <1>1, SilentMoves
<1>3. PICK c \in Clients :
        R!AskIndicators(c) \/ R!RegisterIndicator(c) \/ R!WriteDefinition(c)
  BY DEF R!ServeIndicators
<1>4. CASE R!RegisterIndicator(c)
  <2>1. defs' = defs /\ R!Found(c) /\ R!Answers(c, "500", FALSE)
    BY <1>4 DEF R!RegisterIndicator
  <2>2. DefsMove
    BY <2>1, DefsStayMoves
  <2>3. FALSE \in BOOLEAN
    OBVIOUS
  <2>4. CallsOK'
    BY <1>2, <2>1, <2>2, <2>3, AnswersIs
  <2> QED
    BY <1>2, <2>2, <2>4
<1> QED
  BY <1>2, <1>3, <1>4, AskIndicatorsStep, WriteDefinitionStep

-----------------------------------------------------------------------------
(* The synchronisation, while it counted no error: what it has seen and    *)
(* nobody touched is as it is to be, what it has not seen is as it was     *)
(* read, and what is to be switched off is on its list.                    *)
Effect(s) == table[s] \in R!Row /\ [table[s] EXCEPT !.bare = FALSE] = R!Parsed(s)

Off(s) == ~(R!Exists(s) /\ table[s].active)

SyncShape ==
  /\ sync.phase = "each" => sync.todo \intersect sync.seen = {}
  /\ sync.phase = "gone" => sync.delist /\ sync.gone \intersect sync.seen = {}

SyncTells(s) ==
  /\ s \in sync.seen => Effect(s)
  /\ s \notin sync.seen /\ sync.phase = "each" => (s \in sync.known <=> R!Exists(s))
  /\ s \notin sync.seen /\ sync.phase = "gone" => Off(s) \/ s \in sync.gone
  /\ s \notin sync.seen /\ sync.phase = "ended" /\ sync.delist => Off(s)

SyncInv ==
  sync \in Loop => /\ SyncShape
                   /\ sync.errors = 0 => \A s \in Symbols \ touched : SyncTells(s)

LEMMA IdleNotLoop == R!Idle \notin Loop /\ [phase |-> "failed"] \notin Loop
                     /\ Starting \intersect Loop = {}
BY DEF R!Idle, Loop, Starting

LEMMA SyncKept ==
  ASSUME SyncOK, SyncInv, Apart
  PROVE  SyncOK' /\ SyncInv'
<1>1. sync' = sync
  BY DEF Apart
<1>2. SyncOK'
  BY <1>1 DEF SyncOK
<1>3. ASSUME sync \in Loop
      PROVE  SyncInv'
  <2>1. SyncShape'
    BY <1>1, <1>3 DEF SyncInv, SyncShape
  <2>2. sync # R!Idle
    BY <1>3, IdleNotLoop
  <2>3. ASSUME sync.errors = 0, NEW s \in Symbols \ touched'
        PROVE  SyncTells(s)'
    <3>1. table'[s] = table[s] /\ s \notin touched
      BY <2>2, <2>3 DEF Apart
    <3>2. SyncTells(s)
      BY <1>3, <2>3, <3>1 DEF SyncInv
    <3>3. R!Parsed(s)' = R!Parsed(s)
      BY <1>1 DEF R!Parsed, R!CheckEuCompliance
    <3>4. Effect(s) => Effect(s)'
      BY <3>1, <3>3 DEF Effect
    <3>5. R!Exists(s)' <=> R!Exists(s)
      BY <3>1 DEF R!Exists
    <3>6. Off(s) => Off(s)'
      BY <3>1, <3>5 DEF Off
    <3> QED
      BY <1>1, <3>2, <3>4, <3>5, <3>6 DEF SyncTells
  <2> QED
    BY <1>1, <2>1, <2>3 DEF SyncInv
<1>4. ASSUME sync \notin Loop
      PROVE  SyncInv'
  BY <1>1, <1>4 DEF SyncInv
<1> QED
  BY <1>2, <1>3, <1>4

LEMMA SkipStep ==
  ASSUME TablesOK, SyncInv, sync \in Loop, sync.phase = "each", NEW s \in sync.todo,
         R!Skip(s), touched' = touched, removed' = removed
  PROVE  TableMoves /\ SyncOK' /\ SyncInv'
<1>1. s \in Symbols
  BY DEF Loop
<1>2. /\ sync' \in Loop /\ SameRun(sync', sync) /\ sync'.phase = "each"
      /\ sync'.todo = sync.todo \ {s} /\ sync'.seen = sync.seen
      /\ sync'.errors = sync.errors /\ table' = table
  BY <1>1, SkipIs
<1>3. TableMoves
  BY <1>2 DEF TableMoves, TablesOK, R!Exists
<1>4. SyncShape'
  BY <1>2 DEF SyncInv, SyncShape
<1>5. ASSUME sync'.errors = 0, NEW t \in Symbols \ touched'
      PROVE  SyncTells(t)'
  <2>1. SyncTells(t)
    BY <1>2, <1>5 DEF SyncInv
  <2>2. R!Parsed(t)' = R!Parsed(t)
    BY <1>2, SameParsed
  <2>3. Effect(t) => Effect(t)'
    BY <1>2, <2>2 DEF Effect
  <2>4. R!Exists(t)' <=> R!Exists(t)
    BY <1>2 DEF R!Exists
  <2> QED
    BY <1>2, <2>1, <2>3, <2>4 DEF SyncTells, SameRun
<1> QED
  BY <1>2, <1>3, <1>4, <1>5 DEF SyncOK, SyncInv

LEMMA StoreStep ==
  ASSUME TablesOK, SyncInv, sync \in Loop, sync.phase = "each", NEW s \in sync.todo,
         R!Store(s), touched' = touched, removed' = removed
  PROVE  TableMoves /\ SyncOK' /\ SyncInv'
<1>1. s \in Symbols
  BY DEF Loop
<1>2. /\ sync' \in Loop /\ SameRun(sync', sync) /\ sync'.phase = "each"
      /\ sync'.todo = sync.todo \ {s} /\ sync'.seen = sync.seen \union {s}
      /\ sync'.errors = sync.errors
  BY <1>1, StoreIs
<1>3. /\ table' \in [Symbols -> R!Row \union {NoRow}]
      /\ \A t \in Symbols \ {s} : table'[t] = table[t]
      /\ R!Exists(s) => table'[s] \in R!Row
      /\ (s \in sync.known <=> R!Exists(s))
           => /\ table'[s] \in R!Row
              /\ [table'[s] EXCEPT !.bare = FALSE] = R!Parsed(s)
  BY <1>1, StoreRow
<1>4. TableMoves
  BY <1>1, <1>3, RowsApart DEF TableMoves, R!Exists
<1>5. SyncShape'
  BY <1>2 DEF SyncInv, SyncShape
<1>6. ASSUME sync'.errors = 0, NEW t \in Symbols \ touched'
      PROVE  SyncTells(t)'
  <2>1. SyncTells(t)
    BY <1>2, <1>6 DEF SyncInv
  <2>2. R!Parsed(t)' = R!Parsed(t)
    BY <1>2, SameParsed
  <2>3. CASE t = s
    <3>1. s \notin sync.seen
      BY DEF SyncInv, SyncShape
    <3>2. s \in sync.known <=> R!Exists(s)
      BY <2>1, <2>3, <3>1 DEF SyncTells
    <3>3. Effect(t)'
      BY <1>3, <2>2, <2>3, <3>2 DEF Effect
    <3> QED
      BY <1>2, <2>3, <3>3 DEF SyncTells
  <2>4. CASE t # s
    <3>1. table'[t] = table[t]
      BY <1>3, <2>4
    <3>2. Effect(t) => Effect(t)'
      BY <2>2, <3>1 DEF Effect
    <3>3. R!Exists(t)' <=> R!Exists(t)
      BY <3>1 DEF R!Exists
    <3> QED
      BY <1>2, <2>1, <2>4, <3>2, <3>3 DEF SyncTells, SameRun
  <2> QED
    BY <2>3, <2>4
<1> QED
  BY <1>2, <1>4, <1>5, <1>6 DEF SyncOK, SyncInv

LEMMA FailStep ==
  ASSUME TablesOK, SyncInv, sync \in Loop, sync.phase = "each", NEW s \in sync.todo,
         R!Fail(s), touched' = touched, removed' = removed
  PROVE  TableMoves /\ SyncOK' /\ SyncInv'
<1>1. s \in Symbols
  BY DEF Loop
<1>2. /\ sync' \in Loop /\ sync'.phase = "each" /\ sync'.errors = 1 /\ table' = table
      /\ sync'.todo = sync.todo \ {s} /\ sync'.seen = sync.seen \union {s}
  BY <1>1, FailIs
<1>3. TableMoves
  BY <1>2 DEF TableMoves, TablesOK, R!Exists
<1>4. SyncShape'
  BY <1>2 DEF SyncInv, SyncShape
<1> QED
  BY <1>2, <1>3, <1>4 DEF SyncOK, SyncInv

LEMMA SelectStep ==
  ASSUME TablesOK, SyncOK, SyncInv, R!SelectDelisted
  PROVE  TableMoves /\ SyncOK' /\ SyncInv'
<1>1. sync \in Loop /\ sync.phase = "each" /\ touched' = touched /\ removed' = removed
  BY InLoop DEF R!SelectDelisted, R!SyncKeeps
<1>2. /\ sync' \in Loop /\ SameRun(sync', sync) /\ sync'.seen = sync.seen
      /\ sync'.errors = sync.errors /\ sync'.todo = sync.todo
      /\ \/ sync.delist /\ sync'.phase = "gone" /\ sync'.gone = R!Delisted
         \/ ~sync.delist /\ sync'.phase = "ended"
      /\ table' = table
  BY <1>1, SelectIs
<1>3. TableMoves
  BY <1>1, <1>2 DEF TableMoves, TablesOK, R!Exists
<1>4. SyncShape'
  <2>1. R!Delisted \intersect sync.seen = {}
    BY DEF R!Delisted
  <2> QED
    BY <1>2, <2>1 DEF SyncShape, SameRun
<1>5. ASSUME sync'.errors = 0, NEW t \in Symbols \ touched'
      PROVE  SyncTells(t)'
  <2>1. SyncTells(t)
    BY <1>1, <1>2, <1>5 DEF SyncInv
  <2>2. R!Parsed(t)' = R!Parsed(t)
    BY <1>2, SameParsed
  <2>3. Effect(t) => Effect(t)'
    BY <1>2, <2>2 DEF Effect
  <2>4. Off(t)' <=> Off(t)
    BY <1>2 DEF Off, R!Exists
  <2>5. t \notin sync.seen => Off(t) \/ t \in R!Delisted
    BY <1>5 DEF Off, R!Delisted
  <2> QED
    BY <1>2, <2>1, <2>3, <2>4, <2>5 DEF SyncTells, SameRun
<1> QED
  BY <1>2, <1>3, <1>4, <1>5 DEF SyncOK, SyncInv

LEMMA DeactivateStep ==
  ASSUME TablesOK, SyncOK, SyncInv, R!DeactivateDelisted
  PROVE  TableMoves /\ SyncOK' /\ SyncInv'
<1>1. /\ sync \in Loop /\ sync' \in Loop /\ SameRun(sync', sync) /\ sync'.seen = sync.seen
      /\ sync'.errors = sync.errors /\ sync'.todo = sync.todo
      /\ \/ sync.gone = {} /\ sync'.phase = "ended" /\ table' = table
         \/ /\ sync'.phase = sync.phase
            /\ \E s \in sync.gone :
                 /\ sync'.gone = sync.gone \ {s}
                 /\ table' = [table EXCEPT ![s] =
                      IF R!Exists(s) THEN [@ EXCEPT !.active = FALSE] ELSE @]
  BY DeactivateIs
<1>2. sync.phase = "gone" /\ touched' = touched /\ removed' = removed
  BY DEF R!DeactivateDelisted, R!SyncKeeps
<1>3. CASE sync.gone = {} /\ sync'.phase = "ended" /\ table' = table
  <2>1. TableMoves
    BY <1>2, <1>3 DEF TableMoves, TablesOK, R!Exists
  <2>2. SyncShape'
    BY <1>3 DEF SyncShape
  <2>3. ASSUME sync'.errors = 0, NEW t \in Symbols \ touched'
        PROVE  SyncTells(t)'
    <3>1. SyncTells(t)
      BY <1>1, <1>2, <2>3 DEF SyncInv
    <3>2. R!Parsed(t)' = R!Parsed(t)
      BY <1>1, SameParsed
    <3>3. Effect(t) => Effect(t)'
      BY <1>3, <3>2 DEF Effect
    <3>4. Off(t)' <=> Off(t)
      BY <1>3 DEF Off, R!Exists
    <3> QED
      BY <1>1, <1>2, <1>3, <3>1, <3>3, <3>4 DEF SyncTells
  <2> QED
    BY <1>1, <2>1, <2>2, <2>3 DEF SyncOK, SyncInv
<1>4. ASSUME NEW s \in sync.gone, sync'.phase = sync.phase, sync'.gone = sync.gone \ {s},
             table' = [table EXCEPT ![s] =
                         IF R!Exists(s) THEN [@ EXCEPT !.active = FALSE] ELSE @]
      PROVE  TableMoves /\ SyncOK' /\ SyncInv'
  <2>1. s \in Symbols /\ s \notin sync.seen
    BY <1>1, <1>2 DEF Loop, SyncInv, SyncShape
  <2>2. PICK row : row = table[s]
    OBVIOUS
  <2>3. PICK new : new = IF R!Exists(s) THEN [row EXCEPT !.active = FALSE] ELSE row
    OBVIOUS
  <2>4. table' = [table EXCEPT ![s] = new]
    BY <1>4, <2>2, <2>3
  <2>5. R!Exists(s) => row \in R!Row /\ new \in R!Row /\ new.active = FALSE
    BY <2>1, <2>2, <2>3 DEF TablesOK, R!Exists, R!Row
  <2>6. ~R!Exists(s) => new = NoRow
    BY <2>2, <2>3 DEF R!Exists
  <2>7. /\ table' \in [Symbols -> R!Row \union {NoRow}]
        /\ \A t \in Symbols \ {s} : table'[t] = table[t]
        /\ table'[s] = new
    BY <2>1, <2>4, <2>5, <2>6 DEF TablesOK
  <2>8. TableMoves
    BY <1>2, <2>5, <2>7, RowsApart DEF TableMoves, R!Exists
  <2>9. SyncShape'
    BY <1>1, <1>2, <1>4 DEF SyncInv, SyncShape, SameRun
  <2>10. ASSUME sync'.errors = 0, NEW t \in Symbols \ touched'
         PROVE  SyncTells(t)'
    <3>1. SyncTells(t)
      BY <1>1, <1>2, <2>10 DEF SyncInv
    <3>2. R!Parsed(t)' = R!Parsed(t)
      BY <1>1, SameParsed
    <3>3. CASE t = s
      <4>1. Off(t)'
        BY <2>5, <2>6, <2>7, <3>3 DEF Off, R!Exists
      <4> QED
        BY <1>1, <1>2, <1>4, <2>1, <3>3, <4>1 DEF SyncTells
    <3>4. CASE t # s
      <4>1. table'[t] = table[t]
        BY <2>7, <3>4
      <4>2. Effect(t) => Effect(t)'
        BY <3>2, <4>1 DEF Effect
      <4>3. Off(t)' <=> Off(t)
        BY <4>1 DEF Off, R!Exists
      <4> QED
        BY <1>1, <1>2, <1>4, <3>1, <3>4, <4>2, <4>3 DEF SyncTells
    <3> QED
      BY <3>3, <3>4
  <2> QED
    BY <1>1, <2>8, <2>9, <2>10 DEF SyncOK, SyncInv
<1> QED
  BY <1>1, <1>3, <1>4

LEMMA SyncStep ==
  ASSUME TablesOK, SyncOK, SyncInv, R!Sync
  PROVE  TableMoves /\ SyncOK' /\ SyncInv'
<1>1. removed' = removed
  BY DEF R!Sync, R!Fetch, R!GetExisting, R!SyncSymbol, R!SelectDelisted, R!DeactivateDelisted,
         R!RunSync, R!SyncKeeps
<1>2. ASSUME table' = table
      PROVE  TableMoves
  BY <1>1, <1>2 DEF TableMoves, TablesOK, R!Exists
<1>3. ASSUME NEW auto \in BOOLEAN, NEW delist \in BOOLEAN, NEW eu \in BOOLEAN,
             R!Fetch(auto, delist, eu)
      PROVE  TableMoves /\ SyncOK' /\ SyncInv'
  <2>1. sync' \in Starting /\ table' = table
    BY <1>3, FetchIs
  <2> QED
    BY <1>2, <2>1, IdleNotLoop DEF SyncOK, SyncInv
<1>4. ASSUME R!GetExisting
      PROVE  TableMoves /\ SyncOK' /\ SyncInv'
  <2>1. /\ \/ sync' = [phase |-> "failed"]
           \/ /\ sync' \in Loop /\ sync'.phase = "each" /\ sync'.seen = {}
              /\ sync'.known = {s \in Symbols : R!Exists(s)}
        /\ table' = table
    BY <1>4, GetExistingIs
  <2>2. CASE sync' = [phase |-> "failed"]
    BY <1>2, <2>1, <2>2, IdleNotLoop DEF SyncOK, SyncInv
  <2>3. CASE /\ sync' \in Loop /\ sync'.phase = "each" /\ sync'.seen = {}
             /\ sync'.known = {s \in Symbols : R!Exists(s)}
    <3>1. SyncShape'
      BY <2>3 DEF SyncShape
    <3>2. ASSUME NEW s \in Symbols
          PROVE  SyncTells(s)'
      <4>1. R!Exists(s)' <=> R!Exists(s)
        BY <2>1 DEF R!Exists
      <4> QED
        BY <2>3, <4>1 DEF SyncTells
    <3> QED
      BY <1>2, <2>1, <2>3, <3>1, <3>2 DEF SyncOK, SyncInv
  <2> QED
    BY <2>1, <2>2, <2>3
<1>5. ASSUME R!SyncSymbol
      PROVE  TableMoves /\ SyncOK' /\ SyncInv'
  <2>1. sync \in Loop /\ sync.phase = "each" /\ touched' = touched
    BY <1>5, InLoop DEF R!SyncSymbol, R!SyncKeeps
  <2>2. PICK s \in sync.todo : R!Skip(s) \/ R!Store(s) \/ R!Fail(s)
    BY <1>5 DEF R!SyncSymbol
  <2> QED
    BY <1>1, <2>1, <2>2, SkipStep, StoreStep, FailStep
<1>6. ASSUME R!RunSync
      PROVE  TableMoves /\ SyncOK' /\ SyncInv'
  <2>1. sync' = R!Idle /\ table' = table
    BY <1>6 DEF R!RunSync
  <2> QED
    BY <1>2, <2>1, IdleNotLoop DEF SyncOK, SyncInv
<1> QED
  BY <1>3, <1>4, <1>5, <1>6, SelectStep, DeactivateStep DEF R!Sync

-----------------------------------------------------------------------------
RegistryInv == TablesOK /\ SyncOK /\ SyncInv /\ CallsOK

LEMMA RegistryStarts == R!Init => RegistryInv
<1> SUFFICES ASSUME R!Init PROVE RegistryInv
  OBVIOUS
<1>1. R!Seeded \subseteq R!Row
  <2>1. 0 \in 0 .. MaxRules
    BY TradingAssumption DEF R!RegistryAssumption
  <2> QED
    BY <2>1 DEF R!Seeded, R!Row
<1>2. [params : {0}, active : BOOLEAN] \subseteq R!Definition
  BY DEF R!Definition
<1>3. TablesOK
  BY <1>1, <1>2 DEF R!Init, TablesOK
<1>4. SyncOK /\ SyncInv
  BY IdleNotLoop DEF R!Init, SyncOK, SyncInv
<1>5. CallsOK
  <2>1. calls = [c \in Clients |-> R!Calm]
    BY DEF R!Init
  <2>2. PICK r : r = R!Calm
    OBVIOUS
  <2>3. r.op = "none"
    BY <2>2 DEF R!Calm
  <2>4. CallOK(r)
    BY <2>2, <2>3 DEF CallOK, SymbolOps, IndicatorOps
  <2> QED
    BY <2>1, <2>2, <2>4 DEF CallsOK
<1> QED
  BY <1>3, <1>4, <1>5 DEF RegistryInv

LEMMA ServeStep ==
  ASSUME TablesOK, CallsOK, R!Serve
  PROVE  TableMoves /\ Apart /\ DefsMove /\ CallsOK'
<1>1. PICK c \in Clients :
        \/ R!Request(c) \/ R!WriteFound(c) \/ R!DeleteEntry(c) \/ R!FailFound(c)
        \/ R!OneStatement(c) \/ R!Leaves(c)
  BY DEF R!Serve
<1>2. defs' = defs
  BY <1>1 DEF R!Request, R!WriteFound, R!DeleteEntry, R!FailFound, R!OneStatement, R!Leaves
<1>3. DefsMove
  BY <1>2, DefsStayMoves
<1> QED
  BY <1>1, <1>3, RequestStep, WriteFoundStep, DeleteEntryStep, FailFoundStep, OneStatementStep,
     LeavesStep

LEMMA CollectMoves ==
  ASSUME TablesOK, CallsOK, R!Collect
  PROVE  TableMoves /\ Apart /\ DefsMove /\ CallsOK'
<1>1. sync' = sync /\ removed' = removed /\ defs' = defs /\ calls' = calls
  BY DEF R!Collect, R!GetVolatileSymbols, R!SetupDatabase, R!Receive, R!Timeout, R!StoreTrades,
         R!StoreFails, R!Kill, R!Collects
<1>2. ASSUME ~R!SetupDatabase
      PROVE  TableMoves /\ Apart
  <2>1. table' = table /\ touched' = touched
    BY <1>2 DEF R!Collect, R!GetVolatileSymbols, R!Receive, R!Timeout, R!StoreTrades,
         R!StoreFails, R!Kill, R!Silent
  <2> QED
    BY <1>1, <2>1, SilentMoves
<1>3. TableMoves /\ Apart
  BY <1>2, SetupMoves
<1> QED
  BY <1>1, <1>3, DefsStayMoves, CallsKept

LEMMA RegistryStep == RegistryInv /\ [R!Next]_R!vars => RegistryInv'
<1> SUFFICES ASSUME RegistryInv, [R!Next]_R!vars PROVE RegistryInv'
  OBVIOUS
<1>1. TablesOK /\ SyncOK /\ SyncInv /\ CallsOK
  BY DEF RegistryInv
<1>2. exchange' \in [Symbols -> R!Info]
  <2>1. CASE R!ExchangeChanges
    BY <1>1, <2>1 DEF R!ExchangeChanges, TablesOK
  <2>2. CASE ~R!ExchangeChanges
    <3>1. exchange' = exchange
      BY <2>2 DEF R!Next, R!vars, R!Sync, R!Fetch, R!GetExisting, R!SyncSymbol, R!SelectDelisted,
           R!DeactivateDelisted, R!RunSync, R!SyncKeeps, R!Serve, R!Request, R!WriteFound,
           R!DeleteEntry, R!FailFound, R!OneStatement, R!Leaves, R!ServeIndicators, R!Collect,
           R!GetVolatileSymbols, R!SetupDatabase, R!Receive, R!Timeout, R!StoreTrades,
           R!StoreFails, R!Kill, R!Collects
    <3> QED
      BY <1>1, <3>1 DEF TablesOK
  <2> QED
    BY <2>1, <2>2
<1>3. ASSUME TableMoves, DefsMove
      PROVE  TablesOK'
  BY <1>2, <1>3 DEF TablesOK, TableMoves, DefsMove
<1>4. CASE R!Sync
  <2>1. defs' = defs /\ calls' = calls
    BY <1>4 DEF R!Sync, R!Fetch, R!GetExisting, R!SyncSymbol, R!SelectDelisted,
         R!DeactivateDelisted, R!RunSync, R!SyncKeeps
  <2>2. TableMoves /\ SyncOK' /\ SyncInv'
    BY <1>1, <1>4, SyncStep
  <2>3. DefsMove
    BY <1>1, <2>1, DefsStayMoves
  <2>4. CallsOK'
    BY <1>1, <2>1, <2>2, <2>3, CallsKept
  <2> QED
    BY <1>3, <2>2, <2>3, <2>4 DEF RegistryInv
<1>5. CASE R!ExchangeChanges \/ UNCHANGED R!vars
  <2>1. /\ table' = table /\ defs' = defs /\ calls' = calls /\ sync' = sync /\ removed' = removed
        /\ touched' = touched
    BY <1>5 DEF R!ExchangeChanges, R!vars
  <2>2. TableMoves /\ Apart /\ DefsMove
    BY <1>1, <2>1, SilentMoves, DefsStayMoves
  <2>3. CallsOK' /\ SyncOK' /\ SyncInv'
    BY <1>1, <2>1, <2>2, CallsKept, SyncKept
  <2> QED
    BY <1>3, <2>2, <2>3 DEF RegistryInv
<1>6. CASE R!Serve \/ R!ServeIndicators \/ R!Collect
  <2>1. TableMoves /\ Apart /\ DefsMove /\ CallsOK'
    BY <1>1, <1>6, ServeStep, ServeIndicatorsStep, CollectMoves
  <2>2. SyncOK' /\ SyncInv'
    BY <1>1, <2>1, SyncKept
  <2> QED
    BY <1>3, <2>1, <2>2 DEF RegistryInv
<1> QED
  BY <1>4, <1>5, <1>6 DEF R!Next

LEMMA RegistryInvariant == R!RegistrySpec => []RegistryInv
BY RegistryStarts, RegistryStep, PTL DEF R!RegistrySpec

LEMMA AnswersHold == RegistryInv => R!AnswersAreTrue
<1> SUFFICES ASSUME RegistryInv, NEW c \in Clients, calls[c].op \notin {"none", "held", "entry"},
                    calls[c].at = "200"
             PROVE  calls[c].hit \/ calls[c].on \in removed
  BY DEF R!AnswersAreTrue, R!Succeeds
<1>1. CallOK(calls[c])
  BY DEF RegistryInv, CallsOK
<1>2. calls[c].hit = TRUE \/ calls[c].on \in removed
  BY <1>1 DEF CallOK
<1> QED
  BY <1>2, Zenon

LEMMA SyncHolds == RegistryInv => R!SyncTakesEffect
<1> SUFFICES ASSUME RegistryInv, sync.phase = "ended", sync.errors = 0,
                    NEW s \in Symbols \ touched
             PROVE  /\ s \in sync.seen =>
                         /\ R!Exists(s)
                         /\ [table[s] EXCEPT !.bare = FALSE] = R!Parsed(s)
                    /\ s \notin sync.seen /\ sync.delist => ~(R!Exists(s) /\ table[s].active)
  BY DEF R!SyncTakesEffect
<1>1. sync \in Loop
  BY InLoop DEF RegistryInv
<1>2. SyncTells(s)
  BY <1>1 DEF RegistryInv, SyncInv
<1>3. s \in sync.seen => Effect(s)
  BY <1>2 DEF SyncTells
<1>4. Effect(s) => R!Exists(s)
  BY RowsApart DEF Effect, R!Exists
<1>5. s \notin sync.seen /\ sync.delist => Off(s)
  BY <1>2 DEF SyncTells
<1> QED
  BY <1>3, <1>4, <1>5, Zenon DEF Effect, Off

-----------------------------------------------------------------------------
(* The audit trail.                                                        *)
AuditTyped ==
  /\ trail \in Seq(BOOLEAN) /\ Len(trail) <= MaxEvents
  /\ memory \in Seq(A!Events) /\ Len(memory) <= MaxMemory
  /\ audit_log \in [1 .. MaxEvents -> 0 .. 2]
  /\ singles \subseteq A!Events /\ trimmed \subseteq A!Events
  /\ overtaken \subseteq A!Events /\ uncertain \subseteq A!Events
  /\ flush \in [by : {"nobody", "timer", "stop"}, copies : SUBSET A!Events]
  /\ logger \in {"new", "running", "stopping", "stopped"}

(* No event has a row before it is logged, and only severe ones get one of *)
(* their own.                                                              *)
RowsOfEvents ==
  /\ \A e \in 1 .. MaxEvents : e > Len(trail) => audit_log[e] = 0
  /\ \A e \in singles : trail[e]

(* What a COPY under way will clear without having copied it was logged    *)
(* meanwhile; and what it copies, or will be copied, has no row but of its *)
(* own or of a COPY that broke off.                                        *)
CopiesOfEvents ==
  /\ flush = A!NoFlush \/ A!InMemory \subseteq flush.copies \union overtaken
  /\ \A e \in A!InMemory \union flush.copies :
       audit_log[e] > 0 => trail[e] \/ e \in uncertain

AuditInv == AuditTyped /\ RowsOfEvents /\ CopiesOfEvents /\ A!EventsAreKept

LEMMA MemoryHolds ==
  ASSUME AuditTyped
  PROVE  /\ A!InMemory \subseteq A!Events /\ A!Events = 1 .. Len(trail)
         /\ A!Events \subseteq 1 .. MaxEvents /\ MaxEvents \in Nat /\ MaxMemory \in Nat \ {0}
<1>1. MaxEvents \in Nat /\ MaxMemory \in Nat \ {0}
  BY ServicesAssumption DEF A!AuditAssumption
<1>2. A!Events = 1 .. Len(trail) /\ A!Events \subseteq 1 .. MaxEvents
  BY <1>1 DEF AuditTyped, A!Events
<1>3. A!InMemory \subseteq A!Events
  BY DEF AuditTyped, A!InMemory
<1> QED
  BY <1>1, <1>2, <1>3

LEMMA AuditInit == A!Init => AuditInv
<1> SUFFICES ASSUME A!Init PROVE AuditInv
  OBVIOUS
<1>1. MaxEvents \in Nat /\ MaxMemory \in Nat \ {0}
  BY ServicesAssumption DEF A!AuditAssumption
<1>2. A!Events = {} /\ A!InMemory = {}
  BY DEF A!Init, A!Events, A!InMemory
<1>3. AuditTyped
  BY <1>1, <1>2 DEF A!Init, AuditTyped, A!NoFlush
<1> QED
  BY <1>2, <1>3 DEF AuditInv, A!Init, RowsOfEvents, CopiesOfEvents, A!EventsAreKept, A!NoFlush

(* What log() does to trail and memory.                                    *)
LEMMA LogEffect ==
  ASSUME AuditTyped, NEW severe \in BOOLEAN, A!Log(severe),
         NEW e, e = Len(trail) + 1
  PROVE  /\ e \in 1 .. MaxEvents /\ e \notin A!Events
         /\ trail' \in Seq(BOOLEAN) /\ Len(trail') = e
         /\ A!Events' = A!Events \union {e}
         /\ \A x \in A!Events : trail'[x] = trail[x]
         /\ trail'[e] = severe
         /\ memory' \in Seq(A!Events') /\ Len(memory') <= MaxMemory
         /\ A!InMemory' \subseteq A!InMemory \union {e}
         /\ A!InMemory \union {e} \subseteq A!InMemory' \union trimmed'
         /\ trimmed \subseteq trimmed' /\ trimmed' \subseteq A!Events'
<1> DEFINE full == Append(memory, e)
<1>1. e \in 1 .. MaxEvents /\ e \notin A!Events /\ A!Events = 1 .. Len(trail)
  BY MemoryHolds DEF A!Log, AuditTyped
<1>2. /\ trail' = Append(trail, severe) /\ trail' \in Seq(BOOLEAN) /\ Len(trail') = e
      /\ \A x \in A!Events : trail'[x] = trail[x]
      /\ trail'[e] = severe
  BY <1>1 DEF A!Log, AuditTyped
<1>3. A!Events' = A!Events \union {e}
  BY <1>1, <1>2 DEF A!Events, AuditTyped
<1>4. /\ full \in Seq(A!Events') /\ Len(full) = Len(memory) + 1
      /\ \A i \in 1 .. Len(memory) : full[i] = memory[i]
      /\ full[Len(memory) + 1] = e
  <2>1. memory \in Seq(A!Events') /\ e \in A!Events'
    BY <1>3 DEF AuditTyped
  <2> QED
    BY <2>1
<1>5. Len(memory) \in Nat /\ Len(memory) <= MaxMemory /\ MaxMemory \in Nat \ {0}
  BY MemoryHolds DEF AuditTyped
<1>6. CASE Len(full) > MaxMemory
  <2>1. memory' = Tail(full) /\ trimmed' = trimmed \union {Head(full)}
    BY <1>6 DEF A!Log
  <2>2. /\ memory' \in Seq(A!Events') /\ Len(memory') = Len(memory)
        /\ \A i \in 1 .. Len(memory) : memory'[i] = full[i + 1]
        /\ Head(full) = full[1] /\ full[1] \in A!Events'
    <3>1. full \in Seq(A!Events') /\ Len(full) = Len(memory) + 1 /\ Len(full) >= 1
      BY <1>4, <1>5
    <3> HIDE DEF full
    <3>2. full # <<>>
      BY <3>1
    <3>3. Tail(full) \in Seq(A!Events') /\ Len(Tail(full)) = Len(full) - 1
      BY <3>1, <3>2
    <3>4. \A i \in 1 .. Len(full) - 1 : Tail(full)[i] = full[i + 1]
      BY <3>1, <3>2
    <3>5. Head(full) = full[1] /\ full[1] \in A!Events'
      BY <3>1, <3>2
    <3> QED
      BY <2>1, <3>1, <3>3, <3>4, <3>5, <1>5
  <2>3. A!InMemory' \subseteq A!InMemory \union {e}
    <3> SUFFICES ASSUME NEW i \in 1 .. Len(memory') PROVE memory'[i] \in A!InMemory \union {e}
      BY <2>2 DEF A!InMemory
    <3>1. memory'[i] = full[i + 1]
      BY <2>2
    <3>2. CASE i = Len(memory)
      BY <3>1, <3>2, <1>4
    <3>3. CASE i # Len(memory)
      <4>1. i + 1 \in 1 .. Len(memory)
        BY <3>3, <2>2, <1>5
      <4>2. full[i + 1] = memory[i + 1]
        BY <4>1, <1>4
      <4> HIDE DEF full
      <4> QED
        BY <3>1, <4>1, <4>2 DEF A!InMemory, AuditTyped
    <3> QED
      BY <3>2, <3>3
  <2>4. A!InMemory \union {e} \subseteq A!InMemory' \union trimmed'
    <3>1. ASSUME NEW i \in 1 .. Len(memory) + 1 PROVE full[i] \in A!InMemory' \union trimmed'
      <4>1. CASE i = 1
        BY <4>1, <2>1, <2>2
      <4>2. CASE i # 1
        <5>1. i - 1 \in 1 .. Len(memory) /\ memory'[i - 1] = full[i]
          BY <4>2, <2>2, <1>5, SMTT(60)
        <5> QED
          BY <5>1, <2>2 DEF A!InMemory
      <4> QED
        BY <4>1, <4>2
    <3>2. e \in A!InMemory' \union trimmed'
      BY <3>1, <1>4, <1>5
    <3>3. \A i \in 1 .. Len(memory) : memory[i] \in A!InMemory' \union trimmed'
      BY <3>1, <1>4, <1>5
    <3> QED
      BY <3>2, <3>3 DEF A!InMemory, AuditTyped
  <2> QED
    BY <1>1, <1>2, <1>3, <1>5, <2>1, <2>2, <2>3, <2>4 DEF AuditTyped
<1>7. CASE ~(Len(full) > MaxMemory)
  <2>1. memory' = full /\ trimmed' = trimmed
    BY <1>7 DEF A!Log
  <2>2. A!InMemory' = A!InMemory \union {e}
    <3> HIDE DEF full
    <3>1. DOMAIN memory' = 1 .. Len(memory) + 1 /\ DOMAIN memory = 1 .. Len(memory)
      BY <2>1, <1>4, <1>5 DEF AuditTyped
    <3>2. \A i \in DOMAIN memory : i \in DOMAIN memory' /\ memory'[i] = memory[i]
      BY <3>1, <2>1, <1>4, <1>5
    <3>3. memory'[Len(memory) + 1] = e /\ Len(memory) + 1 \in DOMAIN memory'
      BY <3>1, <2>1, <1>4, <1>5
    <3>4. \A i \in DOMAIN memory' : i \in DOMAIN memory \/ i = Len(memory) + 1
      BY <3>1, <1>5
    <3> QED
      BY <3>2, <3>3, <3>4 DEF A!InMemory
  <2> QED
    BY <1>1, <1>2, <1>3, <1>4, <1>5, <1>7, <2>1, <2>2 DEF AuditTyped
<1> QED
  BY <1>6, <1>7

LEMMA AuditLogStep ==
  ASSUME AuditInv, NEW severe \in BOOLEAN, A!Log(severe)
  PROVE  AuditInv'
<1> DEFINE e == Len(trail) + 1
<1> USE DEF AuditInv
<1>1. /\ e \in 1 .. MaxEvents /\ e \notin A!Events
      /\ trail' \in Seq(BOOLEAN) /\ Len(trail') = e
      /\ A!Events' = A!Events \union {e}
      /\ \A x \in A!Events : trail'[x] = trail[x]
      /\ trail'[e] = severe
      /\ memory' \in Seq(A!Events') /\ Len(memory') <= MaxMemory
      /\ A!InMemory' \subseteq A!InMemory \union {e}
      /\ A!InMemory \union {e} \subseteq A!InMemory' \union trimmed'
      /\ trimmed \subseteq trimmed' /\ trimmed' \subseteq A!Events'
  BY LogEffect
<1>2. /\ singles' = IF severe THEN singles \union {e} ELSE singles
      /\ overtaken' = IF flush = A!NoFlush THEN overtaken ELSE overtaken \union {e}
      /\ UNCHANGED <<audit_log, flush, logger, uncertain>>
  BY DEF A!Log
<1>3. audit_log[e] = 0 /\ Len(trail) \in Nat
  BY <1>1 DEF RowsOfEvents, AuditTyped
<1>4. A!InMemory \subseteq A!Events /\ A!Events = 1 .. Len(trail)
  BY MemoryHolds
<1> HIDE DEF e
<1>5. AuditTyped'
  BY <1>1, <1>2 DEF AuditTyped
<1>6. RowsOfEvents'
  <2>1. \A x \in 1 .. MaxEvents : x > Len(trail') => audit_log'[x] = 0
    BY <1>1, <1>2, <1>3 DEF RowsOfEvents, e
  <2>2. \A x \in singles' : trail'[x]
    BY <1>1, <1>2 DEF RowsOfEvents, AuditTyped
  <2> QED
    BY <2>1, <2>2 DEF RowsOfEvents
<1>7. CopiesOfEvents'
  <2>1. flush = A!NoFlush \/ A!InMemory' \subseteq flush.copies \union overtaken'
    BY <1>1, <1>2 DEF CopiesOfEvents
  <2>2. \A x \in A!InMemory' \union flush.copies :
          audit_log[x] > 0 => trail'[x] \/ x \in uncertain
    BY <1>1, <1>2, <1>3, <1>4 DEF CopiesOfEvents, AuditTyped
  <2> QED
    BY <2>1, <2>2, <1>2 DEF CopiesOfEvents, A!NoFlush
<1>8. A!EventsAreKept'
  <2> SUFFICES ASSUME NEW x \in A!Events'
               PROVE  /\ x \in A!InMemory' \/ audit_log'[x] > 0 \/ x \in trimmed' \union overtaken'
                      /\ audit_log'[x] > 1 => trail'[x] \/ x \in uncertain'
    BY DEF A!EventsAreKept
  <2>1. CASE x = e
    BY <2>1, <1>1, <1>2, <1>3
  <2>2. CASE x \in A!Events
    BY <2>2, <1>1, <1>2 DEF A!EventsAreKept
  <2> QED
    BY <2>1, <2>2, <1>1
<1> QED
  BY <1>5, <1>6, <1>7, <1>8

LEMMA MoreCounts ==
  ASSUME NEW n \in 0 .. 2
  PROVE  A!More(n) \in 1 .. 2 /\ (n = 0 => A!More(n) = 1)
BY DEF A!More

(* A COPY that was made: each row there is once more.                      *)
LEMMA CopiedRows ==
  ASSUME AuditTyped, A!Copied
  PROVE  /\ audit_log' \in [1 .. MaxEvents -> 0 .. 2]
         /\ \A e \in 1 .. MaxEvents :
              audit_log'[e] = IF e \in flush.copies THEN A!More(audit_log[e]) ELSE audit_log[e]
<1>1. audit_log' = [e \in 1 .. MaxEvents |->
                      IF e \in flush.copies THEN A!More(audit_log[e]) ELSE audit_log[e]]
  BY DEF A!Copied, AuditTyped
<1>2. \A e \in 1 .. MaxEvents : audit_log[e] \in 0 .. 2
  BY DEF AuditTyped
<1> QED
  BY <1>1, <1>2, MoreCounts

(* A COPY that broke off, made or not: flush() says so, or stop() cancels. *)
LEMMA BreaksOff ==
  ASSUME AuditInv,
         uncertain' = uncertain \union flush.copies,
         A!Copied \/ UNCHANGED audit_log,
         flush' = A!NoFlush, logger' \in {"new", "running", "stopping", "stopped"},
         UNCHANGED <<trail, memory, singles, trimmed, overtaken>>
  PROVE  AuditInv'
<1> USE DEF AuditInv
<1>1. /\ audit_log' \in [1 .. MaxEvents -> 0 .. 2]
      /\ \A e \in 1 .. MaxEvents :
           \/ audit_log'[e] = audit_log[e]
           \/ e \in flush.copies /\ audit_log'[e] > 0
  <2>1. CASE UNCHANGED audit_log
    BY <2>1 DEF AuditTyped
  <2>2. CASE A!Copied
    <3>1. \A e \in 1 .. MaxEvents : A!More(audit_log[e]) > 0
      <4> TAKE e \in 1 .. MaxEvents
      <4>1. audit_log[e] \in 0 .. 2
        BY DEF AuditTyped
      <4> QED
        BY <4>1, MoreCounts
    <3> QED
      BY <2>2, <3>1, CopiedRows
  <2> QED
    BY <2>1, <2>2
<1>2. /\ A!InMemory' = A!InMemory /\ A!Events' = A!Events
      /\ A!InMemory \subseteq A!Events /\ A!Events \subseteq 1 .. MaxEvents
      /\ A!Events = 1 .. Len(trail)
  BY MemoryHolds DEF A!InMemory, A!Events
<1>3. flush.copies \subseteq A!Events /\ uncertain \subseteq A!Events
  BY DEF AuditTyped
<1>4. AuditTyped'
  BY <1>1, <1>2, <1>3 DEF AuditTyped, A!NoFlush
<1>5. RowsOfEvents'
  BY <1>1, <1>2, <1>3 DEF RowsOfEvents, AuditTyped
<1>6. CopiesOfEvents'
  <2>1. A!NoFlush.copies = {}
    BY DEF A!NoFlush
  <2>2. ASSUME NEW e \in A!InMemory, audit_log'[e] > 0 PROVE trail[e] \/ e \in uncertain'
    BY <2>2, <1>1, <1>2 DEF CopiesOfEvents
  <2> QED
    BY <2>1, <2>2, <1>2 DEF CopiesOfEvents
<1>7. A!EventsAreKept'
  BY <1>1, <1>2 DEF A!EventsAreKept
<1> QED
  BY <1>4, <1>5, <1>6, <1>7

LEMMA FlushToDbStep ==
  ASSUME AuditInv, A!FlushToDb
  PROVE  AuditInv'
<1> USE DEF AuditInv
<1>1. /\ flush # A!NoFlush /\ flush' = A!NoFlush /\ memory' = <<>> /\ A!Copied
      /\ logger' \in {"new", "running", "stopping", "stopped"}
      /\ UNCHANGED <<trail, singles, trimmed, overtaken, uncertain>>
  BY DEF A!FlushToDb, A!FlushReturns, AuditTyped
<1>2. /\ A!InMemory' = {} /\ A!Events' = A!Events
      /\ A!InMemory \subseteq A!Events /\ A!Events \subseteq 1 .. MaxEvents
      /\ A!Events = 1 .. Len(trail) /\ MaxMemory \in Nat
  BY <1>1, MemoryHolds DEF A!InMemory, A!Events
<1>3. /\ audit_log' \in [1 .. MaxEvents -> 0 .. 2]
      /\ \A e \in 1 .. MaxEvents :
           audit_log'[e] = IF e \in flush.copies THEN A!More(audit_log[e]) ELSE audit_log[e]
  BY <1>1, CopiedRows
<1>4. flush.copies \subseteq A!Events
  BY DEF AuditTyped
<1>5. \A e \in 1 .. MaxEvents : /\ audit_log[e] \in 0 .. 2
                                /\ A!More(audit_log[e]) \in 1 .. 2
                                /\ audit_log[e] = 0 => A!More(audit_log[e]) = 1
  <2> TAKE e \in 1 .. MaxEvents
  <2>1. audit_log[e] \in 0 .. 2
    BY DEF AuditTyped
  <2> QED
    BY <2>1, MoreCounts
<1>6. AuditTyped'
  BY <1>1, <1>2, <1>3 DEF AuditTyped, A!NoFlush
<1>7. RowsOfEvents'
  BY <1>1, <1>2, <1>3, <1>4 DEF RowsOfEvents, AuditTyped
<1>8. CopiesOfEvents'
  BY <1>1, <1>2 DEF CopiesOfEvents, A!NoFlush
<1>9. A!EventsAreKept'
  <2> SUFFICES ASSUME NEW e \in A!Events
               PROVE  /\ audit_log'[e] > 0 \/ e \in trimmed \union overtaken
                      /\ audit_log'[e] > 1 => trail[e] \/ e \in uncertain
    BY <1>1, <1>2 DEF A!EventsAreKept
  <2>1. CASE e \in flush.copies
    BY <2>1, <1>2, <1>3, <1>5 DEF CopiesOfEvents
  <2>2. CASE e \notin flush.copies
    BY <2>2, <1>1, <1>2, <1>3 DEF CopiesOfEvents, A!EventsAreKept
  <2> QED
    BY <2>1, <2>2
<1> QED
  BY <1>6, <1>7, <1>8, <1>9

LEMMA FlushBegins ==
  ASSUME AuditInv, NEW by \in {"timer", "stop"}, A!Flush(by),
         logger' \in {"new", "running", "stopping", "stopped"},
         UNCHANGED <<trail, memory, audit_log, singles, trimmed, overtaken, uncertain>>
  PROVE  AuditInv'
<1> USE DEF AuditInv
<1>1. /\ A!InMemory' = A!InMemory /\ A!Events' = A!Events
      /\ A!InMemory \subseteq A!Events
  BY MemoryHolds DEF A!InMemory, A!Events
<1>2. flush' = [by |-> by, copies |-> A!InMemory]
  BY DEF A!Flush
<1> QED
  BY <1>1, <1>2 DEF AuditTyped, RowsOfEvents, CopiesOfEvents, A!EventsAreKept

LEMMA SingleStep ==
  ASSUME AuditInv, NEW e \in singles, A!FlushSingleEvent(e) \/ A!FlushSingleFails(e)
  PROVE  AuditInv'
<1> USE DEF AuditInv
<1>1. /\ singles' = singles \ {e}
      /\ UNCHANGED <<trail, memory, flush, logger, trimmed, overtaken, uncertain>>
  BY DEF A!FlushSingleEvent, A!FlushSingleFails
<1>2. /\ A!InMemory' = A!InMemory /\ A!Events' = A!Events
      /\ A!InMemory \subseteq A!Events /\ A!Events \subseteq 1 .. MaxEvents
      /\ A!Events = 1 .. Len(trail)
  BY <1>1, MemoryHolds DEF A!InMemory, A!Events
<1>3. e \in 1 .. MaxEvents /\ e \in A!Events /\ trail[e] /\ audit_log[e] \in 0 .. 2
  BY <1>2 DEF AuditTyped, RowsOfEvents
<1>4. /\ audit_log' \in [1 .. MaxEvents -> 0 .. 2]
      /\ \A x \in 1 .. MaxEvents : x # e => audit_log'[x] = audit_log[x]
      /\ audit_log'[e] = audit_log[e] \/ audit_log'[e] > 0
  <2>1. A!More(audit_log[e]) \in 1 .. 2
    BY <1>3, MoreCounts
  <2>2. CASE A!FlushSingleEvent(e)
    <3>1. audit_log' = [audit_log EXCEPT ![e] = A!More(audit_log[e])]
      BY <2>2 DEF A!FlushSingleEvent
    <3> QED
      BY <1>3, <2>1, <3>1 DEF AuditTyped
  <2>3. CASE A!FlushSingleFails(e)
    BY <2>3 DEF A!FlushSingleFails, AuditTyped
  <2> QED
    BY <2>2, <2>3
<1>5. AuditTyped'
  BY <1>1, <1>2, <1>4 DEF AuditTyped
<1>6. RowsOfEvents'
  BY <1>1, <1>2, <1>3, <1>4 DEF RowsOfEvents, AuditTyped
<1>7. CopiesOfEvents'
  <2>1. ASSUME NEW x \in A!InMemory \union flush.copies, audit_log'[x] > 0
        PROVE  trail[x] \/ x \in uncertain
    BY <2>1, <1>2, <1>3, <1>4 DEF CopiesOfEvents, AuditTyped
  <2> QED
    BY <2>1, <1>1, <1>2 DEF CopiesOfEvents, A!NoFlush
<1>8. A!EventsAreKept'
  BY <1>1, <1>2, <1>3, <1>4 DEF A!EventsAreKept
<1> QED
  BY <1>5, <1>6, <1>7, <1>8

LEMMA AuditStep == AuditInv /\ [A!Next]_A!vars => AuditInv'
<1> SUFFICES ASSUME AuditInv, [A!Next]_A!vars PROVE AuditInv'
  OBVIOUS
<1>1. CASE A!Logs
  <2>1. PICK severe \in BOOLEAN : A!Log(severe)
    <3>1. CASE \/ A!LogStrategyLifecycle \/ A!LogConfigChange \/ A!LogGuardrailBreach
               \/ A!LogEmergencyStop \/ A!LogLlmRequest
      BY <3>1 DEF A!LogStrategyLifecycle, A!LogConfigChange, A!LogGuardrailBreach,
                  A!LogEmergencyStop, A!LogLlmRequest
    <3>2. CASE \E triggered \in BOOLEAN : A!LogKillSwitch(triggered)
      BY <3>2 DEF A!LogKillSwitch
    <3>3. CASE \E subtype \in {"submitted", "rejected"} : A!LogOrderEvent(subtype)
      <4>1. PICK subtype \in {"submitted", "rejected"} : A!LogOrderEvent(subtype)
        BY <3>3
      <4>2. (subtype \in {"rejected", "error"}) \in BOOLEAN
        OBVIOUS
      <4> QED
        BY <4>1, <4>2 DEF A!LogOrderEvent
    <3> QED
      BY <1>1, <3>1, <3>2, <3>3 DEF A!Logs
  <2> QED
    BY <2>1, AuditLogStep
<1>2. CASE \E e \in singles : A!FlushSingleEvent(e) \/ A!FlushSingleFails(e)
  BY <1>2, SingleStep
<1>3. CASE A!Start
  <2>1. A!InMemory' = A!InMemory /\ A!Events' = A!Events
    BY <1>3 DEF A!Start, A!InMemory, A!Events
  <2> QED
    BY <1>3, <2>1
       DEF A!Start, AuditInv, AuditTyped, RowsOfEvents, CopiesOfEvents, A!EventsAreKept,
           A!NoFlush
<1>4. CASE A!PeriodicFlush
  BY <1>4, FlushBegins DEF A!PeriodicFlush
<1>5. CASE A!FlushToDb
  BY <1>5, FlushToDbStep
<1>6. CASE A!FlushFails
  <2>1. logger' \in {"new", "running", "stopping", "stopped"}
    BY <1>6 DEF A!FlushFails, A!FlushReturns, AuditInv, AuditTyped
  <2> QED
    BY <1>6, <2>1, BreaksOff DEF A!FlushFails, A!FlushReturns
<1>7. CASE A!Stop
  BY <1>7, BreaksOff DEF A!Stop
<1>8. CASE A!FinalFlush
  <2>1. CASE memory = <<>>
    <3>1. A!InMemory' = A!InMemory /\ A!Events' = A!Events
      BY <1>8 DEF A!FinalFlush, A!InMemory, A!Events
    <3> QED
      BY <1>8, <2>1, <3>1
         DEF A!FinalFlush, AuditInv, AuditTyped, RowsOfEvents, CopiesOfEvents,
             A!EventsAreKept, A!NoFlush
  <2>2. CASE memory # <<>>
    BY <1>8, <2>2, FlushBegins DEF A!FinalFlush, AuditInv, AuditTyped
  <2> QED
    BY <2>1, <2>2
<1>9. CASE UNCHANGED A!vars
  <2>1. A!InMemory' = A!InMemory /\ A!Events' = A!Events
    BY <1>9 DEF A!vars, A!InMemory, A!Events
  <2> QED
    BY <1>9, <2>1
       DEF A!vars, AuditInv, AuditTyped, RowsOfEvents, CopiesOfEvents, A!EventsAreKept,
           A!NoFlush
<1> QED
  BY <1>1, <1>2, <1>3, <1>4, <1>5, <1>6, <1>7, <1>8, <1>9 DEF A!Next

LEMMA AuditInvariant == A!AuditSpec => []AuditInv
BY AuditInit, AuditStep, PTL DEF A!AuditSpec

-----------------------------------------------------------------------------
(* The jobs of backtests.                                                  *)
JobsTyped ==
  /\ versions \in Nat /\ clock \in Nat
  /\ jobs \in [Jobs -> [status : {"none", "pending", "running", "completed", "failed"},
                        version : Nat]]
  /\ tasks \in [Jobs -> {"none", "starts", "looks up", "loads", "saves", "saved"}]
  /\ results \in [Jobs -> [version : Nat, at : Nat]]
  /\ gone \subseteq Jobs /\ unsure \subseteq Jobs

(* What the task of a job may rely on: until it saves there is no row, and *)
(* behind that there is one or it was removed.                             *)
TaskOfJob(j) ==
  /\ tasks[j] # "none" => jobs[j].status = IF tasks[j] = "starts" THEN "pending" ELSE "running"
  /\ tasks[j] = "none" => jobs[j] = J!NoJob \/ jobs[j].status \in {"completed", "failed"}
  /\ tasks[j] \in {"starts", "looks up", "loads", "saves"} => ~J!Has(j)
  /\ tasks[j] = "saved" => J!Has(j) \/ j \in gone

RowOfJob(j) ==
  /\ jobs[j].status = "completed" => J!Has(j) \/ j \in gone
  /\ jobs[j].status = "failed" => ~J!Has(j) \/ j \in unsure
  /\ jobs[j].status # "none" /\ J!Has(j) => results[j].version = jobs[j].version

JobsInv == JobsTyped /\ \A j \in Jobs : TaskOfJob(j) /\ RowOfJob(j)

LEMMA JobsInit == J!Init => JobsInv
BY DEF J!Init, JobsInv, JobsTyped, TaskOfJob, RowOfJob, J!NoJob, J!NoResult, J!Has

(* A step that touches nothing of a job keeps what is known of it.         *)
LEMMA JobStays ==
  ASSUME NEW j \in Jobs, TaskOfJob(j), RowOfJob(j),
         jobs'[j] = jobs[j], tasks'[j] = tasks[j], results'[j] = results[j],
         gone \subseteq gone', unsure \subseteq unsure'
  PROVE  TaskOfJob(j)' /\ RowOfJob(j)'
BY DEF TaskOfJob, RowOfJob, J!Has, J!NoResult

(* The steps of a job's task.                                              *)
LEMMA TaskStep ==
  ASSUME JobsInv, NEW j \in Jobs, J!Execute(j)
  PROVE  JobsInv'
<1> USE DEF JobsInv
<1>1. /\ \A k \in Jobs : k # j => /\ jobs'[k] = jobs[k] /\ tasks'[k] = tasks[k]
                                  /\ results'[k] = results[k]
      /\ gone' = gone /\ unsure \subseteq unsure'
  BY DEF J!Execute, J!Begin, J!ResolveVersion, J!NotFound, J!RunBacktest, J!BacktestFails,
         J!Save, J!SaveFails, J!Complete, J!LosesAnswer, J!Ends, J!Becomes, J!Goes,
         J!Written, JobsTyped
<1>2. \A k \in Jobs : k # j => TaskOfJob(k)' /\ RowOfJob(k)'
  BY <1>1, JobStays
<1>3. clock \in Nat /\ jobs[j].version \in Nat
  BY DEF JobsTyped
<1>4. PICK next \in Nat : next = clock + 1 /\ next # 0
  BY <1>3
<1>5. JobsTyped' /\ TaskOfJob(j)' /\ RowOfJob(j)'
  <2> USE DEF JobsTyped
  <2>1. CASE J!Begin(j)
    BY <2>1, ZenonT(60) DEF J!Begin, J!Becomes, J!Goes, TaskOfJob, RowOfJob, J!Has, J!NoResult
  <2>2. CASE J!ResolveVersion(j)
    BY <2>2, ZenonT(60) DEF J!ResolveVersion, J!Goes, TaskOfJob, RowOfJob, J!Has, J!NoResult
  <2>3. CASE J!NotFound(j)
    BY <2>3, ZenonT(60)
       DEF J!NotFound, J!Ends, J!Becomes, J!Goes, TaskOfJob, RowOfJob, J!Has, J!NoResult
  <2>4. CASE J!RunBacktest(j)
    BY <2>4, ZenonT(60) DEF J!RunBacktest, J!Goes, TaskOfJob, RowOfJob, J!Has, J!NoResult
  <2>5. CASE J!BacktestFails(j)
    BY <2>5, ZenonT(60)
       DEF J!BacktestFails, J!Ends, J!Becomes, J!Goes, TaskOfJob, RowOfJob, J!Has, J!NoResult
  <2>6. CASE J!Save(j)
    <3>1. /\ tasks[j] = "saves" /\ tasks' = [tasks EXCEPT ![j] = "saved"]
          /\ results' = [results EXCEPT ![j] = [version |-> jobs[j].version, at |-> next]]
          /\ clock' = next
          /\ UNCHANGED <<versions, jobs, gone, unsure>>
      BY <1>4, <2>6 DEF J!Save, J!Goes, J!Written
    <3>2. /\ [version |-> jobs[j].version, at |-> next] \in [version : Nat, at : Nat]
          /\ results'[j] = [version |-> jobs[j].version, at |-> next]
          /\ tasks'[j] = "saved"
      BY <1>3, <3>1
    <3>3. JobsTyped'
      BY <3>1, <3>2
    <3>4. jobs[j].status = "running"
      BY <3>1 DEF TaskOfJob
    <3>5. J!Has(j)'
      <4> HIDE DEF JobsTyped, JobsInv
      <4>1. results'[j].at = next
        BY <3>2
      <4>2. J!NoResult.at = 0
        BY DEF J!NoResult
      <4>3. results'[j].at # J!NoResult.at
        BY <1>4, <4>1, <4>2
      <4> QED
        BY <4>3 DEF J!Has
    <3> QED
      BY <3>1, <3>2, <3>3, <3>4, <3>5 DEF TaskOfJob, RowOfJob
  <2>7. CASE J!SaveFails(j)
    BY <2>7, ZenonT(60)
       DEF J!SaveFails, J!Ends, J!Becomes, J!Goes, TaskOfJob, RowOfJob, J!Has, J!NoResult
  <2>8. CASE J!Complete(j)
    BY <2>8, ZenonT(60)
       DEF J!Complete, J!Ends, J!Becomes, J!Goes, TaskOfJob, RowOfJob, J!Has, J!NoResult
  <2>9. CASE J!LosesAnswer(j)
    BY <2>9, ZenonT(60)
       DEF J!LosesAnswer, J!Ends, J!Becomes, J!Goes, TaskOfJob, RowOfJob, J!Has, J!NoResult
  <2> QED
    BY <2>1, <2>2, <2>3, <2>4, <2>5, <2>6, <2>7, <2>8, <2>9 DEF J!Execute
<1> QED
  BY <1>2, <1>5

(* Results that are removed: some, or with their strategy all of them.     *)
LEMMA RemovedStep ==
  ASSUME JobsInv, NEW js \in SUBSET Jobs, J!Removed(js),
         versions' \in Nat, UNCHANGED <<jobs, tasks, clock, unsure>>
  PROVE  JobsInv'
<1> USE DEF JobsInv
<1>1. /\ results' = [k \in Jobs |-> IF k \in js THEN J!NoResult ELSE results[k]]
      /\ gone' = gone \union {k \in js : J!Has(k)}
  BY DEF J!Removed
<1>2. JobsTyped'
  BY <1>1 DEF JobsTyped, J!NoResult
<1>3. ASSUME NEW k \in Jobs PROVE TaskOfJob(k)' /\ RowOfJob(k)'
  <2>1. CASE k \in js
    <3>1. results'[k] = J!NoResult /\ (J!Has(k) => k \in gone') /\ gone \subseteq gone'
      BY <2>1, <1>1
    <3> QED
      BY <3>1 DEF TaskOfJob, RowOfJob, J!Has
  <2>2. CASE k \notin js
    BY <2>2, <1>1, JobStays
  <2> QED
    BY <2>1, <2>2
<1> QED
  BY <1>2, <1>3

(* After a restart nobody knows a job, and a row that was being written is *)
(* there or is not.                                                        *)
LEMMA RestartStep == JobsInv /\ J!Restart => JobsInv'
<1> SUFFICES ASSUME JobsInv, J!Restart PROVE JobsInv'
  OBVIOUS
<1> USE DEF JobsInv
<1> DEFINE writing == {j \in Jobs : tasks[j] = "saves" /\ jobs[j].version <= versions}
<1>1. PICK js \in SUBSET writing :
        /\ results' = [j \in Jobs |-> IF j \in js THEN J!Written(j)[j] ELSE results[j]]
        /\ clock' = IF js = {} THEN clock ELSE clock + 1
        /\ unsure' = unsure \union writing \union {j \in Jobs : tasks[j] = "saved"}
  BY DEF J!Restart
<1>2. /\ jobs' = [j \in Jobs |-> J!NoJob] /\ tasks' = [j \in Jobs |-> "none"]
      /\ UNCHANGED <<versions, gone>>
  BY DEF J!Restart
<1>3. \A j \in Jobs : J!Written(j)[j] \in [version : Nat, at : Nat]
  <2> TAKE j \in Jobs
  <2>1. J!Written(j)[j] = [version |-> jobs[j].version, at |-> clock + 1]
    BY DEF J!Written, JobsTyped
  <2>2. jobs[j].version \in Nat /\ clock \in Nat
    BY DEF JobsTyped
  <2>3. clock + 1 \in Nat
    BY <2>2
  <2> QED
    BY <2>1, <2>2, <2>3
<1>4. JobsTyped'
  <2>1. \A j \in Jobs : results'[j] \in [version : Nat, at : Nat]
    BY <1>1, <1>3 DEF JobsTyped
  <2>2. results' \in [Jobs -> [version : Nat, at : Nat]]
    BY <1>1, <2>1
  <2>3. clock' \in Nat /\ unsure' \subseteq Jobs
    <3>1. clock \in Nat /\ unsure \subseteq Jobs
      BY DEF JobsTyped
    <3>2. clock + 1 \in Nat
      BY <3>1
    <3> QED
      BY <1>1, <3>1, <3>2
  <2>4. /\ jobs' \in [Jobs -> [status : {"none", "pending", "running", "completed", "failed"},
                               version : Nat]]
        /\ tasks' \in [Jobs -> {"none", "starts", "looks up", "loads", "saves", "saved"}]
    BY <1>2 DEF J!NoJob
  <2> QED
    BY <1>2, <2>2, <2>3, <2>4 DEF JobsTyped
<1>5. \A j \in Jobs : TaskOfJob(j)' /\ RowOfJob(j)'
  BY <1>2 DEF TaskOfJob, RowOfJob, J!NoJob
<1> QED
  BY <1>4, <1>5

LEMMA JobsStep == JobsInv /\ [J!Next]_J!vars => JobsInv'
<1> SUFFICES ASSUME JobsInv, [J!Next]_J!vars PROVE JobsInv'
  OBVIOUS
<1>1. CASE \E j \in Jobs : J!Execute(j)
  BY <1>1, TaskStep
<1>2. CASE \E j \in Jobs : J!DeleteSavedBacktest(j)
  <2>1. PICK j \in Jobs : J!DeleteSavedBacktest(j)
    BY <1>2
  <2>2. {j} \in SUBSET Jobs
    OBVIOUS
  <2> QED
    BY <2>1, <2>2, RemovedStep DEF J!DeleteSavedBacktest, JobsInv, JobsTyped
<1>3. CASE \E j \in Jobs : \E v \in 0 .. MaxVersions : J!Submit(j, v)
  <2>1. PICK j \in Jobs : \E v \in 0 .. MaxVersions : J!Submit(j, v)
    BY <1>3
  <2>2. PICK v \in 0 .. MaxVersions : J!Submit(j, v)
    BY <2>1
  <2>3. v \in Nat
    BY ServicesAssumption DEF J!JobsAssumption
  <2>4. /\ jobs[j] = J!NoJob /\ ~J!Has(j)
        /\ jobs' = [jobs EXCEPT ![j] = [status |-> "pending",
                                        version |-> IF v = 0 THEN versions ELSE v]]
        /\ tasks' = [tasks EXCEPT ![j] = "starts"]
        /\ UNCHANGED <<versions, results, clock, gone, unsure>>
    BY <2>2 DEF J!Submit, J!Goes
  <2>5. JobsTyped'
    BY <2>3, <2>4 DEF JobsInv, JobsTyped
  <2>6. TaskOfJob(j)' /\ RowOfJob(j)'
    BY <2>4 DEF JobsInv, JobsTyped, TaskOfJob, RowOfJob, J!Has, J!NoResult
  <2>7. \A k \in Jobs : k # j => TaskOfJob(k)' /\ RowOfJob(k)'
    BY <2>4, JobStays DEF JobsInv, JobsTyped
  <2> QED
    BY <2>5, <2>6, <2>7 DEF JobsInv
<1>4. CASE \E js \in SUBSET Jobs : J!BulkDeleteBacktests(js)
  BY <1>4, RemovedStep DEF J!BulkDeleteBacktests, JobsInv, JobsTyped
<1>5. CASE J!VersionCreated
  <2>1. /\ versions' \in Nat /\ UNCHANGED <<jobs, tasks, results, clock, gone, unsure>>
    <3>1. versions \in Nat /\ versions' = versions + 1
      BY <1>5 DEF J!VersionCreated, JobsInv, JobsTyped
    <3> QED
      BY <1>5, <3>1 DEF J!VersionCreated
  <2> QED
    BY <2>1, JobStays DEF JobsInv, JobsTyped
<1>6. CASE J!StrategyDeleted
  <2>1. versions' \in Nat
    BY <1>6 DEF J!StrategyDeleted
  <2> QED
    BY <1>6, <2>1, RemovedStep DEF J!StrategyDeleted
<1>7. CASE J!Restart
  BY <1>7, RestartStep
<1>8. CASE UNCHANGED J!vars
  BY <1>8, JobStays DEF J!vars, JobsInv, JobsTyped
<1> QED
  BY <1>1, <1>2, <1>3, <1>4, <1>5, <1>6, <1>7, <1>8 DEF J!Next

LEMMA JobsInvariant == J!JobsSpec => [](JobsInv /\ J!JobsTellTheirResults)
<1>1. JobsInv => J!JobsTellTheirResults
  <2> SUFFICES ASSUME JobsInv, NEW j \in Jobs
               PROVE  /\ J!JobStatus(j) = "completed" => J!Has(j) \/ j \in gone
                      /\ J!JobStatus(j) \in {"pending", "failed"} => ~J!Has(j) \/ j \in unsure
                      /\ J!JobStatus(j) # "not found" /\ J!Has(j)
                           => results[j].version = jobs[j].version
                      /\ J!JobStatus(j) \in {"pending", "running"} <=> tasks[j] # "none"
    BY DEF J!JobsTellTheirResults
  <2>1. TaskOfJob(j) /\ RowOfJob(j)
    BY DEF JobsInv
  <2>2. CASE jobs[j] = J!NoJob
    <3>1. J!JobStatus(j) = "not found" /\ jobs[j].status = "none"
      BY <2>2 DEF J!JobStatus, J!NoJob
    <3>2. tasks[j] = "none"
      BY <2>1, <3>1 DEF TaskOfJob
    <3> QED
      BY <3>1, <3>2
  <2>3. CASE jobs[j] # J!NoJob
    BY <2>1, <2>3 DEF J!JobStatus, TaskOfJob, RowOfJob
  <2> QED
    BY <2>2, <2>3
<1> QED
  BY <1>1, JobsInit, JobsStep, PTL DEF J!JobsSpec

-----------------------------------------------------------------------------
(* The arithmetic of the indicators.  A fraction x in lowest terms is      *)
(* known by any n / d it equals (Is), what Gcd computes is known from its  *)
(* existence (GcdExists), and every sum, mean and oscillator is bounded    *)
(* value by value.                                                         *)
(* Induction, by the smallest number for which it would be wrong.          *)
LEMMA SmallestOf ==
  ASSUME NEW Bad, Bad \subseteq Nat, Bad # {}
  PROVE  \E n \in Bad : \A m \in Bad : n <= m
<1>1. PICK n \in Bad : \A m \in Bad : ~(<<m, n>> \in OpToRel(<, Nat))
  BY NatLessThanWellFounded, WFMin
<1>2. SUFFICES ASSUME NEW m \in Bad, m < n PROVE FALSE
  OBVIOUS
<1>3. <<m, n>> \in OpToRel(<, Nat)
  BY <1>2 DEF OpToRel
<1> QED
  BY <1>1, <1>3

(* What holds of 0, and of each number up to n if of the one before it.    *)
LEMMA Climb ==
  ASSUME NEW n \in Nat, NEW S, 0 \in S, \A i \in 1..n : i - 1 \in S => i \in S
  PROVE  \A i \in 0..n : i \in S
<1> DEFINE Bad == {i \in 0..n : i \notin S}
<1>1. SUFFICES ASSUME Bad # {} PROVE FALSE
  OBVIOUS
<1>2. PICK b \in Bad : \A m \in Bad : b <= m
  <2>1. Bad \subseteq Nat
    OBVIOUS
  <2> HIDE DEF Bad
  <2> QED
    BY <1>1, <2>1, SmallestOf
<1>3. b \in 0..n /\ b \notin S
  OBVIOUS
<1>4. b \in 1..n
  BY <1>3
<1>5. b - 1 \in 0..n /\ b - 1 \notin Bad
  BY <1>2, <1>4
<1> QED
  BY <1>3, <1>4, <1>5

(* A function that is given by its first value and a step from each value  *)
(* to the next exists.                                                     *)
Follows(f, a, n, g) == f[0] = a /\ \A i \in 1..n : f[i] = g[<<i, f[i - 1]>>]

LEMMA StepsExist ==
  ASSUME NEW n \in Nat, NEW X, NEW a \in X, NEW g \in [(1..n) \X X -> X]
  PROVE  \E f \in [0..n -> X] : Follows(f, a, n, g)
<1> DEFINE S == {m \in 0..n : \E f \in [0..n -> X] : Follows(f, a, m, g)}
<1>1. 0 \in S
  <2> DEFINE h == [i \in 0..n |-> a]
  <2>1. h \in [0..n -> X] /\ Follows(h, a, 0, g)
    BY DEF Follows
  <2> HIDE DEF h
  <2>2. \E f \in [0..n -> X] : Follows(f, a, 0, g)
    BY <2>1
  <2>3. 0 \in 0..n
    OBVIOUS
  <2> QED
    BY <2>2, <2>3
<1>2. ASSUME NEW m \in 1..n, m - 1 \in S PROVE m \in S
  <2>1. PICK f \in [0..n -> X] : Follows(f, a, m - 1, g)
    BY <1>2
  <2>2. m - 1 \in 0..n /\ f[m - 1] \in X
    BY <1>2
  <2>3. g[<<m, f[m - 1]>>] \in X
    BY <2>2
  <2> DEFINE h == [f EXCEPT ![m] = g[<<m, f[m - 1]>>]]
  <2>4. h \in [0..n -> X]
    BY <2>3
  <2>5. h[0] = a
    BY <1>2, <2>1 DEF Follows
  <2>6. ASSUME NEW i \in 1..m PROVE h[i] = g[<<i, h[i - 1]>>]
    <3>1. i - 1 \in 0..n /\ i \in 0..n /\ i - 1 # m
      OBVIOUS
    <3>2. h[i - 1] = f[i - 1]
      BY <3>1
    <3>3. CASE i = m
      BY <3>1, <3>2, <3>3
    <3>4. CASE i # m
      <4>1. i \in 1..(m - 1)
        BY <3>4
      <4> QED
        BY <2>1, <3>1, <3>2, <3>4, <4>1 DEF Follows
    <3> QED
      BY <3>3, <3>4
  <2>7. Follows(h, a, m, g)
    BY <2>5, <2>6 DEF Follows
  <2> HIDE DEF h
  <2>8. \E e \in [0..n -> X] : Follows(e, a, m, g)
    BY <2>4, <2>7
  <2>9. m \in 0..n
    OBVIOUS
  <2> QED
    BY <2>8, <2>9
<1> HIDE DEF S
<1>3. \A i \in 0..n : i \in S
  BY <1>1, <1>2, Climb
<1>4. n \in S
  BY <1>3
<1> QED
  BY <1>4 DEF S

-----------------------------------------------------------------------------
(* Integers.                                                               *)
LEMMA Division ==
  ASSUME NEW n \in Int, NEW d \in Nat \ {0}
  PROVE  /\ n \div d \in Int /\ n % d \in Nat /\ n % d < d
         /\ n = (n \div d) * d + (n % d)
OBVIOUS

LEMMA Grows ==
  ASSUME NEW a \in Int, NEW b \in Int, NEW c \in Nat, a <= b
  PROVE  a * c <= b * c
OBVIOUS

LEMMA DivisionIs ==
  ASSUME NEW n \in Int, NEW d \in Nat \ {0}, NEW q \in Int, NEW r \in Nat, r < d, n = q * d + r
  PROVE  n \div d = q /\ n % d = r
<1> DEFINE p == n \div d
           s == n % d
<1>1. p \in Int /\ s \in Nat /\ s < d /\ n = p * d + s
  BY Division
<1> HIDE DEF p, s
<1>2. (p - q) * d = r - s
  BY <1>1
<1>3. CASE p - q >= 1
  <2>1. 1 * d <= (p - q) * d
    BY <1>1, <1>3, Grows
  <2> QED
    BY <1>1, <1>2, <2>1
<1>4. CASE q - p >= 1
  <2>1. 1 * d <= (q - p) * d
    BY <1>1, <1>4, Grows
  <2>2. (q - p) * d = s - r
    BY <1>1
  <2> QED
    BY <1>1, <2>2, <2>1
<1>5. p = q
  BY <1>1, <1>3, <1>4
<1>6. s = r
  BY <1>1, <1>5
<1> QED
  BY <1>5, <1>6 DEF p, s

(* Equal products of positive numbers.                                     *)
LEMMA Cancels ==
  ASSUME NEW a \in Int, NEW b \in Int, NEW c \in Nat \ {0}, a * c = b * c
  PROVE  a = b
<1>1. CASE a - b >= 1
  <2>1. 1 * c <= (a - b) * c
    BY <1>1, Grows
  <2> QED
    BY <2>1
<1>2. CASE b - a >= 1
  <2>1. 1 * c <= (b - a) * c
    BY <1>2, Grows
  <2> QED
    BY <2>1
<1> QED
  BY <1>1, <1>2

LEMMA CancelsOrder ==
  ASSUME NEW a \in Int, NEW b \in Int, NEW c \in Nat \ {0}, a * c <= b * c
  PROVE  a <= b
<1>1. CASE a - b >= 1
  <2>1. 1 * c <= (a - b) * c
    BY <1>1, Grows
  <2> QED
    BY <2>1
<1> QED
  BY <1>1

-----------------------------------------------------------------------------
(* The greatest common divisor.                                            *)
Pairs == Nat \X Nat

GcdBody(f) == [x \in Nat \X Nat |-> IF x[2] = 0 THEN x[1] ELSE f[<<x[2], x[1] % x[2]>>]]

(* A function that computes it: from one stage to the next, it is right of *)
(* one more second argument.                                               *)
GcdStages(e) ==
  /\ e \in [Nat -> [Pairs -> Nat]]
  /\ \A k \in Nat : e[k + 1] = GcdBody(e[k])

Stage0 == [x \in Pairs |-> x[1]]

(* Stages up to any number exist, so all of them do.                       *)
StagesTo(e, k) ==
  /\ e \in [0..k -> [Pairs -> Nat]]
  /\ e[0] = Stage0
  /\ \A i \in 1..k : e[i] = GcdBody(e[i - 1])

LEMMA GcdBodyType ==
  ASSUME NEW f \in [Pairs -> Nat]
  PROVE  GcdBody(f) \in [Pairs -> Nat]
<1>1. ASSUME NEW m \in Nat, NEW n \in Nat PROVE (IF n = 0 THEN m ELSE f[<<n, m % n>>]) \in Nat
  <2>1. CASE n = 0
    BY <2>1
  <2>2. CASE n # 0
    <3>1. m % n \in Nat
      BY <2>2, Division
    <3>2. <<n, m % n>> \in Pairs
      BY <3>1 DEF Pairs
    <3> QED
      BY <2>2, <3>2
  <2> QED
    BY <2>1, <2>2
<1> QED
  BY <1>1 DEF GcdBody, Pairs

LEMMA StagesExist ==
  ASSUME NEW k \in Nat
  PROVE  \E e : StagesTo(e, k)
<1> DEFINE X == [Pairs -> Nat]
           g == [x \in (1..k) \X X |-> GcdBody(x[2])]
<1>1. Stage0 \in X
  BY DEF Stage0, Pairs
<1>2. g \in [(1..k) \X X -> X]
  BY GcdBodyType
<1>3. \A i \in 1..k, f \in X : g[<<i, f>>] = GcdBody(f)
  OBVIOUS
<1> HIDE DEF g
<1>4. PICK e \in [0..k -> X] : Follows(e, Stage0, k, g)
  <2> HIDE DEF X
  <2> QED
    BY <1>1, <1>2, StepsExist, Zenon
<1>5. ASSUME NEW i \in 1..k PROVE e[i] = GcdBody(e[i - 1])
  <2>1. i - 1 \in 0..k
    OBVIOUS
  <2>2. e[i - 1] \in X
    BY <2>1
  <2> HIDE DEF X
  <2>3. e[i] = g[<<i, e[i - 1]>>]
    BY <1>4 DEF Follows
  <2> QED
    BY <1>3, <2>2, <2>3
<1>6. StagesTo(e, k)
  BY <1>4, <1>5 DEF StagesTo, Follows
<1> QED
  BY <1>6

(* Two runs of stages agree.                                               *)
LEMMA StagesAgree ==
  ASSUME NEW k \in Nat, NEW h \in Nat, NEW d, NEW e, StagesTo(d, k), StagesTo(e, h), k <= h
  PROVE  \A i \in 0..k : d[i] = e[i]
<1> DEFINE S == {i \in 0..k : d[i] = e[i]}
<1>1. 0 \in S
  BY DEF StagesTo
<1>2. ASSUME NEW i \in 1..k, i - 1 \in S PROVE i \in S
  <2>1. i \in 1..h /\ i \in 0..k /\ d[i - 1] = e[i - 1]
    BY <1>2
  <2>2. d[i] = GcdBody(d[i - 1]) /\ e[i] = GcdBody(e[i - 1])
    BY <2>1 DEF StagesTo
  <2> QED
    BY <2>1, <2>2
<1> HIDE DEF S
<1>3. \A i \in 0..k : i \in S
  BY <1>1, <1>2, Climb
<1> QED
  BY <1>3 DEF S

(* What the stages say of a pair, as soon as there are enough of them.     *)
LEMMA StagesSettle ==
  ASSUME NEW k \in Nat, NEW e, StagesTo(e, k)
  PROVE  \A n \in Nat : \A i \in 1..k, m \in Nat : n < i => e[i][<<m, n>>] = e[n + 1][<<m, n>>]
<1> DEFINE Bad == {n \in Nat : \E i \in 1..k, m \in Nat : n < i
             /\ e[i][<<m, n>>] # e[n + 1][<<m, n>>]}
<1>1. SUFFICES ASSUME Bad # {} PROVE FALSE
  OBVIOUS
<1>2. PICK n \in Bad : \A j \in Bad : n <= j
  <2>1. Bad \subseteq Nat
    OBVIOUS
  <2> HIDE DEF Bad
  <2> QED
    BY <1>1, <2>1, SmallestOf
<1>3. n \in Nat
  OBVIOUS
<1>4. PICK i \in 1..k, m \in Nat : n < i /\ e[i][<<m, n>>] # e[n + 1][<<m, n>>]
  OBVIOUS
<1>5. ASSUME NEW j \in 1..k, n < j
      PROVE  e[j][<<m, n>>] = IF n = 0 THEN m ELSE e[j - 1][<<n, m % n>>]
  <2>1. e[j] = GcdBody(e[j - 1])
    BY DEF StagesTo
  <2>2. <<m, n>> \in Nat \X Nat
    BY <1>3
  <2> QED
    BY <2>1, <2>2 DEF GcdBody
<1>6. n + 1 \in 1..k
  BY <1>3, <1>4
<1>7. CASE n = 0
  BY <1>4, <1>5, <1>6, <1>7
<1>8. CASE n # 0
  <2> DEFINE r == m % n
  <2>1. r \in Nat /\ r < n
    BY <1>3, <1>8, Division
  <2>2. r \notin Bad
    BY <1>2, <1>3, <2>1
  <2> HIDE DEF r
  <2>3. \A j \in 1..k : r < j => e[j][<<n, r>>] = e[r + 1][<<n, r>>]
    BY <1>3, <2>1, <2>2
  <2>4. i - 1 \in 1..k /\ n \in 1..k /\ r < i - 1
    BY <1>3, <1>4, <1>8, <2>1
  <2>5. e[i - 1][<<n, r>>] = e[n][<<n, r>>]
    BY <2>1, <2>3, <2>4
  <2>6. e[i][<<m, n>>] = e[i - 1][<<n, r>>]
    BY <1>4, <1>5, <1>8 DEF r
  <2>7. e[n + 1][<<m, n>>] = e[n][<<n, r>>]
    BY <1>3, <1>5, <1>6, <1>8 DEF r
  <2> QED
    BY <1>4, <2>5, <2>6, <2>7
<1> QED
  BY <1>7, <1>8

LEMMA GcdExists ==
  \E f \in [Pairs -> Nat] : f = GcdBody(f)
<1> DEFINE E == [k \in Nat |-> CHOOSE e : StagesTo(e, k)]
           f == [x \in Pairs |-> E[x[2] + 1][x[2] + 1][x]]
<1>1. \A k \in Nat : StagesTo(E[k], k)
  BY StagesExist
<1> HIDE DEF E
<1>2. \A k \in Nat : \A i \in 0..k : E[k][i] \in [Pairs -> Nat]
  BY <1>1 DEF StagesTo
<1>3. f \in [Pairs -> Nat]
  <2>1. SUFFICES ASSUME NEW x \in Pairs PROVE E[x[2] + 1][x[2] + 1][x] \in Nat
    OBVIOUS
  <2>2. x[2] + 1 \in Nat /\ x[2] + 1 \in 0..x[2] + 1
    BY DEF Pairs
  <2> QED
    BY <1>2, <2>2
<1>4. ASSUME NEW m \in Nat, NEW n \in Nat
      PROVE f[<<m, n>>] = IF n = 0 THEN m ELSE f[<<n, m % n>>]
  <2>1. <<m, n>> \in Pairs /\ f[<<m, n>>] = E[n + 1][n + 1][<<m, n>>]
    BY DEF Pairs
  <2>2. n + 1 \in Nat /\ n + 1 \in 1..n + 1 /\ (n + 1) - 1 = n
    OBVIOUS
  <2>3. E[n + 1][n + 1] = GcdBody(E[n + 1][n])
    BY <1>1, <2>2 DEF StagesTo
  <2>4. E[n + 1][n + 1][<<m, n>>] = IF n = 0 THEN m ELSE E[n + 1][n][<<n, m % n>>]
    BY <2>3 DEF GcdBody
  <2>5. CASE n = 0
    BY <2>1, <2>4, <2>5
  <2>6. CASE n # 0
    <3> DEFINE r == m % n
    <3>1. r \in Nat /\ r < n
      BY <2>6, Division
    <3>2. <<n, r>> \in Pairs /\ f[<<n, r>>] = E[r + 1][r + 1][<<n, r>>]
      BY <3>1 DEF Pairs
    <3>3. E[n + 1][n + 1][<<m, n>>] = E[n + 1][n][<<n, r>>]
      BY <2>4, <2>6
    <3> HIDE DEF r, f
    <3>4. E[n + 1][n][<<n, r>>] = E[n + 1][r + 1][<<n, r>>]
      <4>1. n \in 1..n + 1
        BY <2>6
      <4> QED
        BY <1>1, <2>2, <3>1, <4>1, StagesSettle
    <3>5. E[n + 1][r + 1] = E[r + 1][r + 1]
      <4>1. r + 1 \in Nat /\ r + 1 <= n + 1 /\ r + 1 \in 0..r + 1
        BY <3>1
      <4>2. StagesTo(E[r + 1], r + 1) /\ StagesTo(E[n + 1], n + 1)
        BY <1>1, <2>2, <4>1
      <4> QED
        BY <2>2, <4>1, <4>2, StagesAgree
    <3> QED
      BY <2>1, <2>6, <3>2, <3>3, <3>4, <3>5 DEF r
  <2> QED
    BY <2>5, <2>6
<1> HIDE DEF f
<1>5. \A x \in Pairs : f[x] = GcdBody(f)[x]
  BY <1>4 DEF GcdBody, Pairs
<1>6. f = GcdBody(f)
  <2>1. DOMAIN GcdBody(f) = Pairs
    BY DEF GcdBody, Pairs
  <2>2. GcdBody(f) \in [Pairs -> Nat]
    BY <1>3, GcdBodyType
  <2> QED
    BY <1>3, <1>5, <2>2
<1> QED
  BY <1>3, <1>6

LEMMA GcdIs ==
  /\ \A m \in Nat : I!Gcd[<<m, 0>>] = m
  /\ \A m \in Nat, n \in Nat \ {0} : I!Gcd[<<m, n>>] = I!Gcd[<<n, m % n>>]
<1>1. \E f : f = GcdBody(f)
  BY GcdExists
<1>2. I!Gcd = CHOOSE f : f = GcdBody(f)
  BY DEF I!Gcd, GcdBody
<1>3. I!Gcd = GcdBody(I!Gcd)
  BY <1>1, <1>2
<1>4. \A m \in Nat, n \in Nat : I!Gcd[<<m, n>>] = IF n = 0 THEN m ELSE I!Gcd[<<n, m % n>>]
  BY <1>3 DEF GcdBody
<1> QED
  BY <1>4

LEMMA GcdTyped ==
  I!Gcd \in [Pairs -> Nat]
<1>1. \E f : f = GcdBody(f)
  BY GcdExists
<1>2. I!Gcd = CHOOSE f : f = GcdBody(f)
  BY DEF I!Gcd, GcdBody
<1>3. I!Gcd = GcdBody(I!Gcd)
  BY <1>1, <1>2
<1>4. \A x \in Pairs : I!Gcd[x] \in Nat
  <2> DEFINE Bad == {n \in Nat : \E m \in Nat : I!Gcd[<<m, n>>] \notin Nat}
  <2>1. SUFFICES Bad = {}
    <3>1. SUFFICES ASSUME Bad = {}, NEW x \in Pairs PROVE I!Gcd[x] \in Nat
      OBVIOUS
    <3>2. x[1] \in Nat /\ x[2] \in Nat /\ x = <<x[1], x[2]>>
      BY DEF Pairs
    <3> QED
      BY <3>1, <3>2
  <2>2. SUFFICES ASSUME Bad # {} PROVE FALSE
    OBVIOUS
  <2>3. PICK n \in Bad : \A j \in Bad : n <= j
    <3>1. Bad \subseteq Nat
      OBVIOUS
    <3> HIDE DEF Bad
    <3> QED
      BY <2>2, <3>1, SmallestOf
  <2>4. n \in Nat
    OBVIOUS
  <2>5. PICK m \in Nat : I!Gcd[<<m, n>>] \notin Nat
    OBVIOUS
  <2>6. n # 0
    BY <2>5, GcdIs
  <2>7. I!Gcd[<<m, n>>] = I!Gcd[<<n, m % n>>] /\ m % n \in Nat /\ m % n < n
    BY <2>4, <2>6, GcdIs, Division
  <2>8. m % n \in Bad
    BY <2>4, <2>5, <2>7
  <2> QED
    BY <2>3, <2>4, <2>7, <2>8
<1>5. DOMAIN I!Gcd = Pairs /\ I!Gcd = [x \in Pairs |-> I!Gcd[x]]
  BY <1>3 DEF GcdBody, Pairs
<1> QED
  BY <1>4, <1>5

(* It is positive unless both numbers are 0, divides both, and grows with  *)
(* them.                                                                   *)
GcdGood(m, n) ==
  /\ (m > 0 \/ n > 0) => I!Gcd[<<m, n>>] > 0
  /\ \E q \in Nat : m = q * I!Gcd[<<m, n>>]
  /\ \E q \in Nat : n = q * I!Gcd[<<m, n>>]
  /\ \A k \in Nat \ {0} : I!Gcd[<<k * m, k * n>>] = k * I!Gcd[<<m, n>>]

LEMMA GcdOfZero ==
  ASSUME NEW m \in Nat
  PROVE  GcdGood(m, 0)
<1>1. I!Gcd[<<m, 0>>] = m
  BY GcdIs
<1>2. m = 1 * m /\ 0 = 0 * m
  OBVIOUS
<1>3. \A k \in Nat \ {0} : I!Gcd[<<k * m, k * 0>>] = k * m
  <2>1. SUFFICES ASSUME NEW k \in Nat \ {0} PROVE I!Gcd[<<k * m, k * 0>>] = k * m
    OBVIOUS
  <2>2. k * 0 = 0 /\ k * m \in Nat
    OBVIOUS
  <2> QED
    BY <2>2, GcdIs
<1> QED
  BY <1>1, <1>2, <1>3 DEF GcdGood

(* A factor of both numbers is one of what remains.                        *)
LEMMA RemainderGrows ==
  ASSUME NEW m \in Nat, NEW n \in Nat \ {0}, NEW k \in Nat \ {0}
  PROVE  /\ k * n \in Nat \ {0} /\ k * m \in Nat
         /\ (k * m) % (k * n) = k * (m % n)
<1> DEFINE q == m \div n
           r == m % n
<1>1. q \in Int /\ r \in Nat /\ r < n /\ m = q * n + r
  BY Division
<1> HIDE DEF q, r
<1>2. 1 * k <= n * k
  BY Grows
<1>3. k * n \in Nat \ {0} /\ k * m \in Nat
  BY <1>2
<1>4. k * m = q * (k * n) + k * r
  BY <1>1
<1>5. k * r \in Nat
  BY <1>1
<1>6. k * r < k * n
  <2>1. (r + 1) * k <= n * k
    BY <1>1, Grows
  <2> QED
    BY <1>1, <2>1
<1>7. k * m \in Int
  BY <1>3
<1>8. (k * m) % (k * n) = k * r
  BY <1>1, <1>3, <1>4, <1>5, <1>6, <1>7, DivisionIs
<1> QED
  BY <1>3, <1>8 DEF r

LEMMA GcdOfMore ==
  ASSUME NEW m \in Nat, NEW n \in Nat \ {0}, GcdGood(n, m % n)
  PROVE  GcdGood(m, n)
<1> DEFINE q == m \div n
           r == m % n
           g == I!Gcd[<<m, n>>]
<1>1. q \in Int /\ r \in Nat /\ r < n /\ m = q * n + r
  BY Division
<1>2. g = I!Gcd[<<n, r>>]
  BY GcdIs
<1>3. g \in Nat
  BY GcdTyped DEF Pairs
<1>4. q \in Nat
  <2>1. CASE q + 1 <= 0
    <3> HIDE DEF q, r
    <3>1. (q + 1) * n <= 0 * n
      BY <1>1, <2>1, Grows
    <3> QED
      BY <1>1, <3>1
  <2> QED
    BY <1>1, <2>1
<1>5. GcdGood(n, r)
  OBVIOUS
<1> HIDE DEF q, r
<1>6. PICK a \in Nat : n = a * g
  BY <1>2, <1>5 DEF GcdGood
<1>7. PICK b \in Nat : r = b * g
  BY <1>2, <1>5 DEF GcdGood
<1>8. g > 0
  BY <1>2, <1>5 DEF GcdGood
<1>9. m = (q * a + b) * g /\ q * a + b \in Nat
  <2> HIDE DEF g
  <2>1. m = q * (a * g) + b * g
    BY <1>1, <1>6, <1>7
  <2>2. q * (a * g) + b * g = (q * a + b) * g
    BY <1>3, <1>4
  <2> QED
    BY <1>4, <2>1, <2>2
<1>10. ASSUME NEW k \in Nat \ {0} PROVE I!Gcd[<<k * m, k * n>>] = k * g
  <2>1. k * n \in Nat \ {0} /\ k * m \in Nat /\ (k * m) % (k * n) = k * r
    BY RemainderGrows DEF r
  <2>2. I!Gcd[<<k * m, k * n>>] = I!Gcd[<<k * n, k * r>>]
    BY <2>1, GcdIs
  <2> QED
    BY <1>2, <1>5, <2>2 DEF GcdGood
<1> HIDE DEF g
<1>11. (\E c \in Nat : m = c * g) /\ (\E c \in Nat : n = c * g)
  BY <1>6, <1>9
<1> QED
  BY <1>8, <1>10, <1>11 DEF GcdGood, g

LEMMA GcdIsGood ==
  \A m, n \in Nat : GcdGood(m, n)
<1> DEFINE Bad == {n \in Nat : \E m \in Nat : ~GcdGood(m, n)}
<1>1. SUFFICES ASSUME Bad # {} PROVE FALSE
  OBVIOUS
<1>2. PICK n \in Bad : \A j \in Bad : n <= j
  <2>1. Bad \subseteq Nat
    OBVIOUS
  <2> HIDE DEF Bad
  <2> QED
    BY <1>1, <2>1, SmallestOf
<1>3. n \in Nat
  OBVIOUS
<1>4. PICK m \in Nat : ~GcdGood(m, n)
  OBVIOUS
<1>5. n # 0
  BY <1>4, GcdOfZero
<1>6. m % n \in Nat /\ m % n < n
  BY <1>3, <1>5, Division
<1>7. m % n \notin Bad
  BY <1>2, <1>3, <1>6
<1>8. GcdGood(n, m % n)
  BY <1>3, <1>6, <1>7
<1> QED
  BY <1>3, <1>4, <1>5, <1>8, GcdOfMore

-----------------------------------------------------------------------------
(* Fractions: pairs with a positive denominator, and those of them that    *)
(* are in lowest terms.                                                    *)
Fr == Int \X (Nat \ {0})
Q  == {x \in Fr : I!Ratio(x[1], x[2]) = x}

LEMMA FrIs ==
  ASSUME NEW x \in Fr
  PROVE  /\ x[1] \in Int /\ x[2] \in Nat /\ x[2] > 0 /\ x = <<x[1], x[2]>>
         /\ x # I!None
BY DEF Fr, I!None

LEMMA QIs ==
  ASSUME NEW x \in Q
  PROVE  /\ x \in Fr /\ x[1] \in Int /\ x[2] \in Nat /\ x[2] > 0 /\ x # I!None
         /\ I!Ratio(x[1], x[2]) = x
<1>1. x \in Fr /\ I!Ratio(x[1], x[2]) = x
  BY DEF Q
<1> QED
  BY <1>1, FrIs

LEMMA AbsIs ==
  ASSUME NEW n \in Int
  PROVE  /\ I!Abs(n) \in Nat /\ (n = I!Abs(n) \/ n = -I!Abs(n))
         /\ \A k \in Nat \ {0} : I!Abs(k * n) = k * I!Abs(n) /\ k * n \in Int
<1>1. I!Abs(n) \in Nat /\ (n = I!Abs(n) \/ n = -I!Abs(n))
  BY DEF I!Abs
<1>2. ASSUME NEW k \in Nat \ {0} PROVE I!Abs(k * n) = k * I!Abs(n) /\ k * n \in Int
  <2>1. CASE n < 0
    <3>1. (n + 1) * k <= 0 * k
      BY <2>1, Grows
    <3>2. k * n < 0
      BY <3>1
    <3>3. I!Abs(k * n) = -(k * n) /\ I!Abs(n) = -n
      BY <2>1, <3>2 DEF I!Abs
    <3> QED
      BY <3>3
  <2>2. CASE n >= 0
    <3>1. 0 * k <= n * k
      BY <2>2, Grows
    <3>2. ~(k * n < 0)
      BY <3>1
    <3>3. I!Abs(k * n) = k * n /\ I!Abs(n) = n
      BY <2>2, <3>2 DEF I!Abs
    <3> QED
      BY <3>3
  <2> QED
    BY <2>1, <2>2
<1> QED
  BY <1>1, <1>2

(* What a fraction is in lowest terms.                                     *)
LEMMA RatioIs ==
  ASSUME NEW n \in Int, NEW d \in Nat \ {0}
  PROVE  \E g \in Nat \ {0}, q \in Int, r \in Nat \ {0} :
           /\ n = q * g /\ d = r * g /\ g = I!Gcd[<<I!Abs(n), d>>] /\ I!Ratio(n, d) = <<q, r>>
<1> DEFINE g == I!Gcd[<<I!Abs(n), d>>]
<1>1. I!Abs(n) \in Nat /\ (n = I!Abs(n) \/ n = -I!Abs(n))
  BY AbsIs
<1>2. GcdGood(I!Abs(n), d)
  BY <1>1, GcdIsGood
<1>3. g \in Nat
  BY <1>1, GcdTyped DEF Pairs
<1>4. PICK a \in Nat : I!Abs(n) = a * g
  BY <1>2 DEF GcdGood
<1>5. PICK r \in Nat : d = r * g
  BY <1>2 DEF GcdGood
<1>6. g > 0
  BY <1>2 DEF GcdGood
<1>7. I!Ratio(n, d) = <<n \div g, d \div g>>
  BY DEF I!Ratio
<1> HIDE DEF g
<1>8. PICK q \in Int : n = q * g
  <2>1. n = a * g \/ n = (-a) * g
    BY <1>1, <1>3, <1>4
  <2> QED
    BY <2>1
<1>9. r # 0
  BY <1>3, <1>5
<1>10. n \div g = q
  <2>1. n = q * g + 0
    BY <1>3, <1>8
  <2> QED
    BY <1>3, <1>6, <2>1, DivisionIs
<1>11. d \div g = r
  <2>1. d = r * g + 0
    BY <1>3, <1>5
  <2> QED
    BY <1>3, <1>6, <2>1, DivisionIs
<1>12. g \in Nat \ {0} /\ r \in Nat \ {0} /\ I!Ratio(n, d) = <<q, r>>
  BY <1>3, <1>6, <1>7, <1>9, <1>10, <1>11
<1> QED
  BY <1>5, <1>8, <1>12 DEF g

LEMMA RatioScales ==
  ASSUME NEW n \in Int, NEW d \in Nat \ {0}, NEW k \in Nat \ {0}
  PROVE  I!Ratio(k * n, k * d) = I!Ratio(n, d) /\ k * n \in Int /\ k * d \in Nat \ {0}
<1>1. PICK g \in Nat \ {0}, q \in Int, r \in Nat \ {0} :
        n = q * g /\ d = r * g /\ g = I!Gcd[<<I!Abs(n), d>>] /\ I!Ratio(n, d) = <<q, r>>
  BY RatioIs
<1>2. k * g \in Nat \ {0} /\ k * n \in Int /\ k * d \in Nat \ {0}
  <2>1. 1 * k <= g * k
    BY Grows
  <2>2. 1 * k <= d * k
    BY Grows
  <2> QED
    BY <2>1, <2>2
<1>3. I!Gcd[<<I!Abs(k * n), k * d>>] = k * g
  <2>1. I!Abs(n) \in Nat /\ I!Abs(k * n) = k * I!Abs(n)
    BY AbsIs
  <2>2. GcdGood(I!Abs(n), d)
    BY <2>1, GcdIsGood
  <2> QED
    BY <1>1, <2>1, <2>2 DEF GcdGood
<1>4. I!Ratio(k * n, k * d) = <<(k * n) \div (k * g), (k * d) \div (k * g)>>
  BY <1>3 DEF I!Ratio
<1>5. (k * n) \div (k * g) = q
  <2>1. k * n = q * (k * g) + 0
    BY <1>1
  <2> QED
    BY <1>2, <2>1, DivisionIs
<1>6. (k * d) \div (k * g) = r
  <2>1. k * d = r * (k * g) + 0
    BY <1>1
  <2>2. k * d \in Int
    BY <1>2
  <2> QED
    BY <1>2, <2>1, <2>2, DivisionIs
<1> QED
  BY <1>1, <1>2, <1>4, <1>5, <1>6

(* Equal fractions have the same lowest terms.                             *)
LEMMA RatioSame ==
  ASSUME NEW n \in Int, NEW d \in Nat \ {0}, NEW m \in Int, NEW e \in Nat \ {0}, n * e = m * d
  PROVE  I!Ratio(n, d) = I!Ratio(m, e)
<1>1. I!Ratio(e * n, e * d) = I!Ratio(n, d)
  BY RatioScales
<1>2. I!Ratio(d * m, d * e) = I!Ratio(m, e)
  BY RatioScales
<1>3. e * n = d * m /\ e * d = d * e
  OBVIOUS
<1> QED
  BY <1>1, <1>2, <1>3

(* Lowest terms are a fraction of the same value.                          *)
LEMMA RatioType ==
  ASSUME NEW n \in Int, NEW d \in Nat \ {0}
  PROVE  I!Ratio(n, d) \in Q /\ n * I!Ratio(n, d)[2] = I!Ratio(n, d)[1] * d
<1>1. PICK g \in Nat \ {0}, q \in Int, r \in Nat \ {0} :
        n = q * g /\ d = r * g /\ g = I!Gcd[<<I!Abs(n), d>>] /\ I!Ratio(n, d) = <<q, r>>
  BY RatioIs
<1>2. n * r = q * d
  BY <1>1
<1>3. I!Ratio(q, r) = I!Ratio(n, d)
  BY <1>2, RatioSame
<1> QED
  BY <1>1, <1>2, <1>3 DEF Q, Fr

LEMMA SameValue ==
  ASSUME NEW x \in Q, NEW y \in Q, x[1] * y[2] = y[1] * x[2]
  PROVE  x = y
<1>1. x[1] \in Int /\ x[2] \in Nat \ {0} /\ y[1] \in Int /\ y[2] \in Nat \ {0}
  BY QIs
<1>2. I!Ratio(x[1], x[2]) = I!Ratio(y[1], y[2])
  BY <1>1, RatioSame
<1> QED
  BY <1>2, QIs

-----------------------------------------------------------------------------
(* x has the value n / d.                                                  *)
Is(x, n, d) == x[1] * d = n * x[2]

LEMMA Positive ==
  ASSUME NEW b \in Nat \ {0}, NEW d \in Nat \ {0}
  PROVE  b * d \in Nat \ {0}
<1>1. 1 * d <= b * d
  BY Grows
<1> QED
  BY <1>1

LEMMA IsItself ==
  ASSUME NEW x \in Fr
  PROVE  Is(x, x[1], x[2]) /\ x[1] \in Int /\ x[2] \in Nat \ {0}
<1>1. x[1] \in Int /\ x[2] \in Nat /\ x[2] > 0
  BY FrIs
<1> QED
  BY <1>1 DEF Is

LEMMA IsLowest ==
  ASSUME NEW x \in Q, NEW n \in Int, NEW d \in Nat \ {0}, Is(x, n, d)
  PROVE  x = I!Ratio(n, d)
<1> DEFINE a == x[1]
           b == x[2]
<1>1. a \in Int /\ b \in Nat \ {0} /\ I!Ratio(a, b) = x
  BY QIs
<1>2. a * d = n * b
  BY DEF Is
<1> HIDE DEF a, b
<1>3. I!Ratio(a, b) = I!Ratio(n, d)
  BY <1>1, <1>2, RatioSame
<1> QED
  BY <1>1, <1>3

LEMMA IsUnique ==
  ASSUME NEW x \in Q, NEW y \in Q, NEW n \in Int, NEW d \in Nat \ {0}, Is(x, n, d), Is(y, n, d)
  PROVE  x = y
<1>1. x = I!Ratio(n, d)
  BY IsLowest
<1>2. y = I!Ratio(n, d)
  BY IsLowest
<1> QED
  BY <1>1, <1>2

LEMMA IsRatio ==
  ASSUME NEW n \in Int, NEW d \in Nat \ {0}
  PROVE  I!Ratio(n, d) \in Q /\ Is(I!Ratio(n, d), n, d)
BY RatioType DEF Is

(* x / y multiplied by products that are equal.                            *)
LEMMA IsThrough ==
  ASSUME NEW s \in Q, NEW n \in Int, NEW e \in Nat \ {0}, Is(s, n, e),
         NEW m \in Int, NEW d \in Nat \ {0}, n * d = m * e
  PROVE  Is(s, m, d)
<1>1. s[1] \in Int /\ s[2] \in Nat \ {0}
  BY QIs
<1> DEFINE a == s[1]
           b == s[2]
<1>2. a * e = n * b
  BY DEF Is
<1>3. a \in Int /\ b \in Nat \ {0}
  BY <1>1
<1> HIDE DEF a, b
<1>4. (a * d) * e = (m * b) * e
  <2>1. (a * d) * e = (a * e) * d
    BY <1>3
  <2>2. (n * b) * d = (n * d) * b
    BY <1>3
  <2>3. (m * e) * b = (m * b) * e
    BY <1>3
  <2> QED
    BY <1>2, <2>1, <2>2, <2>3
<1>5. a * d = m * b
  BY <1>3, <1>4, Cancels
<1> QED
  BY <1>5 DEF Is, a, b

LEMMA PlusIs ==
  ASSUME NEW x \in Fr, NEW y \in Fr, NEW a \in Int, NEW b \in Nat \ {0}, NEW c \in Int,
         NEW d \in Nat \ {0},
         Is(x, a, b), Is(y, c, d)
  PROVE  I!Plus(x, y) \in Q /\ Is(I!Plus(x, y), a * d + c * b, b * d)
<1> DEFINE x1 == x[1]
           x2 == x[2]
           y1 == y[1]
           y2 == y[2]
<1>1. x1 \in Int /\ x2 \in Nat \ {0} /\ y1 \in Int /\ y2 \in Nat \ {0}
  BY FrIs
<1>2. I!Plus(x, y) = I!Ratio(x1 * y2 + y1 * x2, x2 * y2)
  BY FrIs DEF I!Plus
<1>3. x1 * b = a * x2 /\ y1 * d = c * y2
  BY DEF Is
<1> HIDE DEF x1, x2, y1, y2
<1>4. x2 * y2 \in Nat \ {0} /\ b * d \in Nat \ {0}
  BY <1>1, Positive
<1>5. x1 * y2 + y1 * x2 \in Int /\ a * d + c * b \in Int
  BY <1>1
<1>6. I!Plus(x, y) \in Q /\ Is(I!Plus(x, y), x1 * y2 + y1 * x2, x2 * y2)
  BY <1>2, <1>4, <1>5, IsRatio
<1>7. (x1 * y2 + y1 * x2) * (b * d) = (a * d + c * b) * (x2 * y2)
  <2>1. (x1 * y2 + y1 * x2) * (b * d) = (x1 * b) * (y2 * d) + (y1 * d) * (x2 * b)
    BY <1>1
  <2>2. (a * x2) * (y2 * d) + (c * y2) * (x2 * b) = (a * d + c * b) * (x2 * y2)
    BY <1>1
  <2> QED
    BY <1>3, <2>1, <2>2
<1> QED
  BY <1>4, <1>5, <1>6, <1>7, IsThrough

LEMMA TimesIs ==
  ASSUME NEW x \in Fr, NEW y \in Fr, NEW a \in Int, NEW b \in Nat \ {0}, NEW c \in Int,
         NEW d \in Nat \ {0},
         Is(x, a, b), Is(y, c, d)
  PROVE  I!Times(x, y) \in Q /\ Is(I!Times(x, y), a * c, b * d)
<1> DEFINE x1 == x[1]
           x2 == x[2]
           y1 == y[1]
           y2 == y[2]
<1>1. x1 \in Int /\ x2 \in Nat \ {0} /\ y1 \in Int /\ y2 \in Nat \ {0}
  BY FrIs
<1>2. I!Times(x, y) = I!Ratio(x1 * y1, x2 * y2)
  BY FrIs DEF I!Times
<1>3. x1 * b = a * x2 /\ y1 * d = c * y2
  BY DEF Is
<1> HIDE DEF x1, x2, y1, y2
<1>4. x2 * y2 \in Nat \ {0} /\ b * d \in Nat \ {0}
  BY <1>1, Positive
<1>5. x1 * y1 \in Int /\ a * c \in Int
  BY <1>1
<1>6. I!Times(x, y) \in Q /\ Is(I!Times(x, y), x1 * y1, x2 * y2)
  BY <1>2, <1>4, <1>5, IsRatio
<1>7. (x1 * y1) * (b * d) = (a * c) * (x2 * y2)
  <2>1. (x1 * y1) * (b * d) = (x1 * b) * (y1 * d)
    BY <1>1
  <2>2. (a * x2) * (c * y2) = (a * c) * (x2 * y2)
    BY <1>1
  <2> QED
    BY <1>3, <2>1, <2>2
<1> QED
  BY <1>4, <1>5, <1>6, <1>7, IsThrough

LEMMA MinusIs ==
  ASSUME NEW x \in Fr, NEW y \in Fr, NEW a \in Int, NEW b \in Nat \ {0}, NEW c \in Int,
         NEW d \in Nat \ {0},
         Is(x, a, b), Is(y, c, d)
  PROVE  I!Minus(x, y) \in Q /\ Is(I!Minus(x, y), a * d - c * b, b * d)
<1> DEFINE z == <<-y[1], y[2]>>
<1>1. y[1] \in Int /\ y[2] \in Nat \ {0}
  BY FrIs
<1>2. z \in Fr /\ z[1] = -y[1] /\ z[2] = y[2]
  BY <1>1 DEF Fr
<1>3. Is(z, -c, d)
  <2>1. y[1] * d = c * y[2]
    BY DEF Is
  <2>2. (-y[1]) * d = -(y[1] * d) /\ (-c) * y[2] = -(c * y[2])
    BY <1>1
  <2> QED
    BY <1>2, <2>1, <2>2 DEF Is
<1>4. I!Minus(x, y) = I!Plus(x, z)
  BY DEF I!Minus
<1> HIDE DEF z
<1>5. I!Plus(x, z) \in Q /\ Is(I!Plus(x, z), a * d + (-c) * b, b * d)
  <2>1. -c \in Int
    OBVIOUS
  <2> QED
    BY <1>2, <1>3, <2>1, PlusIs
<1>6. a * d + (-c) * b = a * d - c * b
  OBVIOUS
<1> QED
  BY <1>4, <1>5, <1>6

LEMMA OverIs ==
  ASSUME NEW x \in Fr, NEW a \in Int, NEW b \in Nat \ {0}, NEW n \in Nat \ {0}, Is(x, a, b)
  PROVE  I!Over(x, n) \in Q /\ Is(I!Over(x, n), a, b * n)
<1>1. <<1, n>> \in Fr /\ Is(<<1, n>>, 1, n)
  BY DEF Fr, Is
<1>2. I!Times(x, <<1, n>>) \in Q /\ Is(I!Times(x, <<1, n>>), a * 1, b * n)
  BY <1>1, TimesIs
<1>3. a * 1 = a
  OBVIOUS
<1> QED
  BY <1>2, <1>3 DEF I!Over

LEMMA ShareIs ==
  ASSUME NEW x \in Fr, NEW y \in Fr, NEW a \in Int, NEW b \in Nat \ {0},
         NEW c \in Nat \ {0}, NEW d \in Nat \ {0},
         Is(x, a, b), Is(y, c, d), y[1] > 0
  PROVE  I!Share(x, y) \in Q /\ Is(I!Share(x, y), a * d, b * c)
<1> DEFINE z == <<y[2], y[1]>>
<1>1. y[1] \in Nat \ {0} /\ y[2] \in Nat \ {0}
  BY FrIs
<1>2. z \in Fr /\ z[1] = y[2] /\ z[2] = y[1]
  BY <1>1 DEF Fr
<1>3. Is(z, d, c)
  <2>1. y[1] * d = c * y[2]
    BY DEF Is
  <2>2. y[2] * c = d * y[1]
    BY <1>1, <2>1
  <2> QED
    BY <1>2, <2>2 DEF Is
<1>4. I!Share(x, y) = I!Times(x, z)
  BY DEF I!Share
<1> HIDE DEF z
<1> QED
  BY <1>2, <1>3, <1>4, TimesIs

LEMMA NumIs ==
  ASSUME NEW n \in Int
  PROVE  I!Num(n) \in Q /\ I!Num(n) \in Fr /\ Is(I!Num(n), n, 1)
<1>1. I!Num(n) = <<n, 1>> /\ I!Num(n) \in Fr
  BY DEF I!Num, Fr
<1>2. Is(I!Num(n), n, 1)
  BY <1>1 DEF Is
<1>3. PICK g \in Nat \ {0}, q \in Int, r \in Nat \ {0} :
        n = q * g /\ 1 = r * g /\ g = I!Gcd[<<I!Abs(n), 1>>] /\ I!Ratio(n, 1) = <<q, r>>
  BY RatioIs
<1>4. g = 1
  <2>1. CASE g >= 2
    <3>1. 1 * g <= r * g
      BY Grows
    <3> QED
      BY <1>3, <2>1, <3>1
  <2> QED
    BY <2>1
<1>5. q = n /\ r = 1
  BY <1>3, <1>4
<1>6. I!Ratio(n, 1) = <<n, 1>>
  BY <1>3, <1>5
<1> QED
  BY <1>1, <1>2, <1>6 DEF Q, I!Num

LEMMA AtMostIs ==
  ASSUME NEW x \in Fr, NEW y \in Fr, NEW a \in Int, NEW b \in Nat \ {0}, NEW c \in Int,
         NEW d \in Nat \ {0},
         Is(x, a, b), Is(y, c, d)
  PROVE  I!AtMost(x, y) <=> a * d <= c * b
<1> DEFINE x1 == x[1]
           x2 == x[2]
           y1 == y[1]
           y2 == y[2]
<1>1. x1 \in Int /\ x2 \in Nat \ {0} /\ y1 \in Int /\ y2 \in Nat \ {0}
  BY FrIs
<1>2. I!AtMost(x, y) <=> x1 * y2 <= y1 * x2
  BY DEF I!AtMost
<1>3. x1 * b = a * x2 /\ y1 * d = c * y2
  BY DEF Is
<1> HIDE DEF x1, x2, y1, y2
<1>4. x2 * y2 \in Nat \ {0} /\ b * d \in Nat \ {0}
  BY <1>1, Positive
<1>5. (x1 * y2) * (b * d) = (a * d) * (x2 * y2)
  <2>1. (x1 * y2) * (b * d) = (x1 * b) * (y2 * d)
    BY <1>1
  <2>2. (a * x2) * (y2 * d) = (a * d) * (x2 * y2)
    BY <1>1
  <2> QED
    BY <1>3, <2>1, <2>2
<1>6. (y1 * x2) * (b * d) = (c * b) * (x2 * y2)
  <2>1. (y1 * x2) * (b * d) = (y1 * d) * (x2 * b)
    BY <1>1
  <2>2. (c * y2) * (x2 * b) = (c * b) * (x2 * y2)
    BY <1>1
  <2> QED
    BY <1>3, <2>1, <2>2
<1>7. x1 * y2 \in Int /\ y1 * x2 \in Int /\ a * d \in Int /\ c * b \in Int
  BY <1>1
<1> DEFINE p == x1 * y2
           q == y1 * x2
           r == a * d
           s == c * b
           u == b * d
           v == x2 * y2
<1>8. p * u = r * v /\ q * u = s * v /\ {p, q, r, s} \subseteq Int /\ {u, v} \subseteq Nat \ {0}
  BY <1>4, <1>5, <1>6, <1>7
<1>9. I!AtMost(x, y) <=> p <= q
  BY <1>2
<1> HIDE DEF p, q, r, s, u, v
<1>10. ASSUME p <= q PROVE r <= s
  <2>1. p * u <= q * u
    BY <1>8, <1>10, Grows
  <2>2. r * v <= s * v
    BY <1>8, <2>1
  <2> QED
    BY <1>8, <2>2, CancelsOrder
<1>11. ASSUME r <= s PROVE p <= q
  <2>1. r * v <= s * v
    BY <1>8, <1>11, Grows
  <2>2. p * u <= q * u
    BY <1>8, <2>1
  <2> QED
    BY <1>8, <2>2, CancelsOrder
<1> QED
  BY <1>9, <1>10, <1>11 DEF r, s

(* x as the fraction it is.                                                *)
LEMMA QParts ==
  ASSUME NEW x \in Q
  PROVE  /\ x \in Fr /\ x # I!None /\ x[1] \in Int /\ x[2] \in Nat \ {0}
         /\ Is(x, x[1], x[2])
<1>1. x \in Fr
  BY QIs
<1> QED
  BY <1>1, IsItself, FrIs

LEMMA OpsTyped ==
  ASSUME NEW x \in Q, NEW y \in Q
  PROVE  I!Plus(x, y) \in Q /\ I!Minus(x, y) \in Q /\ I!Times(x, y) \in Q
<1>1. x \in Fr /\ x[1] \in Int /\ x[2] \in Nat \ {0} /\ Is(x, x[1], x[2])
  BY QParts
<1>2. y \in Fr /\ y[1] \in Int /\ y[2] \in Nat \ {0} /\ Is(y, y[1], y[2])
  BY QParts
<1>3. I!Plus(x, y) \in Q
  BY <1>1, <1>2, PlusIs
<1>4. I!Minus(x, y) \in Q
  BY <1>1, <1>2, MinusIs
<1>5. I!Times(x, y) \in Q
  BY <1>1, <1>2, TimesIs
<1> QED
  BY <1>3, <1>4, <1>5

LEMMA OverTyped ==
  ASSUME NEW x \in Q, NEW n \in Nat \ {0}
  PROVE  I!Over(x, n) \in Q
<1>1. x \in Fr /\ x[1] \in Int /\ x[2] \in Nat \ {0} /\ Is(x, x[1], x[2])
  BY QParts
<1> QED
  BY <1>1, OverIs

LEMMA PlusZero ==
  ASSUME NEW x \in Q
  PROVE  I!Plus(I!Num(0), x) = x /\ I!Plus(x, I!Num(0)) = x
<1>1. x \in Fr /\ x[1] \in Int /\ x[2] \in Nat \ {0} /\ Is(x, x[1], x[2])
  BY QParts
<1> DEFINE a == x[1]
           b == x[2]
<1>2. I!Num(0) \in Fr /\ Is(I!Num(0), 0, 1)
  BY NumIs
<1>3. x \in Fr /\ a \in Int /\ b \in Nat \ {0} /\ Is(x, a, b)
  BY <1>1
<1> HIDE DEF a, b
<1>4. I!Plus(I!Num(0), x) \in Q /\ Is(I!Plus(I!Num(0), x), 0 * b + a * 1, 1 * b)
  BY <1>2, <1>3, PlusIs
<1>5. I!Plus(x, I!Num(0)) \in Q /\ Is(I!Plus(x, I!Num(0)), a * 1 + 0 * b, b * 1)
  BY <1>2, <1>3, PlusIs
<1>6. 0 * b + a * 1 = a /\ 1 * b = b /\ a * 1 + 0 * b = a /\ b * 1 = b
  BY <1>3
<1>7. I!Plus(I!Num(0), x) = x
  BY <1>3, <1>4, <1>6, IsUnique
<1>8. I!Plus(x, I!Num(0)) = x
  BY <1>3, <1>5, <1>6, IsUnique
<1> QED
  BY <1>7, <1>8

LEMMA PlusAssociates ==
  ASSUME NEW x \in Q, NEW y \in Q, NEW z \in Q
  PROVE  I!Plus(I!Plus(x, y), z) = I!Plus(x, I!Plus(y, z))
<1> DEFINE a == x[1]
           b == x[2]
           c == y[1]
           d == y[2]
           e == z[1]
           f == z[2]
<1>1. x \in Fr /\ a \in Int /\ b \in Nat \ {0} /\ Is(x, a, b)
  BY QParts
<1>2. y \in Fr /\ c \in Int /\ d \in Nat \ {0} /\ Is(y, c, d)
  BY QParts
<1>3. z \in Fr /\ e \in Int /\ f \in Nat \ {0} /\ Is(z, e, f)
  BY QParts
<1> HIDE DEF a, b, c, d, e, f
<1>4. I!Plus(x, y) \in Q /\ Is(I!Plus(x, y), a * d + c * b, b * d)
  BY <1>1, <1>2, PlusIs
<1>5. I!Plus(y, z) \in Q /\ Is(I!Plus(y, z), c * f + e * d, d * f)
  BY <1>2, <1>3, PlusIs
<1>6. b * d \in Nat \ {0} /\ d * f \in Nat \ {0} /\ (b * d) * f \in Nat \ {0}
  BY <1>1, <1>2, <1>3, Positive
<1>7. a * d + c * b \in Int /\ c * f + e * d \in Int
  BY <1>1, <1>2, <1>3
<1>8. I!Plus(I!Plus(x, y), z) \in Q
      /\ Is(I!Plus(I!Plus(x, y), z), (a * d + c * b) * f + e * (b * d), (b * d) * f)
  BY <1>3, <1>4, <1>6, <1>7, PlusIs, QIs
<1>9. I!Plus(x, I!Plus(y, z)) \in Q
      /\ Is(I!Plus(x, I!Plus(y, z)), a * (d * f) + (c * f + e * d) * b, b * (d * f))
  BY <1>1, <1>5, <1>6, <1>7, PlusIs, QIs
<1>10. /\ (a * d + c * b) * f + e * (b * d) = a * (d * f) + (c * f + e * d) * b
       /\ (b * d) * f = b * (d * f)
  BY <1>1, <1>2, <1>3
<1>11. (a * d + c * b) * f + e * (b * d) \in Int
  BY <1>1, <1>2, <1>3
<1> QED
  BY <1>6, <1>8, <1>9, <1>10, <1>11, IsUnique

LEMMA MinusCancels ==
  ASSUME NEW x \in Q, NEW y \in Q
  PROVE  I!Minus(I!Plus(x, y), x) = y
<1> DEFINE a == x[1]
           b == x[2]
           c == y[1]
           d == y[2]
<1>1. x \in Fr /\ a \in Int /\ b \in Nat \ {0} /\ Is(x, a, b)
  BY QParts
<1>2. y \in Fr /\ c \in Int /\ d \in Nat \ {0} /\ Is(y, c, d)
  BY QParts
<1> HIDE DEF a, b, c, d
<1>3. I!Plus(x, y) \in Q /\ Is(I!Plus(x, y), a * d + c * b, b * d)
  BY <1>1, <1>2, PlusIs
<1>4. b * d \in Nat \ {0} /\ (b * d) * b \in Nat \ {0} /\ a * d + c * b \in Int
  BY <1>1, <1>2, Positive
<1>5. I!Minus(I!Plus(x, y), x) \in Q
      /\ Is(I!Minus(I!Plus(x, y), x), (a * d + c * b) * b - a * (b * d), (b * d) * b)
  BY <1>1, <1>3, <1>4, MinusIs, QIs
<1>6. ((a * d + c * b) * b - a * (b * d)) * d = c * ((b * d) * b)
  BY <1>1, <1>2
<1>7. (a * d + c * b) * b - a * (b * d) \in Int
  BY <1>1, <1>2
<1>8. Is(I!Minus(I!Plus(x, y), x), c, d)
  BY <1>2, <1>4, <1>5, <1>6, <1>7, IsThrough
<1> QED
  BY <1>2, <1>5, <1>8, IsUnique

-----------------------------------------------------------------------------
(* Order.                                                                  *)
LEMMA SignIs ==
  ASSUME NEW x \in Fr, NEW a \in Int, NEW b \in Nat \ {0}, Is(x, a, b)
  PROVE  /\ x[1] > 0 <=> a > 0
         /\ x[1] >= 0 <=> a >= 0
         /\ x[1] = 0 <=> a = 0
<1> DEFINE m == x[1]
           n == x[2]
<1>1. m \in Int /\ n \in Nat \ {0} /\ m * b = a * n
  BY FrIs DEF Is
<1> HIDE DEF m, n
<1>2. ASSUME NEW p \in Int, NEW q \in Int, NEW u \in Nat \ {0}, NEW v \in Nat \ {0},
             p * u = q * v, p >= 1
      PROVE  q >= 1
  <2>1. 1 * u <= p * u
    BY <1>2, Grows
  <2>2. 0 * v < q * v
    BY <1>2, <2>1
  <2>3. CASE q <= 0
    <3>1. q * v <= 0 * v
      BY <1>2, <2>3, Grows
    <3> QED
      BY <1>2, <2>2, <3>1
  <2> QED
    BY <2>3
<1>3. m >= 1 => a >= 1
  BY <1>1, <1>2
<1>4. a >= 1 => m >= 1
  BY <1>1, <1>2
<1>5. -m \in Int /\ -a \in Int /\ (-m) * b = (-a) * n /\ (-a) * n = (-m) * b
  BY <1>1
<1>6. -m >= 1 => -a >= 1
  BY <1>1, <1>2, <1>5
<1>7. -a >= 1 => -m >= 1
  BY <1>1, <1>2, <1>5
<1> QED
  BY <1>1, <1>3, <1>4, <1>6, <1>7 DEF m

LEMMA BelowIs ==
  ASSUME NEW x \in Fr, NEW a \in Int, NEW b \in Nat \ {0}, Is(x, a, b), NEW n \in Int
  PROVE  /\ I!AtMost(I!Num(n), x) <=> n * b <= a
         /\ I!AtMost(x, I!Num(n)) <=> a <= n * b
<1>1. I!Num(n) \in Fr /\ Is(I!Num(n), n, 1)
  BY NumIs
<1>2. I!AtMost(I!Num(n), x) <=> n * b <= a * 1
  BY <1>1, AtMostIs
<1>3. I!AtMost(x, I!Num(n)) <=> a * 1 <= n * b
  BY <1>1, AtMostIs
<1> QED
  BY <1>2, <1>3

LEMMA PlusOrdered ==
  ASSUME NEW x \in Q, NEW y \in Q, NEW u \in Q, NEW v \in Q, I!AtMost(x, u), I!AtMost(y, v)
  PROVE  I!AtMost(I!Plus(x, y), I!Plus(u, v))
<1> DEFINE a == x[1]
           b == x[2]
           c == y[1]
           d == y[2]
           e == u[1]
           f == u[2]
           g == v[1]
           h == v[2]
<1>1. x \in Fr /\ a \in Int /\ b \in Nat \ {0} /\ Is(x, a, b)
  BY QParts
<1>2. y \in Fr /\ c \in Int /\ d \in Nat \ {0} /\ Is(y, c, d)
  BY QParts
<1>3. u \in Fr /\ e \in Int /\ f \in Nat \ {0} /\ Is(u, e, f)
  BY QParts
<1>4. v \in Fr /\ g \in Int /\ h \in Nat \ {0} /\ Is(v, g, h)
  BY QParts
<1>5. a * f <= e * b /\ c * h <= g * d
  BY DEF I!AtMost
<1> HIDE DEF a, b, c, d, e, f, g, h
<1>6. I!Plus(x, y) \in Q /\ Is(I!Plus(x, y), a * d + c * b, b * d)
  BY <1>1, <1>2, PlusIs
<1>7. I!Plus(u, v) \in Q /\ Is(I!Plus(u, v), e * h + g * f, f * h)
  BY <1>3, <1>4, PlusIs
<1>8. b * d \in Nat \ {0} /\ f * h \in Nat \ {0} /\ d * h \in Nat \ {0} /\ b * f \in Nat \ {0}
  BY <1>1, <1>2, <1>3, <1>4, Positive
<1>9. a * d + c * b \in Int /\ e * h + g * f \in Int
  BY <1>1, <1>2, <1>3, <1>4
<1>10. (a * f) * (d * h) <= (e * b) * (d * h)
  <2>1. a * f \in Int /\ e * b \in Int /\ d * h \in Nat
    BY <1>1, <1>3, <1>8
  <2> QED
    BY <1>5, <2>1, Grows
<1>11. (c * h) * (b * f) <= (g * d) * (b * f)
  <2>1. c * h \in Int /\ g * d \in Int /\ b * f \in Nat
    BY <1>2, <1>4, <1>8
  <2> QED
    BY <1>5, <2>1, Grows
<1>12. (a * d + c * b) * (f * h) = (a * f) * (d * h) + (c * h) * (b * f)
  BY <1>1, <1>2, <1>3, <1>4
<1>13. (e * h + g * f) * (b * d) = (e * b) * (d * h) + (g * d) * (b * f)
  BY <1>1, <1>2, <1>3, <1>4
<1>14. (a * d + c * b) * (f * h) <= (e * h + g * f) * (b * d)
  <2> DEFINE p == (a * f) * (d * h)
             q == (e * b) * (d * h)
             r == (c * h) * (b * f)
             s == (g * d) * (b * f)
  <2>1. p \in Int /\ q \in Int /\ r \in Int /\ s \in Int
    BY <1>1, <1>2, <1>3, <1>4
  <2>2. p <= q /\ r <= s
    BY <1>10, <1>11
  <2> HIDE DEF p, q, r, s
  <2>3. p + r <= q + s
    BY <2>1, <2>2
  <2> QED
    BY <1>12, <1>13, <2>3 DEF p, q, r, s
<1> QED
  BY <1>6, <1>7, <1>8, <1>9, <1>14, AtMostIs, QIs

-----------------------------------------------------------------------------
(* Sums.                                                                   *)
Rational(xs, n) == \A i \in 1..n : xs[i] \in Q

SumsBody(xs, n, f) == [i \in 0..n |-> IF i = 0 THEN I!Num(0) ELSE I!Plus(f[i - 1], xs[i])]

Sums(xs, n) == CHOOSE f : f = SumsBody(xs, n, f)

LEMMA SumToIsOfSums ==
  ASSUME NEW xs, NEW n
  PROVE  I!SumTo(xs, n) = Sums(xs, n)[n]
BY DEF I!SumTo, Sums, SumsBody

LEMMA SumsAre ==
  ASSUME NEW xs, NEW n \in Nat, Rational(xs, n)
  PROVE  /\ Sums(xs, n)[0] = I!Num(0)
         /\ \A i \in 1..n : Sums(xs, n)[i] = I!Plus(Sums(xs, n)[i - 1], xs[i])
<1> DEFINE g == [y \in (1..n) \X Q |-> I!Plus(y[2], xs[y[1]])]
<1>1. I!Num(0) \in Q
  BY NumIs
<1>2. g \in [(1..n) \X Q -> Q]
  BY OpsTyped DEF Rational
<1>3. \A i \in 1..n, q \in Q : g[<<i, q>>] = I!Plus(q, xs[i])
  OBVIOUS
<1> HIDE DEF g
<1>4. PICK e \in [0..n -> Q] : Follows(e, I!Num(0), n, g)
  BY <1>1, <1>2, StepsExist, Zenon
<1>5. \A i \in 1..n : e[i] = I!Plus(e[i - 1], xs[i])
  <2>1. SUFFICES ASSUME NEW i \in 1..n PROVE e[i] = I!Plus(e[i - 1], xs[i])
    OBVIOUS
  <2>2. i - 1 \in 0..n
    OBVIOUS
  <2>3. e[i - 1] \in Q
    BY <2>2
  <2>4. e[i] = g[<<i, e[i - 1]>>]
    BY <1>4 DEF Follows
  <2> QED
    BY <1>3, <2>3, <2>4
<1>6. e[0] = I!Num(0)
  BY <1>4 DEF Follows
<1>7. e = SumsBody(xs, n, e)
  <2>1. \A i \in 0..n : i # 0 => i \in 1..n
    OBVIOUS
  <2>2. \A i \in 0..n : e[i] = SumsBody(xs, n, e)[i]
    BY <1>5, <1>6, <2>1 DEF SumsBody
  <2>3. DOMAIN SumsBody(xs, n, e) = 0..n
        /\ SumsBody(xs, n, e) = [i \in 0..n |-> SumsBody(xs, n, e)[i]]
    BY DEF SumsBody
  <2> QED
    BY <2>2, <2>3
<1> DEFINE s == Sums(xs, n)
<1>8. s = SumsBody(xs, n, s)
  BY <1>7 DEF Sums
<1> HIDE DEF s
<1>9. \A i \in 0..n : s[i] = IF i = 0 THEN I!Num(0) ELSE I!Plus(s[i - 1], xs[i])
  BY <1>8 DEF SumsBody
<1>10. 0 \in 0..n /\ \A i \in 1..n : i \in 0..n /\ i # 0
  OBVIOUS
<1>11. s[0] = I!Num(0) /\ \A i \in 1..n : s[i] = I!Plus(s[i - 1], xs[i])
  BY <1>9, <1>10
<1> QED
  BY <1>11 DEF s

(* Sums of the same values are the same.                                   *)
LEMMA SumsSame ==
  ASSUME NEW xs, NEW n \in Nat, Rational(xs, n), NEW ys, NEW m \in Nat, Rational(ys, m),
         NEW k \in Nat, k <= n, k <= m, \A i \in 1..k : xs[i] = ys[i]
  PROVE  Sums(xs, n)[k] = Sums(ys, m)[k]
<1> DEFINE S == {i \in 0..k : Sums(xs, n)[i] = Sums(ys, m)[i]}
<1>1. 0 \in S
  BY SumsAre
<1>2. ASSUME NEW i \in 1..k, i - 1 \in S PROVE i \in S
  <2>1. i \in 1..n /\ i \in 1..m /\ i \in 0..k
    OBVIOUS
  <2>2. Sums(xs, n)[i] = I!Plus(Sums(xs, n)[i - 1], xs[i])
    BY <2>1, SumsAre
  <2>3. Sums(ys, m)[i] = I!Plus(Sums(ys, m)[i - 1], ys[i])
    BY <2>1, SumsAre
  <2> QED
    BY <1>2, <2>1, <2>2, <2>3
<1> HIDE DEF S
<1>3. \A i \in 0..k : i \in S
  BY <1>1, <1>2, Climb
<1> QED
  BY <1>3 DEF S

LEMMA RationalPart ==
  ASSUME NEW xs, NEW n \in Nat, Rational(xs, n), NEW k \in Nat, k <= n
  PROVE  Rational(xs, k)
BY DEF Rational

LEMMA SumSame ==
  ASSUME NEW xs, NEW ys, NEW n \in Nat, Rational(xs, n), \A i \in 1..n : xs[i] = ys[i]
  PROVE  I!SumTo(xs, n) = I!SumTo(ys, n)
<1>1. Rational(ys, n)
  BY DEF Rational
<1>2. Sums(xs, n)[n] = Sums(ys, n)[n]
  BY <1>1, SumsSame
<1> QED
  BY <1>2, SumToIsOfSums

LEMMA SumOfNone ==
  ASSUME NEW xs
  PROVE  I!SumTo(xs, 0) = I!Num(0)
<1>1. Rational(xs, 0)
  BY DEF Rational
<1> QED
  BY <1>1, SumsAre, SumToIsOfSums

LEMMA SumStep ==
  ASSUME NEW xs, NEW n \in Nat \ {0}, Rational(xs, n)
  PROVE  I!SumTo(xs, n) = I!Plus(I!SumTo(xs, n - 1), xs[n])
<1>1. n - 1 \in Nat /\ n - 1 <= n /\ n \in 1..n
  OBVIOUS
<1>2. Rational(xs, n - 1)
  BY <1>1, RationalPart
<1>3. Sums(xs, n - 1)[n - 1] = Sums(xs, n)[n - 1]
  BY <1>1, <1>2, SumsSame
<1>4. Sums(xs, n)[n] = I!Plus(Sums(xs, n)[n - 1], xs[n])
  BY <1>1, SumsAre
<1> QED
  BY <1>3, <1>4, SumToIsOfSums

LEMMA SumTyped ==
  ASSUME NEW xs, NEW n \in Nat, Rational(xs, n)
  PROVE  \A k \in 0..n : I!SumTo(xs, k) \in Q
<1> DEFINE S == {k \in 0..n : I!SumTo(xs, k) \in Q}
<1>1. 0 \in S
  BY SumOfNone, NumIs
<1>2. ASSUME NEW k \in 1..n, k - 1 \in S PROVE k \in S
  <2>1. k \in Nat \ {0} /\ k <= n /\ k \in 0..n /\ xs[k] \in Q
    BY DEF Rational
  <2>2. Rational(xs, k)
    BY <2>1, RationalPart
  <2>3. I!SumTo(xs, k) = I!Plus(I!SumTo(xs, k - 1), xs[k])
    BY <2>1, <2>2, SumStep
  <2>4. I!SumTo(xs, k) \in Q
    BY <1>2, <2>1, <2>3, OpsTyped
  <2> QED
    BY <2>1, <2>4
<1> HIDE DEF S
<1>3. \A k \in 0..n : k \in S
  BY <1>1, <1>2, Climb
<1> QED
  BY <1>3 DEF S

(* The difference of a running sum over some steps is the sum of what they *)
(* added.                                                                  *)
LEMMA SumOfBoth ==
  ASSUME NEW xs, NEW a \in Nat, NEW p \in Nat, Rational(xs, a + p),
         NEW ys, \A j \in 1..p : ys[j] = xs[a + j]
  PROVE  \A j \in 0..p : I!SumTo(xs, a + j) = I!Plus(I!SumTo(xs, a), I!SumTo(ys, j))
<1> DEFINE S == {j \in 0..p : I!SumTo(xs, a + j) = I!Plus(I!SumTo(xs, a), I!SumTo(ys, j))}
<1>1. Rational(ys, p)
  BY DEF Rational
<1>2. I!SumTo(xs, a) \in Q
  <2>1. a \in 0..a + p
    OBVIOUS
  <2> QED
    BY <2>1, SumTyped
<1>3. 0 \in S
  BY <1>2, SumOfNone, PlusZero
<1>4. ASSUME NEW j \in 1..p, j - 1 \in S PROVE j \in S
  <2>1. j \in Nat \ {0} /\ j <= p /\ j - 1 \in 0..p /\ a + j \in Nat \ {0} /\ a + j <= a + p
    OBVIOUS
  <2>2. Rational(xs, a + j) /\ Rational(ys, j)
    BY <1>1, <2>1, RationalPart
  <2>3. I!SumTo(xs, a + j) = I!Plus(I!SumTo(xs, a + (j - 1)), xs[a + j])
    <3>1. (a + j) - 1 = a + (j - 1)
      OBVIOUS
    <3> QED
      BY <2>1, <2>2, <3>1, SumStep
  <2>4. I!SumTo(ys, j) = I!Plus(I!SumTo(ys, j - 1), ys[j])
    BY <2>1, <2>2, SumStep
  <2>5. I!SumTo(ys, j - 1) \in Q
    BY <1>1, <2>1, SumTyped
  <2>6. xs[a + j] \in Q /\ ys[j] = xs[a + j]
    BY <2>1 DEF Rational
  <2>7. I!SumTo(xs, a + (j - 1)) = I!Plus(I!SumTo(xs, a), I!SumTo(ys, j - 1))
    BY <1>4
  <2>8. I!SumTo(xs, a + j) = I!Plus(I!SumTo(xs, a), I!SumTo(ys, j))
    BY <1>2, <2>3, <2>4, <2>5, <2>6, <2>7, PlusAssociates
  <2> QED
    BY <2>1, <2>8
<1> HIDE DEF S
<1>5. \A j \in 0..p : j \in S
  BY <1>3, <1>4, Climb
<1> QED
  BY <1>5 DEF S

LEMMA WindowSum ==
  ASSUME NEW xs, NEW a \in Nat, NEW p \in Nat, Rational(xs, a + p),
         NEW ys, \A j \in 1..p : ys[j] = xs[a + j]
  PROVE  I!Minus(I!SumTo(xs, a + p), I!SumTo(xs, a)) = I!SumTo(ys, p)
<1>1. p \in 0..p /\ a \in 0..a + p
  OBVIOUS
<1>2. I!SumTo(xs, a + p) = I!Plus(I!SumTo(xs, a), I!SumTo(ys, p))
  <2>1. \A j \in 0..p : I!SumTo(xs, a + j) = I!Plus(I!SumTo(xs, a), I!SumTo(ys, j))
    BY SumOfBoth
  <2> QED
    BY <1>1, <2>1
<1>3. Rational(ys, p)
  BY DEF Rational
<1>4. I!SumTo(xs, a) \in Q /\ I!SumTo(ys, p) \in Q
  BY <1>1, <1>3, SumTyped
<1> QED
  BY <1>2, <1>4, MinusCancels

-----------------------------------------------------------------------------
(* Bounds of sums and means.                                               *)
LEMMA SumOrdered ==
  ASSUME NEW xs, NEW ys, NEW n \in Nat, Rational(xs, n), Rational(ys, n),
         \A i \in 1..n : I!AtMost(xs[i], ys[i])
  PROVE  \A k \in 0..n : I!AtMost(I!SumTo(xs, k), I!SumTo(ys, k))
<1> DEFINE S == {k \in 0..n : I!AtMost(I!SumTo(xs, k), I!SumTo(ys, k))}
<1>1. 0 \in S
  <2>1. I!AtMost(I!Num(0), I!Num(0))
    BY DEF I!AtMost, I!Num
  <2> QED
    BY <2>1, SumOfNone
<1>2. ASSUME NEW k \in 1..n, k - 1 \in S PROVE k \in S
  <2>1. k \in Nat \ {0} /\ k <= n /\ k \in 0..n /\ k - 1 \in 0..n /\ xs[k] \in Q /\ ys[k] \in Q
    BY DEF Rational
  <2>2. Rational(xs, k) /\ Rational(ys, k)
    BY <2>1, RationalPart
  <2>3. I!SumTo(xs, k) = I!Plus(I!SumTo(xs, k - 1), xs[k])
    BY <2>1, <2>2, SumStep
  <2>4. I!SumTo(ys, k) = I!Plus(I!SumTo(ys, k - 1), ys[k])
    BY <2>1, <2>2, SumStep
  <2>5. I!SumTo(xs, k - 1) \in Q /\ I!SumTo(ys, k - 1) \in Q
    BY <2>1, SumTyped
  <2>6. I!AtMost(I!SumTo(xs, k), I!SumTo(ys, k))
    BY <1>2, <2>1, <2>3, <2>4, <2>5, PlusOrdered
  <2> QED
    BY <2>1, <2>6
<1> HIDE DEF S
<1>3. \A k \in 0..n : k \in S
  BY <1>1, <1>2, Climb
<1> QED
  BY <1>3 DEF S

(* The sum of a number n times.                                            *)
LEMMA SumOfEqual ==
  ASSUME NEW c \in Int, NEW xs, NEW n \in Nat, \A i \in 1..n : xs[i] = I!Num(c)
  PROVE  \A k \in 0..n : Is(I!SumTo(xs, k), k * c, 1)
<1> DEFINE S == {k \in 0..n : Is(I!SumTo(xs, k), k * c, 1)}
<1>1. Rational(xs, n)
  BY NumIs DEF Rational
<1>2. 0 \in S
  <2>1. Is(I!Num(0), 0, 1) /\ 0 * c = 0
    BY NumIs
  <2> QED
    BY <2>1, SumOfNone
<1>3. ASSUME NEW k \in 1..n, k - 1 \in S PROVE k \in S
  <2>1. k \in Nat \ {0} /\ k <= n /\ k \in 0..n /\ k - 1 \in 0..n /\ xs[k] = I!Num(c)
    OBVIOUS
  <2>2. Rational(xs, k)
    BY <1>1, <2>1, RationalPart
  <2>3. I!SumTo(xs, k) = I!Plus(I!SumTo(xs, k - 1), I!Num(c))
    BY <2>1, <2>2, SumStep
  <2>4. I!SumTo(xs, k - 1) \in Fr
    BY <1>1, <2>1, SumTyped, QIs
  <2>5. I!Num(c) \in Fr /\ Is(I!Num(c), c, 1)
    BY NumIs
  <2>6. Is(I!SumTo(xs, k - 1), (k - 1) * c, 1) /\ (k - 1) * c \in Int
    BY <1>3
  <2>7. Is(I!SumTo(xs, k), ((k - 1) * c) * 1 + c * 1, 1 * 1)
    BY <2>3, <2>4, <2>5, <2>6, PlusIs
  <2>8. ((k - 1) * c) * 1 + c * 1 = k * c /\ 1 * 1 = 1
    OBVIOUS
  <2>9. Is(I!SumTo(xs, k), k * c, 1)
    BY <2>7, <2>8
  <2> QED
    BY <2>1, <2>9
<1> HIDE DEF S
<1>4. \A k \in 0..n : k \in S
  BY <1>2, <1>3, Climb
<1> QED
  BY <1>4 DEF S

LEMMA SumAbove ==
  ASSUME NEW xs, NEW n \in Nat, Rational(xs, n), NEW c \in Int,
         \A i \in 1..n : I!AtMost(I!Num(c), xs[i])
  PROVE  I!SumTo(xs, n) \in Q /\ n * c * I!SumTo(xs, n)[2] <= I!SumTo(xs, n)[1]
<1> DEFINE ys == [i \in 1..n |-> I!Num(c)]
           s == I!SumTo(xs, n)
           t == I!SumTo(ys, n)
<1>1. \A i \in 1..n : ys[i] = I!Num(c)
  OBVIOUS
<1> HIDE DEF ys
<1>2. Rational(ys, n)
  BY <1>1, NumIs DEF Rational
<1>3. n \in 0..n
  OBVIOUS
<1>4. I!AtMost(t, s)
  BY <1>1, <1>2, <1>3, SumOrdered
<1>5. Is(t, n * c, 1)
  BY <1>1, <1>3, SumOfEqual
<1>6. s \in Q /\ t \in Q
  BY <1>2, <1>3, SumTyped
<1> HIDE DEF s, t
<1>7. s \in Fr /\ s[1] \in Int /\ s[2] \in Nat \ {0} /\ Is(s, s[1], s[2])
  BY <1>6, QParts
<1>8. t \in Fr /\ n * c \in Int
  BY <1>6, QIs
<1>9. (n * c) * s[2] <= s[1] * 1
  BY <1>4, <1>5, <1>7, <1>8, AtMostIs
<1>10. s[1] * 1 = s[1]
  BY <1>7
<1> QED
  BY <1>6, <1>9, <1>10 DEF s

LEMMA SumBelow ==
  ASSUME NEW xs, NEW n \in Nat, Rational(xs, n), NEW c \in Int,
         \A i \in 1..n : I!AtMost(xs[i], I!Num(c))
  PROVE  I!SumTo(xs, n) \in Q /\ I!SumTo(xs, n)[1] <= n * c * I!SumTo(xs, n)[2]
<1> DEFINE ys == [i \in 1..n |-> I!Num(c)]
           s == I!SumTo(xs, n)
           t == I!SumTo(ys, n)
<1>1. \A i \in 1..n : ys[i] = I!Num(c)
  OBVIOUS
<1> HIDE DEF ys
<1>2. Rational(ys, n)
  BY <1>1, NumIs DEF Rational
<1>3. n \in 0..n
  OBVIOUS
<1>4. I!AtMost(s, t)
  BY <1>1, <1>2, <1>3, SumOrdered
<1>5. Is(t, n * c, 1)
  BY <1>1, <1>3, SumOfEqual
<1>6. s \in Q /\ t \in Q
  BY <1>2, <1>3, SumTyped
<1> HIDE DEF s, t
<1>7. s \in Fr /\ s[1] \in Int /\ s[2] \in Nat \ {0} /\ Is(s, s[1], s[2])
  BY <1>6, QParts
<1>8. t \in Fr /\ n * c \in Int
  BY <1>6, QIs
<1>9. s[1] * 1 <= (n * c) * s[2]
  BY <1>4, <1>5, <1>7, <1>8, AtMostIs
<1>10. s[1] * 1 = s[1]
  BY <1>7
<1> QED
  BY <1>6, <1>9, <1>10 DEF s

(* A mean lies between the bounds of what it is of.                        *)
LEMMA MeanBetween ==
  ASSUME NEW xs, NEW n \in Nat \ {0}, Rational(xs, n), NEW lo \in Int, NEW hi \in Int,
         \A i \in 1..n : I!Between(xs[i], lo, hi)
  PROVE  I!Over(I!SumTo(xs, n), n) \in Q /\ I!Between(I!Over(I!SumTo(xs, n), n), lo, hi)
<1> DEFINE s == I!SumTo(xs, n)
           a == s[1]
           b == s[2]
<1>1. s \in Q /\ n * lo * b <= a
  BY SumAbove DEF I!Between
<1>2. a <= n * hi * b
  BY SumBelow DEF I!Between
<1>3. s \in Fr /\ a \in Int /\ b \in Nat \ {0} /\ Is(s, a, b)
  BY <1>1, QParts
<1> HIDE DEF a, b
<1>4. I!Over(s, n) \in Q /\ Is(I!Over(s, n), a, b * n)
  BY <1>3, OverIs
<1>5. b * n \in Nat \ {0}
  BY <1>3, Positive
<1>6. lo * (b * n) <= a /\ a <= hi * (b * n)
  <2>1. lo * (b * n) = n * lo * b /\ hi * (b * n) = n * hi * b
    BY <1>3
  <2> QED
    BY <1>1, <1>2, <2>1
<1> HIDE DEF s
<1>7. I!Over(s, n) \in Fr
  BY <1>4, QIs
<1>8. I!AtMost(I!Num(lo), I!Over(s, n)) /\ I!AtMost(I!Over(s, n), I!Num(hi))
  BY <1>3, <1>4, <1>5, <1>6, <1>7, BelowIs
<1> QED
  BY <1>4, <1>8 DEF I!Between, s

-----------------------------------------------------------------------------
(* Largest and smallest numbers.                                           *)
LEMMA MaxIs ==
  ASSUME NEW S, S \subseteq Int, S # {}, NEW b \in Int, \A x \in S : x <= b
  PROVE  I!Max(S) \in S /\ \A x \in S : x <= I!Max(S)
<1> DEFINE T == {b - x : x \in S}
<1>1. T \subseteq Nat /\ T # {}
  <2>1. \A x \in S : b - x \in Nat
    OBVIOUS
  <2> QED
    BY <2>1
<1> HIDE DEF T
<1>2. PICK t \in T : \A u \in T : t <= u
  BY <1>1, SmallestOf
<1>3. PICK m \in S : t = b - m
  BY DEF T
<1>4. \A x \in S : b - x \in T
  BY DEF T
<1>5. \A x \in S : x <= m
  BY <1>2, <1>3, <1>4
<1>6. \E y \in S : \A x \in S : y >= x
  BY <1>3, <1>5
<1>7. I!Max(S) \in S /\ \A x \in S : I!Max(S) >= x
  BY <1>6 DEF I!Max
<1> QED
  BY <1>7

LEMMA MinIs ==
  ASSUME NEW S, S \subseteq Nat, S # {}
  PROVE  I!Min(S) \in S /\ \A x \in S : I!Min(S) <= x
<1>1. \E y \in S : \A x \in S : y <= x
  BY SmallestOf
<1> QED
  BY <1>1 DEF I!Min

(* The numbers of a finite sequence have an upper bound.                   *)
LEMMA NumbersAreBounded ==
  ASSUME NEW n \in Nat, NEW xs, \A i \in 1..n : xs[i] \in Nat
  PROVE  \E b \in Nat : \A i \in 1..n : xs[i] <= b
<1> DEFINE S == {k \in 0..n : \E b \in Nat : \A i \in 1..k : xs[i] <= b}
<1>1. 0 \in S
  OBVIOUS
<1>2. ASSUME NEW k \in 1..n, k - 1 \in S PROVE k \in S
  <2>1. PICK b \in Nat : \A i \in 1..(k - 1) : xs[i] <= b
    BY <1>2
  <2>2. b + xs[k] \in Nat
    OBVIOUS
  <2>3. ASSUME NEW i \in 1..k PROVE xs[i] <= b + xs[k]
    <3>1. CASE i = k
      BY <3>1
    <3>2. CASE i # k
      <4>1. i \in 1..(k - 1) /\ xs[i] \in Nat /\ xs[k] \in Nat
        BY <3>2
      <4> QED
        BY <2>1, <4>1
    <3> QED
      BY <3>1, <3>2
  <2>4. k \in 0..n
    OBVIOUS
  <2> QED
    BY <2>2, <2>3, <2>4
<1> HIDE DEF S
<1>3. \A k \in 0..n : k \in S
  BY <1>1, <1>2, Climb
<1>4. n \in S
  BY <1>3
<1> QED
  BY <1>4 DEF S

LEMMA HighestIs ==
  ASSUME NEW n \in Nat \ {0}, NEW xs \in [1..n -> Nat]
  PROVE  /\ I!Highest(xs) \in Nat /\ \A i \in 1..n : xs[i] <= I!Highest(xs)
         /\ \E i \in 1..n : xs[i] = I!Highest(xs)
<1>1. PICK b \in Nat : \A i \in 1..n : xs[i] <= b
  BY NumbersAreBounded
<1> DEFINE S == {xs[i] : i \in DOMAIN xs}
<1>2. S \subseteq Nat /\ S \subseteq Int /\ xs[1] \in S /\ \A x \in S : x <= b
  BY <1>1
<1>3. I!Highest(xs) = I!Max(S)
  BY DEF I!Highest
<1>4. \A i \in 1..n : xs[i] \in S
  OBVIOUS
<1>5. I!Highest(xs) \in S /\ \A x \in S : x <= I!Highest(xs)
  <2> HIDE DEF S
  <2>1. S # {} /\ b \in Int
    BY <1>2
  <2> QED
    BY <1>2, <1>3, <2>1, MaxIs
<1> QED
  BY <1>2, <1>4, <1>5

LEMMA LowestIs ==
  ASSUME NEW n \in Nat \ {0}, NEW xs \in [1..n -> Nat]
  PROVE  /\ I!Lowest(xs) \in Nat /\ \A i \in 1..n : I!Lowest(xs) <= xs[i]
         /\ \E i \in 1..n : xs[i] = I!Lowest(xs)
<1> DEFINE S == {xs[i] : i \in DOMAIN xs}
<1>1. S \subseteq Nat /\ xs[1] \in S
  OBVIOUS
<1>2. I!Lowest(xs) = I!Min(S)
  BY DEF I!Lowest
<1>3. \A i \in 1..n : xs[i] \in S
  OBVIOUS
<1>4. I!Lowest(xs) \in S /\ \A x \in S : I!Lowest(xs) <= x
  <2> HIDE DEF S
  <2> QED
    BY <1>1, <1>2, MinIs
<1> QED
  BY <1>1, <1>3, <1>4

-----------------------------------------------------------------------------
(* The moving average of a sequence that begins with missing values.       *)
From(xs, n, a) ==
  /\ DOMAIN xs = 1..n
  /\ \A i \in 1..n : IF i <= a THEN xs[i] = I!None ELSE xs[i] \in Q

(* The p values up to the i-th one.                                        *)
Behind(xs, i, p) == [j \in 1..p |-> xs[i - p + j]]

LEMMA SameCardinality ==
  ASSUME NEW S
  PROVE  I!Cardinality(S) = Cardinality(S)
BY DEF I!Cardinality, Cardinality

LEMMA PlacesUpTo ==
  ASSUME NEW a \in Nat, NEW n \in Nat, NEW i \in (a + 1)..n
  PROVE  I!Cardinality({p \in (a + 1)..n : p <= i}) = i - a
<1>1. {p \in (a + 1)..n : p <= i} = (a + 1)..i
  OBVIOUS
<1>2. a + 1 \in Int /\ i \in Int /\ ~(a + 1 > i)
  OBVIOUS
<1>3. I!Cardinality((a + 1)..i) = i - (a + 1) + 1
  BY <1>2, FS_Interval, SameCardinality
<1>4. i - (a + 1) + 1 = i - a
  OBVIOUS
<1> QED
  BY <1>1, <1>3, <1>4

LEMMA ValidIs ==
  ASSUME NEW n \in Nat, NEW a \in 0..n, NEW xs, From(xs, n, a)
  PROVE  /\ DOMAIN I!Valid(xs) = 1..(n - a) /\ Len(I!Valid(xs)) = n - a
         /\ \A j \in 1..(n - a) : I!Valid(xs)[j] = xs[a + j]
<1> DEFINE places == {i \in DOMAIN xs : xs[i] # I!None}
<1>1. places = (a + 1)..n
  <2>1. \A q \in Q : q # I!None
    BY QIs
  <2> QED
    BY <2>1 DEF From
<1>2. I!Valid(xs) = [j \in 1 .. I!Cardinality(places) |->
                     xs[CHOOSE i \in places : I!Cardinality({p \in places : p <= i}) = j]]
  BY DEF I!Valid
<1> HIDE DEF places
<1>3. I!Cardinality(places) = n - a
  <2>1. a + 1 \in Int /\ n \in Int
    OBVIOUS
  <2>2. I!Cardinality((a + 1)..n) = IF a + 1 > n THEN 0 ELSE n - (a + 1) + 1
    BY <2>1, FS_Interval, SameCardinality
  <2> QED
    BY <1>1, <2>2
<1>4. ASSUME NEW j \in 1..(n - a)
      PROVE  (CHOOSE i \in places : I!Cardinality({p \in places : p <= i}) = j) = a + j
  <2>1. \A i \in places : I!Cardinality({p \in places : p <= i}) = i - a
    BY <1>1, PlacesUpTo
  <2>2. a + j \in places /\ (a + j) - a = j
    BY <1>1
  <2>3. \E i \in places : I!Cardinality({p \in places : p <= i}) = j
    BY <2>1, <2>2
  <2> DEFINE c == CHOOSE i \in places : I!Cardinality({p \in places : p <= i}) = j
  <2>4. c \in places /\ I!Cardinality({p \in places : p <= c}) = j
    BY <2>3
  <2> HIDE DEF c
  <2>5. c - a = j /\ c \in Int
    BY <1>1, <2>1, <2>4
  <2>6. c = a + j
    BY <2>5
  <2> QED
    BY <2>6 DEF c
<1>5. DOMAIN I!Valid(xs) = 1..(n - a) /\ \A j \in 1..(n - a) : I!Valid(xs)[j] = xs[a + j]
  BY <1>2, <1>3, <1>4
<1>6. Len(I!Valid(xs)) = n - a
  <2>1. n - a \in Nat
    OBVIOUS
  <2> HIDE DEF I!Valid
  <2> QED
    BY <1>2, <1>3, <2>1
<1> QED
  BY <1>5, <1>6

LEMMA SmaIs ==
  ASSUME NEW n \in Nat, NEW a \in 0..n, NEW xs, From(xs, n, a), Len(xs) = n, NEW p \in Nat \ {0}
  PROVE  /\ DOMAIN I!Sma(xs, p) = 1..n
         /\ \A i \in 1..n : I!Sma(xs, p)[i] = IF i < a + p THEN I!None
                                            ELSE I!Over(I!SumTo(Behind(xs, i, p), p), p)
<1> DEFINE valid == I!Valid(xs)
           start == Len(xs) - Len(valid)
<1>1. Len(valid) = n - a /\ \A j \in 1..(n - a) : valid[j] = xs[a + j]
  BY ValidIs
<1>2. start = a
  BY <1>1
<1>3. I!Sma(xs, p) = [i \in DOMAIN xs |->
         IF i < start + p THEN I!None
         ELSE I!Over(I!Minus(I!SumTo(valid, i - start), I!SumTo(valid, i - start - p)), p)]
  BY DEF I!Sma
<1> HIDE DEF valid, start
<1>4. DOMAIN xs = 1..n
  BY DEF From
<1>5. ASSUME NEW i \in 1..n, ~(i < a + p)
      PROVE  I!Minus(I!SumTo(valid, i - a), I!SumTo(valid, i - a - p))
               = I!SumTo(Behind(xs, i, p), p)
  <2> DEFINE b == i - a - p
  <2>1. b \in Nat /\ b + p = i - a /\ b + p <= n - a
    BY <1>5
  <2>2. Rational(valid, b + p)
    <3>1. SUFFICES ASSUME NEW j \in 1..(b + p) PROVE valid[j] \in Q
      BY DEF Rational
    <3>2. j \in 1..(n - a) /\ a + j \in 1..n /\ ~(a + j <= a)
      BY <2>1
    <3> QED
      BY <1>1, <3>2 DEF From
  <2>3. ASSUME NEW j \in 1..p PROVE Behind(xs, i, p)[j] = valid[b + j]
    <3>1. b + j \in 1..(n - a) /\ a + (b + j) = i - p + j
      BY <2>1
    <3>2. Behind(xs, i, p)[j] = xs[i - p + j]
      BY DEF Behind
    <3> QED
      BY <1>1, <3>1, <3>2
  <2> HIDE DEF b
  <2>4. I!Minus(I!SumTo(valid, b + p), I!SumTo(valid, b)) = I!SumTo(Behind(xs, i, p), p)
    BY <2>1, <2>2, <2>3, WindowSum
  <2> QED
    BY <2>1, <2>4 DEF b
<1> QED
  BY <1>2, <1>3, <1>4, <1>5

-----------------------------------------------------------------------------
(* The buffer, once there is one.                                          *)
Full == I!IndicatorsAssumption /\ I!TypeOK /\ window # <<>>

Periods == {params.period, params.fast, params.slow, params.signal, params.k, params.d}

LEMMA ParamsAre ==
  ASSUME I!IndicatorsAssumption, params \in Definitions
  PROVE  Periods \subseteq Nat \ {0, 1}
BY DEF I!IndicatorsAssumption, Periods

LEMMA MarginsAre ==
  ASSUME I!IndicatorsAssumption
  PROVE  DefaultWindow \in Nat /\ WideMargin \in Nat /\ MaxCandles \in Nat
           /\ Margin \in Nat \ {0}
BY DEF I!IndicatorsAssumption

LEMMA MaxPeriodIs ==
  ASSUME I!IndicatorsAssumption, params \in Definitions
  PROVE  /\ I!MaxPeriod(params) \in Nat
         /\ I!MaxPeriod(params) > params.period /\ I!MaxPeriod(params) > params.k
         /\ I!MaxPeriod(params) >= params.fast /\ I!MaxPeriod(params) >= params.slow
<1> DEFINE S == {DefaultWindow, params.slow + params.signal + WideMargin,
           params.fast + WideMargin}
                  \union {params[f] + Margin : f \in {"period", "k", "d"}}
<1>1. Periods \subseteq Nat \ {0, 1} /\ params.period = params["period"]
      /\ params.k = params["k"] /\ params.d = params["d"]
  BY ParamsAre
<1>2. DefaultWindow \in Nat /\ WideMargin \in Nat /\ Margin \in Nat \ {0}
  BY MarginsAre
<1>3. {params.period, params.fast, params.slow, params.signal, params.k,
      params.d} \subseteq Nat \ {0, 1}
  BY <1>1 DEF Periods
<1>4. S = {DefaultWindow, params.slow + params.signal + WideMargin, params.fast + WideMargin,
           params.period + Margin, params.k + Margin, params.d + Margin}
  OBVIOUS
<1> DEFINE b == DefaultWindow + params.slow + params.signal + WideMargin + params.fast + Margin
                  + params.period + params.k + params.d
<1>5. b \in Int /\ \A x \in S : x \in Nat /\ x <= b
  BY <1>2, <1>3, <1>4
<1>6. I!MaxPeriod(params) = I!Max(S)
  BY DEF I!MaxPeriod
<1> HIDE DEF b
<1>7. S \subseteq Int /\ S # {} /\ S \subseteq Nat /\ \A x \in S : x <= b
  BY <1>4, <1>5
<1>8. I!MaxPeriod(params) \in S /\ \A x \in S : x <= I!MaxPeriod(params)
  <2> HIDE DEF S
  <2> QED
    BY <1>5, <1>6, <1>7, MaxIs
<1>9. I!MaxPeriod(params) \in Nat
  <2> HIDE DEF S
  <2> QED
    BY <1>7, <1>8
<1>10. /\ params.period + Margin <= I!MaxPeriod(params)
            /\ params.k + Margin <= I!MaxPeriod(params)
       /\ params.fast + WideMargin <= I!MaxPeriod(params)
       /\ params.slow + params.signal + WideMargin <= I!MaxPeriod(params)
  BY <1>4, <1>8
<1> QED
  BY <1>2, <1>3, <1>9, <1>10

LEMMA FullIs ==
  ASSUME Full
  PROVE  /\ params \in Definitions /\ Periods \subseteq Nat \ {0, 1}
         /\ Len(window) \in Nat /\ DOMAIN window = 1..Len(window)
              /\ Len(window) = I!MaxPeriod(params)
         /\ Len(window) > params.period /\ Len(window) > params.k
         /\ Len(window) >= params.fast /\ Len(window) >= params.slow
         /\ \A i \in 1..Len(window) : window[i] \in Candles
<1>1. I!IndicatorsAssumption /\ params \in Definitions /\ window \in Seq(Candles)
  BY DEF Full, I!TypeOK
<1>2. Len(window) \in Nat /\ DOMAIN window = 1..Len(window)
      /\ \A i \in 1..Len(window) : window[i] \in Candles
  BY <1>1
<1>3. Len(window) # 0
  BY <1>1 DEF Full
<1>4. Len(window) = I!MaxPeriod(params)
  BY <1>3 DEF Full, I!TypeOK
<1>5. Periods \subseteq Nat \ {0, 1}
  BY <1>1, ParamsAre
<1>6. /\ I!MaxPeriod(params) > params.period /\ I!MaxPeriod(params) > params.k
      /\ I!MaxPeriod(params) >= params.fast /\ I!MaxPeriod(params) >= params.slow
  BY <1>1, MaxPeriodIs
<1> QED
  BY <1>1, <1>2, <1>4, <1>5, <1>6

LEMMA CandleIs ==
  ASSUME Full, NEW i \in 1..Len(window)
  PROVE  /\ window[i].close \in Nat /\ window[i].high \in Nat /\ window[i].low \in Nat
              /\ window[i].volume \in Nat
         /\ 0 < window[i].low /\ window[i].low <= window[i].close
              /\ window[i].close <= window[i].high
<1>1. window[i] \in Candles
  BY FullIs
<1>2. I!IndicatorsAssumption
  BY DEF Full
<1> QED
  BY <1>1, <1>2 DEF I!IndicatorsAssumption

LEMMA PricesAre ==
  ASSUME Full
  PROVE  /\ From(I!Prices, Len(window), 0) /\ Len(I!Prices) = Len(window)
         /\ \A i \in 1..Len(window) : I!Prices[i] = I!Num(window[i].close) /\ I!Prices[i] \in Q
<1>1. DOMAIN window = 1..Len(window) /\ Len(window) \in Nat
  BY FullIs
<1>2. I!Prices = [i \in 1..Len(window) |-> I!Num(window[i].close)]
  BY <1>1 DEF I!Prices, I!Fractions, I!Closes
<1>3. \A i \in 1..Len(window) : I!Num(window[i].close) \in Q
  BY CandleIs, NumIs
<1>4. Len(I!Prices) = Len(window)
  <2> HIDE DEF I!Prices
  <2> QED
    BY <1>1, <1>2
<1> QED
  BY <1>1, <1>2, <1>3, <1>4 DEF From

(* A mean over a window of a sequence.                                     *)
LEMMA WindowIs ==
  ASSUME NEW S, NEW xs \in Seq(S), NEW p \in Nat, NEW i \in Nat, p <= i, i <= Len(xs)
  PROVE  /\ I!Window(xs, i, p) = Behind(xs, i, p) /\ Len(Behind(xs, i, p)) = p
         /\ DOMAIN Behind(xs, i, p) = 1..p
<1>1. Len(Behind(xs, i, p)) = p /\ DOMAIN Behind(xs, i, p) = 1..p
  BY DEF Behind
<1> DEFINE w == SubSeq(xs, i - p + 1, i)
<1>2. w \in Seq(S)
  OBVIOUS
<1>3. Len(w) = p /\ DOMAIN w = 1..p
  OBVIOUS
<1>4. \A j \in 1..p : w[j] = xs[i - p + j]
  OBVIOUS
<1>5. w = [j \in 1..p |-> w[j]]
  BY <1>2, <1>3
<1> HIDE DEF w
<1>6. w = Behind(xs, i, p)
  BY <1>4, <1>5 DEF Behind
<1> QED
  BY <1>1, <1>6 DEF I!Window, w

LEMMA MeanOfWindow ==
  ASSUME NEW S, NEW xs \in Seq(S), NEW p \in Nat, NEW i \in Nat, p <= i, i <= Len(xs)
  PROVE  I!MeanOf(I!Window(xs, i, p)) = I!Over(I!SumTo(Behind(xs, i, p), p), p)
<1>1. I!Window(xs, i, p) = Behind(xs, i, p) /\ Len(Behind(xs, i, p)) = p
  BY WindowIs
<1> QED
  BY <1>1 DEF I!MeanOf, I!SumOf

LEMMA MeanOfBehind ==
  ASSUME NEW xs, NEW p \in Nat, NEW i
  PROVE  I!MeanOf(Behind(xs, i, p)) = I!Over(I!SumTo(Behind(xs, i, p), p), p)
<1>1. Len(Behind(xs, i, p)) = p
  BY DEF Behind
<1> QED
  BY <1>1 DEF I!MeanOf, I!SumOf

LEMMA LastIs ==
  ASSUME Full, NEW p \in Nat \ {0}, p <= Len(window)
  PROVE  I!Last(p) = I!Window(I!Prices, Len(window), p)
BY FullIs DEF I!Last, I!Window

LEMMA PricesFunction ==
  ASSUME Full
  PROVE  I!Prices \in Seq(Q) /\ Len(I!Prices) = Len(window) /\ Len(window) \in 1..Len(window)
<1>1. DOMAIN window = 1..Len(window) /\ Len(window) \in Nat /\ Len(window) > params.period
      /\ params.period \in Nat
  BY FullIs DEF Periods
<1>2. I!Prices = [i \in 1..Len(window) |-> I!Num(window[i].close)]
  BY <1>1 DEF I!Prices, I!Fractions, I!Closes
<1>3. \A i \in 1..Len(window) : I!Num(window[i].close) \in Q
  BY CandleIs, NumIs
<1> HIDE DEF I!Prices
<1>4. I!Prices \in Seq(Q)
  BY <1>1, <1>2, <1>3
<1>5. Len(I!Prices) = Len(window)
  BY <1>1, <1>2
<1> QED
  BY <1>1, <1>4, <1>5

LEMMA SmaHolds ==
  ASSUME Full
  PROVE  I!Latest(I!Sma(I!Prices, params.period)) = I!MeanOf(I!Last(params.period))
<1> DEFINE n == Len(window)
           p == params.period
<1>1. n \in Nat /\ p \in Nat \ {0} /\ p <= n /\ n \in 1..n
  BY FullIs, PricesFunction DEF Periods
<1>2. From(I!Prices, n, 0) /\ Len(I!Prices) = n /\ I!Prices \in Seq(Q)
  BY PricesAre, PricesFunction
<1>3. 0 \in 0..n /\ ~(n < 0 + p)
  BY <1>1
<1>4. DOMAIN I!Sma(I!Prices, p) = 1..n
      /\ I!Sma(I!Prices, p)[n] = I!Over(I!SumTo(Behind(I!Prices, n, p), p), p)
  <2> HIDE DEF n, p
  <2> QED
    BY <1>1, <1>2, <1>3, SmaIs
<1>5. I!MeanOf(I!Last(p)) = I!Over(I!SumTo(Behind(I!Prices, n, p), p), p)
  <2>1. I!Last(p) = I!Window(I!Prices, n, p)
    BY <1>1, LastIs
  <2> HIDE DEF n, p
  <2> QED
    BY <1>1, <1>2, <2>1, MeanOfWindow
<1> QED
  BY <1>1, <1>4, <1>5 DEF I!Latest

(* The difference of the averages, from where both are there.              *)
LongerIs(a, b) == IF a > b THEN a ELSE b

LEMMA LongerIsMax ==
  ASSUME NEW a \in Int, NEW b \in Int
  PROVE  I!Max({a, b}) = LongerIs(a, b)
<1> DEFINE S == {a, b}
<1>1. LongerIs(a, b) \in S /\ \A x \in S : x <= LongerIs(a, b)
  BY DEF LongerIs
<1>2. LongerIs(a, b) \in Int /\ S \subseteq Int /\ S # {}
  BY DEF LongerIs
<1> HIDE DEF S
<1>3. I!Max(S) \in S /\ \A x \in S : x <= I!Max(S)
  BY <1>1, <1>2, MaxIs
<1>4. I!Max(S) <= LongerIs(a, b) /\ LongerIs(a, b) <= I!Max(S) /\ I!Max(S) \in Int
  BY <1>1, <1>2, <1>3
<1>5. I!Max(S) = LongerIs(a, b)
  BY <1>2, <1>4
<1> QED
  BY <1>5 DEF S

LEMMA MeanTyped ==
  ASSUME NEW xs, NEW i \in Nat, NEW p \in Nat \ {0}, p <= i, NEW n \in Nat, i <= n,
         Rational(xs, n)
  PROVE  I!Over(I!SumTo(Behind(xs, i, p), p), p) \in Q
<1>1. Rational(Behind(xs, i, p), p)
  <2>1. ASSUME NEW j \in 1..p PROVE Behind(xs, i, p)[j] \in Q
    <3>1. i - p + j \in 1..n
      OBVIOUS
    <3> QED
      BY <3>1 DEF Rational, Behind
  <2> QED
    BY <2>1 DEF Rational
<1>2. I!SumTo(Behind(xs, i, p), p) \in Q
  <2>1. p \in 0..p
    OBVIOUS
  <2> QED
    BY <1>1, <2>1, SumTyped
<1> QED
  BY <1>2, OverTyped

LEMMA MissingDifference ==
  /\ \A x \in Q : I!Minus(I!None, x) = I!None /\ I!Minus(x, I!None) = I!None
  /\ I!Minus(I!None, I!None) = I!None
<1>1. <<-I!None[1], I!None[2]>> = I!None
  <2>1. I!None[1] = 0 /\ I!None[2] = 0
    BY DEF I!None
  <2>2. \A z \in Int : -z = 0 - z
    OBVIOUS
  <2>3. I!None[1] \in Int
    BY <2>1
  <2>4. -I!None[1] = 0 - I!None[1]
    BY <2>2, <2>3
  <2>5. 0 - I!None[1] = 0
    BY <2>1
  <2> QED
    BY <2>1, <2>4, <2>5 DEF I!None
<1> QED
  BY <1>1 DEF I!Minus, I!Plus

LEMMA LineIs ==
  ASSUME NEW xs \in Seq(Q), NEW f \in Nat \ {0}, NEW s \in Nat \ {0}
  PROVE  /\ DOMAIN I!MacdLine(xs, f, s) = 1..Len(xs)
         /\ \A i \in 1..Len(xs) :
              IF i < LongerIs(f, s) THEN I!MacdLine(xs, f, s)[i] = I!None
              ELSE /\ I!MacdLine(xs, f, s)[i] \in Q
                   /\ I!MacdLine(xs, f, s)[i] = I!Minus(I!MeanOf(I!Window(xs, i, f)),
                      I!MeanOf(I!Window(xs, i, s)))
<1> DEFINE n == Len(xs)
           F == I!Sma(xs, f)
           S == I!Sma(xs, s)
           Mean(i, p) == I!Over(I!SumTo(Behind(xs, i, p), p), p)
<1>1. n \in Nat /\ DOMAIN xs = 1..n /\ \A i \in 1..n : xs[i] \in Q
  OBVIOUS
<1>2. From(xs, n, 0) /\ Rational(xs, n) /\ 0 \in 0..n
  BY <1>1 DEF From, Rational
<1>3. DOMAIN F = 1..n /\ \A i \in 1..n : F[i] = IF i < 0 + f THEN I!None ELSE Mean(i, f)
  BY <1>1, <1>2, SmaIs
<1>4. DOMAIN S = 1..n /\ \A i \in 1..n : S[i] = IF i < 0 + s THEN I!None ELSE Mean(i, s)
  BY <1>1, <1>2, SmaIs
<1>5. \A i \in 1..n : f <= i => Mean(i, f) \in Q
  BY <1>1, <1>2, MeanTyped
<1>6. \A i \in 1..n : s <= i => Mean(i, s) \in Q
  BY <1>1, <1>2, MeanTyped
<1>7. \A i \in 1..n : f <= i => I!MeanOf(I!Window(xs, i, f)) = Mean(i, f)
  BY <1>1, MeanOfWindow
<1>8. \A i \in 1..n : s <= i => I!MeanOf(I!Window(xs, i, s)) = Mean(i, s)
  BY <1>1, MeanOfWindow
<1>9. I!MacdLine(xs, f, s) = [i \in 1..n |-> I!Minus(F[i], S[i])]
  BY <1>1 DEF I!MacdLine
<1> HIDE DEF n, F, S, Mean
<1>10. ASSUME NEW i \in 1..n, i < LongerIs(f, s) PROVE I!Minus(F[i], S[i]) = I!None
  <2>1. i < f \/ i < s
    BY <1>10 DEF LongerIs
  <2>2. F[i] = I!None \/ S[i] = I!None
    BY <1>1, <1>3, <1>4, <2>1
  <2>3. (F[i] = I!None \/ F[i] \in Q) /\ (S[i] = I!None \/ S[i] \in Q)
    BY <1>1, <1>3, <1>4, <1>5, <1>6
  <2> QED
    BY <2>2, <2>3, MissingDifference
<1>11. ASSUME NEW i \in 1..n, ~(i < LongerIs(f, s))
       PROVE  /\ I!Minus(F[i], S[i]) \in Q
              /\ I!Minus(F[i], S[i]) = I!Minus(I!MeanOf(I!Window(xs, i, f)),
                 I!MeanOf(I!Window(xs, i, s)))
  <2>1. f <= i /\ s <= i /\ ~(i < 0 + f) /\ ~(i < 0 + s)
    BY <1>1, <1>11 DEF LongerIs
  <2>2. F[i] = Mean(i, f) /\ S[i] = Mean(i, s)
    BY <1>3, <1>4, <2>1
  <2>3. Mean(i, f) \in Q /\ Mean(i, s) \in Q
    BY <1>5, <1>6, <2>1
  <2> QED
    BY <1>7, <1>8, <2>1, <2>2, <2>3, OpsTyped
<1> QED
  BY <1>9, <1>10, <1>11 DEF n

LEMMA SignalHolds ==
  ASSUME Full
  PROVE  I!Latest(I!MacdSignal(I!Prices, params.fast, params.slow, params.signal)) =
           IF Len(window) >= I!Max({params.fast, params.slow}) + params.signal - 1
             THEN I!SignalMeant ELSE I!None
<1> DEFINE n == Len(window)
           f == params.fast
           s == params.slow
           p == params.signal
           m == LongerIs(f, s)
           line == I!MacdLine(I!Prices, f, s)
           meant(i) == I!Minus(I!MeanOf(I!Window(I!Prices, i, f)),
             I!MeanOf(I!Window(I!Prices, i, s)))
<1>1. n \in Nat /\ n \in 1..n /\ f \in Nat \ {0} /\ s \in Nat \ {0} /\ p \in Nat \ {0}
      /\ f <= n /\ s <= n
  BY FullIs, PricesFunction DEF Periods
<1>2. I!Prices \in Seq(Q) /\ Len(I!Prices) = n
  BY PricesFunction
<1>3. I!Max({f, s}) = m
  <2> HIDE DEF f, s, m
  <2>1. f \in Int /\ s \in Int
    BY <1>1
  <2> QED
    BY <2>1, LongerIsMax DEF m
<1>4. I!Latest(I!MacdSignal(I!Prices, f, s, p)) =
        IF n \in DOMAIN I!MacdSignal(I!Prices, f, s, p)
          THEN I!MacdSignal(I!Prices, f, s, p)[n] ELSE I!None
  BY DEF I!Latest
<1>5. I!MacdSignal(I!Prices, f, s, p) = I!Sma(line, p)
  BY DEF I!MacdSignal
<1>6. I!SignalMeant = I!MeanOf([j \in 1..p |-> meant(n - p + j)])
  BY DEF I!SignalMeant
<1> HIDE DEF n, f, s, p, line
<1>7. m \in Nat \ {0} /\ m <= n
  BY <1>1 DEF LongerIs
<1>8. DOMAIN line = 1..n
      /\ \A i \in 1..n : IF i < m THEN line[i] = I!None ELSE line[i] \in Q /\ line[i] = meant(i)
  BY <1>1, <1>2, LineIs DEF line
<1> HIDE DEF m, meant
<1>9. m - 1 \in 0..n /\ From(line, n, m - 1)
  <2>1. \A i \in 1..n : i <= m - 1 <=> i < m
    BY <1>1, <1>7
  <2> QED
    BY <1>1, <1>7, <1>8, <2>1 DEF From
<1>10. Len(line) = n
  <2>1. line = [i \in 1..n |-> line[i]]
    BY <1>1, <1>2 DEF line, I!MacdLine
  <2> QED
    BY <1>1, <2>1
<1>11. DOMAIN I!Sma(line, p) = 1..n
       /\ I!Sma(line, p)[n] = IF n < (m - 1) + p THEN I!None
          ELSE I!Over(I!SumTo(Behind(line, n, p), p), p)
  BY <1>1, <1>9, <1>10, SmaIs
<1>12. ASSUME n >= m + p - 1 PROVE I!SignalMeant = I!Over(I!SumTo(Behind(line, n, p), p), p)
  <2>1. \A j \in 1..p : n - p + j \in 1..n /\ ~(n - p + j < m)
    BY <1>1, <1>7, <1>12
  <2>2. \A j \in 1..p : line[n - p + j] = meant(n - p + j)
    BY <1>8, <2>1
  <2>3. Behind(line, n, p) = [j \in 1..p |-> meant(n - p + j)]
    BY <2>2 DEF Behind
  <2>4. I!SignalMeant = I!MeanOf(Behind(line, n, p))
    BY <1>6, <2>3
  <2> QED
    BY <1>1, <2>4, MeanOfBehind
<1>13. (n >= m + p - 1) <=> ~(n < (m - 1) + p)
  BY <1>1, <1>7
<1>14. I!Latest(I!MacdSignal(I!Prices, f, s, p)) = IF n >= m + p - 1 THEN I!SignalMeant
       ELSE I!None
  BY <1>1, <1>4, <1>5, <1>11, <1>12, <1>13
<1> QED
  BY <1>3, <1>14 DEF n, f, s, p

LEMMA BandHolds ==
  ASSUME Full
  PROVE  I!Latest(I!Bollinger(window, params.period)).middle = I!MeanOf(I!Last(params.period))
<1> DEFINE n == Len(window)
           p == params.period
           cs == I!Closes(window)
           xs == I!Fractions(I!Window(cs, n, p))
<1>1. n \in Nat /\ p \in Nat \ {0} /\ p <= n /\ n \in 1..n /\ n \in p..n /\ DOMAIN window = 1..n
  BY FullIs, PricesFunction DEF Periods
<1>2. I!Latest(I!Bollinger(window, p)).middle = I!MeanOf(xs)
  BY <1>1 DEF I!Latest, I!Bollinger
<1>3. cs \in Seq(Nat) /\ Len(cs) = n /\ \A i \in 1..n : cs[i] = window[i].close
  <2>1. \A i \in 1..n : window[i].close \in Nat
    BY CandleIs
  <2>2. cs = [i \in 1..n |-> window[i].close]
    BY <1>1 DEF I!Closes
  <2> HIDE DEF cs, n
  <2> QED
    BY <1>1, <2>1, <2>2
<1>4. I!Window(cs, n, p) = Behind(cs, n, p) /\ DOMAIN Behind(cs, n, p) = 1..p
  <2> HIDE DEF cs, n, p
  <2> QED
    BY <1>1, <1>3, WindowIs
<1>5. I!Last(p) = Behind(I!Prices, n, p)
  <2>1. I!Last(p) = I!Window(I!Prices, n, p)
    BY <1>1, LastIs
  <2>2. I!Prices \in Seq(Q) /\ Len(I!Prices) = n
    BY PricesFunction
  <2> HIDE DEF n, p
  <2> QED
    BY <1>1, <2>1, <2>2, WindowIs
<1>6. ASSUME NEW j \in 1..p PROVE I!Num(cs[n - p + j]) = I!Prices[n - p + j]
  <2>1. n - p + j \in 1..n
    BY <1>1
  <2> QED
    BY <1>3, <2>1, PricesAre
<1>7. xs = [j \in 1..p |-> I!Num(cs[n - p + j])]
  BY <1>4 DEF I!Fractions, Behind
<1>8. xs = Behind(I!Prices, n, p)
  <2> HIDE DEF xs, cs, n, p
  <2> QED
    BY <1>6, <1>7 DEF Behind
<1> QED
  BY <1>2, <1>5, <1>8

-----------------------------------------------------------------------------
(* A share of a whole, in percent.                                         *)
LEMMA PercentBetween ==
  ASSUME NEW a \in Nat, NEW b \in Nat \ {0}, a <= b
  PROVE  I!Ratio(100 * a, b) \in Q /\ I!Between(I!Ratio(100 * a, b), 0, 100)
<1>1. I!Ratio(100 * a, b) \in Q /\ Is(I!Ratio(100 * a, b), 100 * a, b)
  BY IsRatio
<1>2. 0 * b <= 100 * a /\ 100 * a <= 100 * b /\ 100 * a \in Int
  OBVIOUS
<1>3. I!Ratio(100 * a, b) \in Fr
  BY <1>1, QIs
<1> QED
  BY <1>1, <1>2, <1>3, BelowIs DEF I!Between

LEMMA NumBetween ==
  ASSUME NEW c \in Int, NEW lo \in Int, NEW hi \in Int, lo <= c, c <= hi
  PROVE  I!Num(c) \in Q /\ I!Between(I!Num(c), lo, hi)
<1>1. I!Num(c) \in Q /\ I!Num(c) \in Fr /\ Is(I!Num(c), c, 1)
  BY NumIs
<1>2. lo * 1 <= c /\ c <= hi * 1
  OBVIOUS
<1> QED
  BY <1>1, <1>2, BelowIs DEF I!Between

LEMMA HighsAre ==
  ASSUME Full
  PROVE  /\ I!Highs(window) \in Seq(Nat) /\ Len(I!Highs(window)) = Len(window)
         /\ I!Lows(window) \in Seq(Nat) /\ Len(I!Lows(window)) = Len(window)
         /\ \A i \in 1..Len(window) : I!Highs(window)[i] = window[i].high
              /\ I!Lows(window)[i] = window[i].low
<1> DEFINE n == Len(window)
           hs == I!Highs(window)
           ls == I!Lows(window)
<1>1. n \in Nat /\ DOMAIN window = 1..n
  BY FullIs
<1>2. \A i \in 1..n : window[i].high \in Nat /\ window[i].low \in Nat
  BY CandleIs
<1>3. hs = [i \in 1..n |-> window[i].high] /\ ls = [i \in 1..n |-> window[i].low]
  BY <1>1 DEF I!Highs, I!Lows
<1> HIDE DEF n, hs, ls
<1>4. hs \in Seq(Nat) /\ Len(hs) = n
  BY <1>1, <1>2, <1>3
<1>5. ls \in Seq(Nat) /\ Len(ls) = n
  BY <1>1, <1>2, <1>3
<1>6. \A i \in 1..n : hs[i] = window[i].high /\ ls[i] = window[i].low
  BY <1>3
<1> QED
  BY <1>4, <1>5, <1>6 DEF n, hs, ls

(* The highest and the lowest price of a window, around its last close.    *)
LEMMA WindowPrices ==
  ASSUME Full, NEW p \in Nat \ {0}, NEW i \in p..Len(window)
  PROVE  /\ I!Window(I!Highs(window), i, p) \in [1..p -> Nat]
         /\ I!Window(I!Lows(window), i, p) \in [1..p -> Nat]
         /\ I!Window(I!Highs(window), i, p)[p] = window[i].high
         /\ I!Window(I!Lows(window), i, p)[p] = window[i].low
<1> DEFINE hs == I!Highs(window)
           ls == I!Lows(window)
           n == Len(window)
<1>1. hs \in Seq(Nat) /\ Len(hs) = n /\ ls \in Seq(Nat) /\ Len(ls) = n /\ n \in Nat
      /\ \A j \in 1..n : hs[j] = window[j].high /\ ls[j] = window[j].low
  BY HighsAre, FullIs
<1> HIDE DEF hs, ls, n
<1>2. i \in Nat /\ p <= i /\ i <= n /\ i \in 1..n /\ p \in 1..p /\ i - p + p = i
  BY <1>1 DEF n
<1>3. I!Window(hs, i, p) = Behind(hs, i, p)
  BY <1>1, <1>2, WindowIs
<1>4. I!Window(ls, i, p) = Behind(ls, i, p)
  BY <1>1, <1>2, WindowIs
<1>5. \A j \in 1..p : i - p + j \in 1..n
  <2>1. n \in Nat
    BY <1>1
  <2> QED
    BY <1>2, <2>1
<1>6. \A j \in 1..p : hs[i - p + j] \in Nat /\ ls[i - p + j] \in Nat
  <2>1. \A m \in 1..n : hs[m] \in Nat /\ ls[m] \in Nat
    BY <1>1
  <2> QED
    BY <1>5, <2>1
<1>7. Behind(hs, i, p) \in [1..p -> Nat] /\ Behind(ls, i, p) \in [1..p -> Nat]
  BY <1>6 DEF Behind
<1>8. Behind(hs, i, p)[p] = hs[i] /\ Behind(ls, i, p)[p] = ls[i]
  BY <1>2 DEF Behind
<1> QED
  BY <1>1, <1>2, <1>3, <1>4, <1>7, <1>8 DEF hs, ls

LEMMA StochKIs ==
  ASSUME Full, NEW k \in Nat \ {0}, NEW i \in k..Len(window)
  PROVE  I!StochK(window, k)[i] \in Q /\ I!Between(I!StochK(window, k)[i], 0, 100)
<1> DEFINE hs == I!Window(I!Highs(window), i, k)
           ls == I!Window(I!Lows(window), i, k)
           high == I!Highest(hs)
           low  == I!Lowest(ls)
           c == window[i].close
<1>1. hs \in [1..k -> Nat] /\ ls \in [1..k -> Nat] /\ hs[k] = window[i].high
      /\ ls[k] = window[i].low /\ k \in 1..k
  BY WindowPrices
<1>2. I!StochK(window, k)[i] = IF high = low THEN I!Num(50)
      ELSE I!Ratio(100 * (c - low), high - low)
  BY DEF I!StochK
<1>3. i \in 1..Len(window)
  BY FullIs
<1>4. c \in Nat /\ window[i].low <= c /\ c <= window[i].high /\ window[i].low \in Nat
      /\ window[i].high \in Nat
  BY <1>3, CandleIs
<1> HIDE DEF hs, ls
<1>5. high \in Nat /\ window[i].high <= high
  BY <1>1, HighestIs
<1>6. low \in Nat /\ low <= window[i].low
  BY <1>1, LowestIs
<1> HIDE DEF high, low, c
<1>7. c - low \in Nat /\ high - low \in Nat /\ c - low <= high - low
  BY <1>4, <1>5, <1>6
<1>8. CASE high = low
  BY <1>2, <1>8, NumBetween
<1>9. CASE high # low
  <2>1. high - low \in Nat \ {0}
    BY <1>5, <1>6, <1>7, <1>9
  <2> QED
    BY <1>2, <1>7, <1>9, <2>1, PercentBetween
<1> QED
  BY <1>8, <1>9

(* The last d values of the fast line.                                     *)
LEMMA StochDIs ==
  ASSUME Full
  PROVE  LET n == Len(window)
             k == params.k
             d == params.d
             last == [j \in 1 .. d |-> I!StochK(window, k)[n - d + j]]
         IN  /\ n < k + d - 1 => I!Latest(I!StochD(window, k, d)) = I!None
             /\ n >= k + d - 1 => /\ I!Latest(I!StochD(window, k, d)) = I!MeanOf(last)
                                  /\ I!MeanOf(last) \in Q /\ I!Between(I!MeanOf(last), 0, 100)
<1> DEFINE n == Len(window)
           k == params.k
           d == params.d
           K == I!StochK(window, k)
           last == [j \in 1..d |-> K[n - d + j]]
           ks == [i \in 1 .. n - k + 1 |-> K[k - 1 + i]]
           D == I!StochD(window, k, d)
<1>1. n \in Nat /\ k \in Nat \ {0} /\ d \in Nat \ {0} /\ k < n
  BY FullIs DEF Periods
<1>2. \A i \in k..n : K[i] \in Q /\ I!Between(K[i], 0, 100)
  BY <1>1, StochKIs
<1>3. D = [i \in k + d - 1 .. n |-> I!Over(I!Minus(I!SumTo(ks, i - k + 1),
      I!SumTo(ks, i - k + 1 - d)), d)]
  BY DEF I!StochD
<1>4. I!Latest(D) = IF n \in DOMAIN D THEN D[n] ELSE I!None
  BY DEF I!Latest
<1> HIDE DEF n, k, d, K, D
<1>5. ASSUME n < k + d - 1 PROVE I!Latest(D) = I!None
  <2>1. n \notin k + d - 1 .. n
    BY <1>1, <1>5
  <2>2. DOMAIN D = k + d - 1 .. n
    BY <1>3
  <2> QED
    BY <1>4, <2>1, <2>2
<1>6. ASSUME n >= k + d - 1
      PROVE  I!Latest(D) = I!MeanOf(last) /\ I!MeanOf(last) \in Q
               /\ I!Between(I!MeanOf(last), 0, 100)
  <2> DEFINE a == n - k + 1 - d
  <2>1. a \in Nat /\ a + d = n - k + 1
    BY <1>1, <1>6
  <2>2. I!Latest(D) = I!Over(I!Minus(I!SumTo(ks, n - k + 1), I!SumTo(ks, n - k + 1 - d)), d)
    <3>1. n \in k + d - 1 .. n
      BY <1>1, <1>6
    <3> HIDE DEF ks
    <3> QED
      BY <1>3, <1>4, <3>1
  <2>3. Rational(ks, a + d)
    <3>1. SUFFICES ASSUME NEW i \in 1..(a + d) PROVE ks[i] \in Q
      BY DEF Rational
    <3>2. k - 1 + i \in k..n /\ i \in 1..n - k + 1
      BY <1>1, <2>1
    <3> QED
      BY <1>2, <3>2
  <2>4. ASSUME NEW j \in 1..d
        PROVE last[j] = ks[a + j] /\ last[j] \in Q /\ I!Between(last[j], 0, 100)
    <3>1. a + j \in 1 .. n - k + 1 /\ k - 1 + (a + j) = n - d + j /\ n - d + j \in k..n
      BY <1>1, <2>1
    <3> QED
      BY <1>2, <3>1
  <2>5. Len(last) = d
    BY <1>1
  <2> HIDE DEF a, ks, last
  <2>6. I!Minus(I!SumTo(ks, a + d), I!SumTo(ks, a)) = I!SumTo(last, d)
    BY <1>1, <2>1, <2>3, <2>4, WindowSum
  <2>7. I!Latest(D) = I!Over(I!SumTo(last, d), d)
    BY <2>1, <2>2, <2>6 DEF a
  <2>8. I!MeanOf(last) = I!Over(I!SumTo(last, d), d)
    BY <2>5 DEF I!MeanOf, I!SumOf
  <2>9. Rational(last, d)
    BY <2>4 DEF Rational
  <2>10. I!Over(I!SumTo(last, d), d) \in Q /\ I!Between(I!Over(I!SumTo(last, d), d), 0, 100)
    BY <1>1, <2>4, <2>9, MeanBetween
  <2> QED
    BY <2>7, <2>8, <2>10
<1> QED
  BY <1>5, <1>6 DEF n, k, d, K, D

(* The averages together.                                                  *)
LEMMA AveragesHold ==
  ASSUME Full
  PROVE  I!AveragesAreOfTheirWindow
<1>1. Len(window) \in Nat /\ params.k \in Nat /\ params.d \in Nat
  BY FullIs DEF Periods
<1>2. I!Latest(I!StochD(window, params.k, params.d)) =
         IF Len(window) >= params.k + params.d - 1
         THEN I!MeanOf([j \in 1 .. params.d |-> I!StochK(window,
           params.k)[Len(window) - params.d + j]])
         ELSE I!None
  BY <1>1, StochDIs
<1> QED
  BY <1>2, SmaHolds, SignalHolds, BandHolds DEF I!AveragesAreOfTheirWindow

-----------------------------------------------------------------------------
(* Aroon.                                                                  *)
LEMMA ArgFirstIs ==
  ASSUME NEW n \in Nat \ {0}, NEW xs \in [1..n -> Nat], NEW best, \E i \in 1..n : xs[i] = best
  PROVE  I!ArgFirst(xs, best) \in 1..n
<1> DEFINE S == {i \in DOMAIN xs : xs[i] = best}
<1>1. S \subseteq Nat /\ S # {} /\ S \subseteq 1..n
  OBVIOUS
<1>2. I!ArgFirst(xs, best) = I!Min(S)
  BY DEF I!ArgFirst
<1> HIDE DEF S
<1> QED
  BY <1>1, <1>2, MinIs

LEMMA AroonHolds ==
  ASSUME Full
  PROVE  \A x \in {I!AroonUp(window, params.period, Len(window)),
         I!AroonDown(window, params.period, Len(window))} :
           x \in Q /\ I!Between(x, 0, 100)
<1> DEFINE n == Len(window)
           p == params.period
           hs == I!Window(I!Highs(window), n, p)
           ls == I!Window(I!Lows(window), n, p)
           up == I!ArgFirst(hs, I!Highest(hs))
           down == I!ArgFirst(ls, I!Lowest(ls))
<1>1. n \in Nat /\ p \in Nat \ {0, 1} /\ p < n /\ n \in p..n
  BY FullIs DEF Periods
<1>2. hs \in [1..p -> Nat] /\ ls \in [1..p -> Nat]
  BY <1>1, WindowPrices
<1>3. I!AroonUp(window, p, n) = I!Ratio(100 * (p - up), p - 1)
  BY DEF I!AroonUp
<1>4. I!AroonDown(window, p, n) = I!Ratio(100 * (p - down), p - 1)
  BY DEF I!AroonDown
<1> HIDE DEF n, p, hs, ls
<1>5. up \in 1..p
  BY <1>1, <1>2, HighestIs, ArgFirstIs
<1>6. down \in 1..p
  BY <1>1, <1>2, LowestIs, ArgFirstIs
<1> HIDE DEF up, down
<1>7. p - up \in Nat /\ p - down \in Nat /\ p - 1 \in Nat \ {0} /\ p - up <= p - 1
      /\ p - down <= p - 1
  BY <1>1, <1>5, <1>6
<1>8. I!AroonUp(window, p, n) \in Q /\ I!Between(I!AroonUp(window, p, n), 0, 100)
  BY <1>3, <1>7, PercentBetween
<1>9. I!AroonDown(window, p, n) \in Q /\ I!Between(I!AroonDown(window, p, n), 0, 100)
  BY <1>4, <1>7, PercentBetween
<1> QED
  BY <1>8, <1>9 DEF n, p

-----------------------------------------------------------------------------
(* What is computed step by step from some place on.                       *)
LEMMA ClimbFrom ==
  ASSUME NEW first \in Nat, NEW last \in Nat, NEW S, first \in S,
         \A i \in first + 1 .. last : i - 1 \in S => i \in S
  PROVE  \A i \in first..last : i \in S
<1>1. SUFFICES ASSUME NEW i \in first..last PROVE i \in S
  OBVIOUS
<1> DEFINE n == last - first
           T == {j \in 0..n : first + j \in S}
<1>2. n \in Nat /\ i - first \in 0..n /\ first + (i - first) = i
  OBVIOUS
<1>3. 0 \in T
  BY <1>2
<1>4. ASSUME NEW j \in 1..n, j - 1 \in T PROVE j \in T
  <2>1. first + (j - 1) \in S /\ first + (j - 1) = (first + j) - 1
    BY <1>4
  <2>2. first + j \in first + 1 .. last
    OBVIOUS
  <2> QED
    BY <2>1, <2>2
<1> HIDE DEF T, n
<1>5. \A j \in 0..n : j \in T
  BY <1>2, <1>3, <1>4, Climb
<1>6. i - first \in T
  BY <1>2, <1>5
<1> QED
  BY <1>2, <1>6 DEF T

FollowsFrom(f, a, first, last, g) ==
  f[first] = a /\ \A i \in first + 1 .. last : f[i] = g[<<i, f[i - 1]>>]

LEMMA StepsFrom ==
  ASSUME NEW first \in Nat, NEW last \in Nat, first <= last, NEW X, NEW a \in X,
         NEW g \in [(first + 1 .. last) \X X -> X]
  PROVE  \E f \in [first..last -> X] : FollowsFrom(f, a, first, last, g)
<1> DEFINE n == last - first
           h == [y \in (1..n) \X X |-> g[<<first + y[1], y[2]>>]]
<1>1. n \in Nat
  OBVIOUS
<1>2. h \in [(1..n) \X X -> X] /\ \A j \in 1..n, x \in X : h[<<j, x>>] = g[<<first + j, x>>]
  OBVIOUS
<1> HIDE DEF h, n
<1>3. PICK e \in [0..n -> X] : Follows(e, a, n, h)
  BY <1>1, <1>2, StepsExist, Zenon
<1> DEFINE f == [i \in first..last |-> e[i - first]]
<1>4. \A i \in first..last : i - first \in 0..n
  BY DEF n
<1>5. f \in [first..last -> X]
  BY <1>4
<1>6. f[first] = a
  <2>1. first \in first..last /\ first - first = 0
    OBVIOUS
  <2> QED
    BY <1>3, <2>1 DEF Follows
<1>7. ASSUME NEW i \in first + 1 .. last PROVE f[i] = g[<<i, f[i - 1]>>]
  <2>1. i \in first..last /\ i - 1 \in first..last /\ i - first \in 1..n
    BY DEF n
  <2>2. (i - 1) - first = (i - first) - 1 /\ first + (i - first) = i
    OBVIOUS
  <2>3. f[i] = e[i - first] /\ f[i - 1] = e[(i - first) - 1]
    BY <2>1, <2>2
  <2>4. e[i - first] = h[<<i - first, e[(i - first) - 1]>>]
    BY <1>3, <2>1 DEF Follows
  <2>5. e[(i - first) - 1] \in X
    BY <1>4, <2>1, <2>2
  <2> QED
    BY <1>2, <2>1, <2>2, <2>3, <2>4, <2>5
<1> HIDE DEF f
<1>8. FollowsFrom(f, a, first, last, g)
  BY <1>6, <1>7 DEF FollowsFrom
<1> QED
  BY <1>5, <1>8

-----------------------------------------------------------------------------
(* Wilder's average.                                                       *)
WilderStep(q, x, p) == I!Over(I!Plus(I!Times(q, I!Num(p - 1)), x), p)

LEMMA WilderStepIs ==
  ASSUME NEW q \in Q, NEW x \in Q, NEW p \in Nat \ {0}
  PROVE  /\ WilderStep(q, x, p) \in Q
         /\ \A c \in Int : I!AtMost(I!Num(c), q) /\ I!AtMost(I!Num(c), x)
              => I!AtMost(I!Num(c), WilderStep(q, x, p))
         /\ \A c \in Int : I!AtMost(q, I!Num(c)) /\ I!AtMost(x, I!Num(c))
              => I!AtMost(WilderStep(q, x, p), I!Num(c))
<1> DEFINE a == q[1]
           b == q[2]
           e == x[1]
           d == x[2]
           r == p - 1
           s == WilderStep(q, x, p)
<1>1. q \in Fr /\ a \in Int /\ b \in Nat \ {0} /\ Is(q, a, b)
  BY QParts
<1>2. x \in Fr /\ e \in Int /\ d \in Nat \ {0} /\ Is(x, e, d)
  BY QParts
<1>3. r \in Nat /\ r + 1 = p
  OBVIOUS
<1>4. s = I!Over(I!Plus(I!Times(q, I!Num(r)), x), p)
  BY DEF WilderStep
<1> HIDE DEF a, b, e, d, r, s
<1>5. I!Times(q, I!Num(r)) \in Q /\ Is(I!Times(q, I!Num(r)), a * r, b * 1)
  BY <1>1, <1>3, NumIs, TimesIs
<1>6. a * r \in Int /\ b * 1 = b
  BY <1>1, <1>3
<1>7. I!Plus(I!Times(q, I!Num(r)), x) \in Q
      /\ Is(I!Plus(I!Times(q, I!Num(r)), x), (a * r) * d + e * b, b * d)
  BY <1>1, <1>2, <1>5, <1>6, PlusIs, QIs
<1>8. (a * r) * d + e * b \in Int /\ b * d \in Nat \ {0} /\ (b * d) * p \in Nat \ {0}
  BY <1>1, <1>2, <1>3, Positive
<1>9. s \in Q /\ Is(s, (a * r) * d + e * b, (b * d) * p)
  BY <1>4, <1>7, <1>8, OverIs, QIs
<1>10. s \in Fr
  BY <1>9, QIs
<1>11. r * d \in Nat
  BY <1>2, <1>3
<1>12. ASSUME NEW c \in Int, I!AtMost(I!Num(c), q), I!AtMost(I!Num(c), x)
      PROVE I!AtMost(I!Num(c), s)
  <2>1. c * b <= a
    BY <1>1, <1>12, BelowIs
  <2>2. c * d <= e
    BY <1>2, <1>12, BelowIs
  <2>3. (c * b) * (r * d) <= a * (r * d)
    BY <1>1, <1>11, <2>1, Grows
  <2>4. (c * d) * b <= e * b
    BY <1>1, <1>2, <2>2, Grows
  <2>5. c * ((b * d) * p) = (c * b) * (r * d) + (c * d) * b
    BY <1>1, <1>2, <1>3
  <2>6. a * (r * d) = (a * r) * d
    BY <1>1, <1>2, <1>3
  <2>7. c * ((b * d) * p) <= (a * r) * d + e * b
    <3> DEFINE u == (c * b) * (r * d)
               v == (c * d) * b
               w == (a * r) * d
               z == e * b
    <3>1. u \in Int /\ v \in Int /\ w \in Int /\ z \in Int
      BY <1>1, <1>2, <1>3
    <3>2. u <= w /\ v <= z
      BY <2>3, <2>4, <2>6
    <3> HIDE DEF u, v, w, z
    <3>3. u + v <= w + z
      BY <3>1, <3>2
    <3> QED
      BY <2>5, <3>3 DEF u, v, w, z
  <2> QED
    BY <1>8, <1>9, <1>10, <2>7, BelowIs
<1>13. ASSUME NEW c \in Int, I!AtMost(q, I!Num(c)), I!AtMost(x, I!Num(c))
      PROVE I!AtMost(s, I!Num(c))
  <2>1. a <= c * b
    BY <1>1, <1>13, BelowIs
  <2>2. e <= c * d
    BY <1>2, <1>13, BelowIs
  <2>3. a * (r * d) <= (c * b) * (r * d)
    BY <1>1, <1>11, <2>1, Grows
  <2>4. e * b <= (c * d) * b
    BY <1>1, <1>2, <2>2, Grows
  <2>5. c * ((b * d) * p) = (c * b) * (r * d) + (c * d) * b
    BY <1>1, <1>2, <1>3
  <2>6. a * (r * d) = (a * r) * d
    BY <1>1, <1>2, <1>3
  <2>7. (a * r) * d + e * b <= c * ((b * d) * p)
    <3> DEFINE u == (c * b) * (r * d)
               v == (c * d) * b
               w == (a * r) * d
               z == e * b
    <3>1. u \in Int /\ v \in Int /\ w \in Int /\ z \in Int
      BY <1>1, <1>2, <1>3
    <3>2. w <= u /\ z <= v
      BY <2>3, <2>4, <2>6
    <3> HIDE DEF u, v, w, z
    <3>3. w + z <= u + v
      BY <3>1, <3>2
    <3> QED
      BY <2>5, <3>3 DEF u, v, w, z
  <2> QED
    BY <1>8, <1>9, <1>10, <2>7, BelowIs
<1> QED
  BY <1>9, <1>12, <1>13 DEF s

WilderBody(f, first, seed, last, xs, p) ==
  [i \in first .. last |-> IF i = first THEN seed
    ELSE I!Over(I!Plus(I!Times(f[i - 1], I!Num(p - 1)), xs[i]), p)]

LEMMA WilderIs ==
  ASSUME NEW first \in Nat, NEW last \in Nat, first <= last, NEW p \in Nat \ {0},
         NEW seed \in Q,
         NEW xs, \A i \in first + 1 .. last : xs[i] \in Q
  PROVE  /\ DOMAIN I!Wilder(first, seed, last, xs, p) = first..last
         /\ I!Wilder(first, seed, last, xs, p)[first] = seed
         /\ \A i \in first + 1 .. last :
              I!Wilder(first, seed, last, xs, p)[i]
                  = WilderStep(I!Wilder(first, seed, last, xs, p)[i - 1], xs[i], p)
<1> DEFINE g == [y \in (first + 1 .. last) \X Q |-> WilderStep(y[2], xs[y[1]], p)]
<1>1. g \in [(first + 1 .. last) \X Q -> Q]
  BY WilderStepIs
<1>2. \A i \in first + 1 .. last, q \in Q : g[<<i, q>>] = WilderStep(q, xs[i], p)
  OBVIOUS
<1> HIDE DEF g
<1>3. PICK e \in [first..last -> Q] : FollowsFrom(e, seed, first, last, g)
  BY <1>1, StepsFrom, Zenon
<1>4. ASSUME NEW i \in first + 1 .. last PROVE e[i] = WilderStep(e[i - 1], xs[i], p)
  <2>1. i - 1 \in first..last
    OBVIOUS
  <2>2. e[i - 1] \in Q
    BY <2>1
  <2>3. e[i] = g[<<i, e[i - 1]>>]
    BY <1>3 DEF FollowsFrom
  <2> QED
    BY <1>2, <2>2, <2>3
<1>5. e[first] = seed
  BY <1>3 DEF FollowsFrom
<1>6. e = WilderBody(e, first, seed, last, xs, p)
  <2>1. \A i \in first..last : i # first => i \in first + 1 .. last
    OBVIOUS
  <2>2. \A i \in first..last : e[i] = IF i = first THEN seed
        ELSE I!Over(I!Plus(I!Times(e[i - 1], I!Num(p - 1)), xs[i]), p)
    BY <1>4, <1>5, <2>1 DEF WilderStep
  <2> QED
    BY <2>2 DEF WilderBody
<1> DEFINE w == CHOOSE f : f = WilderBody(f, first, seed, last, xs, p)
<1>7. w = WilderBody(w, first, seed, last, xs, p)
  BY <1>6
<1>8. I!Wilder(first, seed, last, xs, p) = w
  BY DEF I!Wilder, WilderBody
<1> HIDE DEF w
<1>9. DOMAIN w = first..last
  BY <1>7 DEF WilderBody
<1>10. \A i \in first..last : w[i] = IF i = first THEN seed
       ELSE I!Over(I!Plus(I!Times(w[i - 1], I!Num(p - 1)), xs[i]), p)
  BY <1>7 DEF WilderBody
<1>11. first \in first..last /\ \A i \in first + 1 .. last : i \in first..last /\ i # first
  OBVIOUS
<1>12. w[first] = seed /\ \A i \in first + 1 .. last : w[i] = WilderStep(w[i - 1], xs[i], p)
  BY <1>10, <1>11 DEF WilderStep
<1> QED
  BY <1>8, <1>9, <1>12

(* It stays within the bounds of what it is of.                            *)
LEMMA WilderAbove ==
  ASSUME NEW first \in Nat, NEW last \in Nat, first <= last, NEW p \in Nat \ {0},
         NEW seed \in Q,
         NEW xs, \A i \in first + 1 .. last : xs[i] \in Q,
         NEW c \in Int, I!AtMost(I!Num(c), seed),
           \A i \in first + 1 .. last : I!AtMost(I!Num(c), xs[i])
  PROVE  \A i \in first..last : /\ I!Wilder(first, seed, last, xs, p)[i] \in Q
                                /\ I!AtMost(I!Num(c), I!Wilder(first, seed, last, xs, p)[i])
<1> DEFINE w == I!Wilder(first, seed, last, xs, p)
           S == {i \in first..last : w[i] \in Q /\ I!AtMost(I!Num(c), w[i])}
<1>1. w[first] = seed /\ \A i \in first + 1 .. last : w[i] = WilderStep(w[i - 1], xs[i], p)
  BY WilderIs
<1> HIDE DEF w
<1>2. first \in S
  BY <1>1
<1>3. ASSUME NEW i \in first + 1 .. last, i - 1 \in S PROVE i \in S
  <2>1. w[i - 1] \in Q /\ I!AtMost(I!Num(c), w[i - 1]) /\ i \in first..last
    BY <1>3
  <2>2. w[i] \in Q /\ I!AtMost(I!Num(c), w[i])
    <3> DEFINE q == w[i - 1]
               x == xs[i]
    <3>1. q \in Q /\ x \in Q /\ I!AtMost(I!Num(c), q) /\ I!AtMost(I!Num(c), x)
      BY <2>1
    <3>2. w[i] = WilderStep(q, x, p)
      BY <1>1
    <3> HIDE DEF q, x
    <3>3. WilderStep(q, x, p) \in Q /\ I!AtMost(I!Num(c), WilderStep(q, x, p))
      BY <3>1, WilderStepIs
    <3> QED
      BY <3>2, <3>3
  <2> QED
    BY <2>1, <2>2
<1> HIDE DEF S
<1>4. \A i \in first..last : i \in S
  BY <1>2, <1>3, ClimbFrom
<1> QED
  BY <1>4 DEF S, w

LEMMA WilderBelow ==
  ASSUME NEW first \in Nat, NEW last \in Nat, first <= last, NEW p \in Nat \ {0},
         NEW seed \in Q,
         NEW xs, \A i \in first + 1 .. last : xs[i] \in Q,
         NEW c \in Int, I!AtMost(seed, I!Num(c)),
           \A i \in first + 1 .. last : I!AtMost(xs[i], I!Num(c))
  PROVE  \A i \in first..last : /\ I!Wilder(first, seed, last, xs, p)[i] \in Q
                                /\ I!AtMost(I!Wilder(first, seed, last, xs, p)[i], I!Num(c))
<1> DEFINE w == I!Wilder(first, seed, last, xs, p)
           S == {i \in first..last : w[i] \in Q /\ I!AtMost(w[i], I!Num(c))}
<1>1. w[first] = seed /\ \A i \in first + 1 .. last : w[i] = WilderStep(w[i - 1], xs[i], p)
  BY WilderIs
<1> HIDE DEF w
<1>2. first \in S
  BY <1>1
<1>3. ASSUME NEW i \in first + 1 .. last, i - 1 \in S PROVE i \in S
  <2>1. w[i - 1] \in Q /\ I!AtMost(w[i - 1], I!Num(c)) /\ i \in first..last
    BY <1>3
  <2>2. w[i] \in Q /\ I!AtMost(w[i], I!Num(c))
    <3> DEFINE q == w[i - 1]
               x == xs[i]
    <3>1. q \in Q /\ x \in Q /\ I!AtMost(q, I!Num(c)) /\ I!AtMost(x, I!Num(c))
      BY <2>1
    <3>2. w[i] = WilderStep(q, x, p)
      BY <1>1
    <3> HIDE DEF q, x
    <3>3. WilderStep(q, x, p) \in Q /\ I!AtMost(WilderStep(q, x, p), I!Num(c))
      BY <3>1, WilderStepIs
    <3> QED
      BY <3>2, <3>3
  <2> QED
    BY <2>1, <2>2
<1> HIDE DEF S
<1>4. \A i \in first..last : i \in S
  BY <1>2, <1>3, ClimbFrom
<1> QED
  BY <1>4 DEF S, w

-----------------------------------------------------------------------------
(* The range of a candle, and how far it moved.                            *)
LEMMA RangeIs ==
  ASSUME Full, NEW i \in 2..Len(window)
  PROVE  /\ I!TrueRange(window, i) \in Nat /\ I!PlusDM(window, i) \in Nat
              /\ I!MinusDM(window, i) \in Nat
         /\ I!PlusDM(window, i) <= I!TrueRange(window, i)
              /\ I!MinusDM(window, i) <= I!TrueRange(window, i)
<1> DEFINE h == window[i].high
           l == window[i].low
           c == window[i - 1].close
           hb == window[i - 1].high
           lb == window[i - 1].low
           S == {h - l, I!Abs(h - c), I!Abs(l - c)}
           T == I!TrueRange(window, i)
<1>1. i \in 1..Len(window) /\ i - 1 \in 1..Len(window)
  BY FullIs
<1>2. h \in Nat /\ l \in Nat /\ l <= window[i].close /\ window[i].close <= h
      /\ window[i].close \in Nat
  BY <1>1, CandleIs
<1>3. c \in Nat /\ hb \in Nat /\ lb \in Nat /\ lb <= c /\ c <= hb
  BY <1>1, CandleIs
<1>4. T = I!Max(S)
  BY DEF I!TrueRange
<1>5. I!PlusDM(window, i) = IF h - hb > lb - l /\ h - hb > 0 THEN h - hb ELSE 0
  BY DEF I!PlusDM, I!UpMove, I!DownMove
<1>6. I!MinusDM(window, i) = IF lb - l > h - hb /\ lb - l > 0 THEN lb - l ELSE 0
  BY DEF I!MinusDM, I!UpMove, I!DownMove
<1>7. l <= h
  BY <1>2
<1> HIDE DEF h, l, c, hb, lb, S
<1>8. I!Abs(h - c) \in Nat /\ I!Abs(l - c) \in Nat /\ h - c <= I!Abs(h - c)
      /\ c - l <= I!Abs(l - c)
  BY <1>2, <1>3 DEF I!Abs
<1>9. h - l \in Nat
  BY <1>2, <1>7
<1>10. S \subseteq Int /\ S # {} /\ \A x \in S : x \in Nat
       /\ x <= (h - l) + I!Abs(h - c) + I!Abs(l - c)
  BY <1>8, <1>9 DEF S
<1>11. (h - l) + I!Abs(h - c) + I!Abs(l - c) \in Int
  BY <1>8, <1>9
<1>12. T \in S /\ \A x \in S : x <= T
  BY <1>4, <1>10, <1>11, MaxIs
<1>13. T \in Nat /\ I!Abs(h - c) <= T /\ I!Abs(l - c) <= T
  BY <1>10, <1>12 DEF S
<1> HIDE DEF T
<1>14. h - hb <= T /\ lb - l <= T
  BY <1>2, <1>3, <1>8, <1>13
<1>15. I!PlusDM(window, i) \in Nat /\ I!PlusDM(window, i) <= T
  BY <1>2, <1>3, <1>5, <1>13, <1>14
<1>16. I!MinusDM(window, i) \in Nat /\ I!MinusDM(window, i) <= T
  BY <1>2, <1>3, <1>6, <1>13, <1>14
<1> QED
  BY <1>13, <1>15, <1>16 DEF T

LEMMA FirstRange ==
  I!TrueRange(window, 1) = 0 /\ I!PlusDM(window, 1) = 0 /\ I!MinusDM(window, 1) = 0
BY DEF I!TrueRange, I!PlusDM, I!MinusDM

Ranges == [i \in DOMAIN window |-> I!TrueRange(window, i)]
Rises  == [i \in DOMAIN window |-> I!PlusDM(window, i)]
Falls  == [i \in DOMAIN window |-> I!MinusDM(window, i)]

LEMMA RangesAre ==
  ASSUME Full
  PROVE  LET n == Len(window) IN
         /\ Ranges \in [1..n -> Nat] /\ Rises \in [1..n -> Nat] /\ Falls \in [1..n -> Nat]
         /\ \A i \in 1..n : Rises[i] <= Ranges[i] /\ Falls[i] <= Ranges[i]
<1> DEFINE n == Len(window)
<1>1. n \in Nat /\ DOMAIN window = 1..n
  BY FullIs
<1>2. \A i \in 1..n : i = 1 \/ i \in 2..n
  BY <1>1
<1>3. ASSUME NEW i \in 1..n
      PROVE  /\ I!TrueRange(window, i) \in Nat /\ I!PlusDM(window, i) \in Nat
                  /\ I!MinusDM(window, i) \in Nat
             /\ I!PlusDM(window, i) <= I!TrueRange(window, i)
                  /\ I!MinusDM(window, i) <= I!TrueRange(window, i)
  <2>1. CASE i = 1
    BY <2>1, FirstRange
  <2>2. CASE i \in 2..n
    BY <2>2, RangeIs
  <2> QED
    BY <1>2, <2>1, <2>2
<1> HIDE DEF n
<1>4. Ranges = [i \in 1..n |-> I!TrueRange(window, i)]
      /\ Rises = [i \in 1..n |-> I!PlusDM(window, i)]
      /\ Falls = [i \in 1..n |-> I!MinusDM(window, i)]
  BY <1>1 DEF Ranges, Rises, Falls
<1>5. \A i \in 1..n : Ranges[i] = I!TrueRange(window, i)
      /\ Rises[i] = I!PlusDM(window, i) /\ Falls[i] = I!MinusDM(window, i)
  BY <1>4
<1>6. Ranges \in [1..n -> Nat] /\ Rises \in [1..n -> Nat] /\ Falls \in [1..n -> Nat]
  BY <1>3, <1>4
<1> QED
  BY <1>3, <1>5, <1>6 DEF n

(* The average true range is not negative.                                 *)
LEMMA NotNegative ==
  ASSUME NEW c \in Nat
  PROVE  I!Num(c) \in Q /\ I!AtMost(I!Num(0), I!Num(c))
<1>1. I!Num(c) \in Q /\ I!Num(c) \in Fr /\ Is(I!Num(c), c, 1)
  BY NumIs
<1> QED
  BY <1>1, BelowIs

LEMMA MeanAbove ==
  ASSUME NEW xs, NEW n \in Nat \ {0}, Rational(xs, n), \A i \in 1..n : I!AtMost(I!Num(0), xs[i])
  PROVE  I!Over(I!SumTo(xs, n), n) \in Q /\ I!AtMost(I!Num(0), I!Over(I!SumTo(xs, n), n))
<1> DEFINE s == I!SumTo(xs, n)
           a == s[1]
           b == s[2]
<1>1. s \in Q /\ n * 0 * b <= a
  BY SumAbove
<1>2. s \in Fr /\ a \in Int /\ b \in Nat \ {0} /\ Is(s, a, b)
  BY <1>1, QParts
<1> HIDE DEF a, b, s
<1>3. I!Over(s, n) \in Q /\ Is(I!Over(s, n), a, b * n)
  BY <1>2, OverIs
<1>4. b * n \in Nat \ {0}
  BY <1>2, Positive
<1>5. 0 * (b * n) <= a
  <2>1. n * 0 * b = 0 /\ 0 * (b * n) = 0
    BY <1>2
  <2> QED
    BY <1>1, <2>1
<1>6. I!Over(s, n) \in Fr
  BY <1>3, QIs
<1> QED
  BY <1>2, <1>3, <1>4, <1>5, <1>6, BelowIs DEF s

LEMMA AtrHolds ==
  ASSUME Full
  PROVE  I!AtMost(I!Num(0), I!Latest(I!Atr(window, params.period)))
<1> DEFINE n == Len(window)
           p == params.period
           tr == [i \in DOMAIN window |-> I!Num(I!TrueRange(window, i))]
           first == [j \in 1 .. p |-> tr[j + 1]]
           seed == I!MeanOf(first)
<1>1. n \in Nat /\ p \in Nat \ {0} /\ p < n /\ DOMAIN window = 1..n
  BY FullIs DEF Periods
<1>2. I!Atr(window, p) = I!Wilder(p + 1, seed, n, tr, p)
  BY DEF I!Atr
<1>3. \A i \in 1..n : tr[i] = I!Num(Ranges[i]) /\ Ranges[i] \in Nat
  BY <1>1, RangesAre DEF Ranges
<1> HIDE DEF n, p, tr
<1>4. \A i \in 1..n : tr[i] \in Q /\ I!AtMost(I!Num(0), tr[i])
  BY <1>3, NotNegative
<1>5. ASSUME NEW j \in 1..p PROVE first[j] \in Q /\ I!AtMost(I!Num(0), first[j])
  <2>1. j + 1 \in 1..n
    BY <1>1
  <2> QED
    BY <1>4, <2>1
<1>6. Len(first) = p
  BY <1>1
<1> HIDE DEF first
<1>7. seed = I!Over(I!SumTo(first, p), p)
  BY <1>6 DEF I!MeanOf, I!SumOf
<1>8. Rational(first, p)
  BY <1>5 DEF Rational
<1>9. seed \in Q /\ I!AtMost(I!Num(0), seed)
  BY <1>1, <1>5, <1>7, <1>8, MeanAbove
<1> HIDE DEF seed
<1>10. p + 1 \in Nat /\ p + 1 <= n /\ \A i \in (p + 1) + 1 .. n : i \in 1..n
  BY <1>1
<1>11. \A i \in (p + 1) + 1 .. n : tr[i] \in Q /\ I!AtMost(I!Num(0), tr[i])
  BY <1>4, <1>10
<1> DEFINE w == I!Wilder(p + 1, seed, n, tr, p)
<1>12. DOMAIN w = p + 1 .. n
  BY <1>1, <1>9, <1>10, <1>11, WilderIs
<1>13. \A i \in p + 1 .. n : w[i] \in Q /\ I!AtMost(I!Num(0), w[i])
  BY <1>1, <1>9, <1>10, <1>11, WilderAbove
<1> HIDE DEF w
<1>14. n \in p + 1 .. n
  BY <1>1
<1>15. I!Latest(I!Atr(window, p)) = w[n]
  BY <1>2, <1>12, <1>14 DEF I!Latest, n, w
<1> QED
  BY <1>13, <1>14, <1>15 DEF p

-----------------------------------------------------------------------------
(* The smoothed sums.                                                      *)
SmoothStep(q, c, p) == I!Plus(I!Minus(q, I!Over(q, p)), I!Num(c))

LEMMA SmoothStepIs ==
  ASSUME NEW q \in Q, NEW c \in Nat, NEW p \in Nat \ {0}
  PROVE  /\ SmoothStep(q, c, p) \in Q
         /\ Is(SmoothStep(q, c, p), q[1] * (p - 1) + c * (q[2] * p), q[2] * p)
<1> DEFINE a == q[1]
           b == q[2]
           o == I!Over(q, p)
           d == I!Minus(q, o)
           s == SmoothStep(q, c, p)
<1>1. q \in Fr /\ a \in Int /\ b \in Nat \ {0} /\ Is(q, a, b)
  BY QParts
<1>2. s = I!Plus(d, I!Num(c))
  BY DEF SmoothStep
<1> HIDE DEF a, b, s
<1>3. o \in Q /\ Is(o, a, b * p)
  BY <1>1, OverIs
<1>4. b * p \in Nat \ {0} /\ b * (b * p) \in Nat \ {0}
  BY <1>1, Positive
<1>5. o \in Fr
  BY <1>3, QIs
<1> HIDE DEF o
<1>6. d \in Q /\ Is(d, a * (b * p) - a * b, b * (b * p))
  BY <1>1, <1>3, <1>4, <1>5, MinusIs
<1> HIDE DEF d
<1>7. a * (p - 1) \in Int /\ a * (b * p) - a * b \in Int
  BY <1>1
<1>8. (a * (b * p) - a * b) * (b * p) = (a * (p - 1)) * (b * (b * p))
  BY <1>1
<1>9. Is(d, a * (p - 1), b * p)
  BY <1>4, <1>6, <1>7, <1>8, IsThrough
<1>10. d \in Fr /\ I!Num(c) \in Fr /\ Is(I!Num(c), c, 1)
  BY <1>6, QIs, NumIs
<1>11. s \in Q /\ Is(s, (a * (p - 1)) * 1 + c * (b * p), (b * p) * 1)
  BY <1>2, <1>4, <1>7, <1>9, <1>10, PlusIs
<1>12. (a * (p - 1)) * 1 = a * (p - 1) /\ (b * p) * 1 = b * p
  BY <1>1
<1> QED
  BY <1>11, <1>12 DEF a, b, s

(* More at each step is more in the end.                                   *)
LEMMA SmoothStepOrdered ==
  ASSUME NEW q \in Q, NEW r \in Q, NEW c \in Nat, NEW e \in Nat, NEW p \in Nat \ {0},
         q[1] >= 0, I!AtMost(q, r), c <= e
  PROVE  SmoothStep(q, c, p)[1] >= 0 /\ I!AtMost(SmoothStep(q, c, p), SmoothStep(r, e, p))
<1> DEFINE a == q[1]
           b == q[2]
           g == r[1]
           d == r[2]
           t == p - 1
           s == SmoothStep(q, c, p)
           u == SmoothStep(r, e, p)
<1>1. a \in Nat /\ b \in Nat \ {0}
  BY QParts
<1>2. g \in Int /\ d \in Nat \ {0}
  BY QParts
<1>3. a * d <= g * b
  BY DEF I!AtMost
<1>4. s \in Q /\ Is(s, a * t + c * (b * p), b * p)
  BY SmoothStepIs
<1>5. u \in Q /\ Is(u, g * t + e * (d * p), d * p)
  BY SmoothStepIs
<1>6. t \in Nat
  OBVIOUS
<1> HIDE DEF a, b, g, d, t, s, u
<1>7. b * p \in Nat \ {0} /\ d * p \in Nat \ {0} /\ s \in Fr /\ u \in Fr
  BY <1>1, <1>2, <1>4, <1>5, Positive, QIs
<1>8. a * t + c * (b * p) \in Nat
  BY <1>1, <1>6
<1>9. g * t + e * (d * p) \in Int
  BY <1>2, <1>6
<1>10. s[1] >= 0
  BY <1>4, <1>7, <1>8, SignIs
<1>11. (a * d) * (t * p) <= (g * b) * (t * p)
  <2>1. a * d \in Int /\ g * b \in Int /\ t * p \in Nat
    BY <1>1, <1>2, <1>6
  <2> QED
    BY <1>3, <2>1, Grows
<1>12. c * ((b * p) * (d * p)) <= e * ((b * p) * (d * p))
  <2>1. (b * p) * (d * p) \in Nat
    BY <1>7
  <2> QED
    BY <2>1, Grows
<1>13. (a * t + c * (b * p)) * (d * p) <= (g * t + e * (d * p)) * (b * p)
  <2>1. (a * t + c * (b * p)) * (d * p) = (a * d) * (t * p) + c * ((b * p) * (d * p))
    BY <1>1, <1>2, <1>6
  <2>2. (g * t + e * (d * p)) * (b * p) = (g * b) * (t * p) + e * ((b * p) * (d * p))
    BY <1>1, <1>2, <1>6
  <2> DEFINE v == (a * d) * (t * p)
             w == (g * b) * (t * p)
             x == c * ((b * p) * (d * p))
             y == e * ((b * p) * (d * p))
  <2>3. v \in Int /\ w \in Int /\ x \in Int /\ y \in Int
    BY <1>1, <1>2, <1>6
  <2>4. v <= w /\ x <= y
    BY <1>11, <1>12
  <2> HIDE DEF v, w, x, y
  <2>5. v + x <= w + y
    BY <2>3, <2>4
  <2> QED
    BY <2>1, <2>2, <2>5 DEF v, w, x, y
<1>14. I!AtMost(s, u)
  BY <1>4, <1>5, <1>7, <1>8, <1>9, <1>13, AtMostIs
<1> QED
  BY <1>10, <1>14 DEF s, u

SmoothBody(f, xs, n, p) ==
  [i \in p + 1 .. n |->
     IF i = p + 1 THEN I!SumOf(I!Fractions(SubSeq(xs, 2, p + 1)))
     ELSE I!Plus(I!Minus(f[i - 1], I!Over(f[i - 1], p)), I!Num(xs[i]))]

SeedOf(xs, p) == I!SumTo([j \in 1..p |-> I!Num(xs[j + 1])], p)

LEMMA SeedIs ==
  ASSUME NEW n \in Nat, NEW p \in Nat \ {0}, p < n, NEW xs \in [1..n -> Nat]
  PROVE  I!SumOf(I!Fractions(SubSeq(xs, 2, p + 1))) = SeedOf(xs, p) /\ SeedOf(xs, p) \in Q
<1> DEFINE w == SubSeq(xs, 2, p + 1)
           ys == [j \in 1..p |-> I!Num(xs[j + 1])]
<1>1. xs \in Seq(Nat) /\ Len(xs) = n
  OBVIOUS
<1>2. w \in Seq(Nat)
  BY <1>1
<1>3. Len(w) = p /\ DOMAIN w = 1..p
  BY <1>1
<1>4. \A j \in 1..p : w[j] = xs[j + 1]
  BY <1>1
<1> HIDE DEF w
<1>5. I!Fractions(w) = ys
  BY <1>3, <1>4 DEF I!Fractions
<1>6. Len(ys) = p
  OBVIOUS
<1>7. ASSUME NEW j \in 1..p PROVE ys[j] \in Q
  <2>1. j + 1 \in 1..n
    OBVIOUS
  <2>2. xs[j + 1] \in Int
    BY <2>1
  <2> QED
    BY <2>2, NumIs
<1> HIDE DEF ys
<1>8. Rational(ys, p) /\ p \in 0..p
  BY <1>7 DEF Rational
<1>9. I!SumTo(ys, p) \in Q
  BY <1>8, SumTyped
<1>10. I!SumOf(ys) = I!SumTo(ys, p)
  BY <1>6 DEF I!SumOf
<1> QED
  BY <1>5, <1>9, <1>10 DEF SeedOf, w, ys

LEMMA SmoothIs ==
  ASSUME NEW n \in Nat, NEW p \in Nat \ {0}, p < n, NEW xs \in [1..n -> Nat]
  PROVE  /\ I!Smooth(xs, p)[p + 1] = SeedOf(xs, p)
         /\ \A i \in (p + 1) + 1 .. n :
            I!Smooth(xs, p)[i] = SmoothStep(I!Smooth(xs, p)[i - 1], xs[i], p)
<1> DEFINE first == p + 1
           seed == SeedOf(xs, p)
           g == [y \in (first + 1 .. n) \X Q |-> SmoothStep(y[2], xs[y[1]], p)]
<1>1. first \in Nat /\ first <= n /\ (\A i \in first + 1 .. n : i \in 1..n) /\ Len(xs) = n
  OBVIOUS
<1>2. seed \in Q /\ I!SumOf(I!Fractions(SubSeq(xs, 2, p + 1))) = seed
  BY SeedIs
<1> HIDE DEF seed
<1>3. g \in [(first + 1 .. n) \X Q -> Q]
  <2>1. \A i \in first + 1 .. n : xs[i] \in Nat
    BY <1>1
  <2> QED
    BY <2>1, SmoothStepIs
<1>4. \A i \in first + 1 .. n, q \in Q : g[<<i, q>>] = SmoothStep(q, xs[i], p)
  OBVIOUS
<1> HIDE DEF g, first
<1>5. PICK e \in [first..n -> Q] : FollowsFrom(e, seed, first, n, g)
  BY <1>1, <1>2, <1>3, StepsFrom, Zenon
<1>6. ASSUME NEW i \in first + 1 .. n PROVE e[i] = SmoothStep(e[i - 1], xs[i], p)
  <2>1. i - 1 \in first..n
    BY <1>1
  <2>2. e[i - 1] \in Q
    BY <2>1
  <2>3. e[i] = g[<<i, e[i - 1]>>]
    BY <1>5 DEF FollowsFrom
  <2> QED
    BY <1>4, <2>2, <2>3
<1>7. e[first] = seed
  BY <1>5 DEF FollowsFrom
<1>8. e = SmoothBody(e, xs, n, p)
  <2>1. \A i \in first..n : i # first => i \in first + 1 .. n
    BY <1>1
  <2>2. \A i \in first..n : e[i] = IF i = first THEN seed
        ELSE I!Plus(I!Minus(e[i - 1], I!Over(e[i - 1], p)), I!Num(xs[i]))
    BY <1>6, <1>7, <2>1 DEF SmoothStep
  <2> QED
    BY <1>2, <2>2 DEF SmoothBody, first
<1> DEFINE w == CHOOSE f : f = SmoothBody(f, xs, n, p)
<1>9. w = SmoothBody(w, xs, n, p)
  BY <1>8
<1>10. I!Smooth(xs, p) = w
  BY <1>1 DEF I!Smooth, SmoothBody
<1> HIDE DEF w
<1>11. \A i \in first .. n : w[i] = IF i = first THEN seed
       ELSE I!Plus(I!Minus(w[i - 1], I!Over(w[i - 1], p)), I!Num(xs[i]))
  BY <1>2, <1>9 DEF SmoothBody, first
<1>12. first \in first..n /\ \A i \in first + 1 .. n : i \in first..n /\ i # first
  BY <1>1
<1>13. w[first] = seed /\ \A i \in first + 1 .. n : w[i] = SmoothStep(w[i - 1], xs[i], p)
  BY <1>11, <1>12 DEF SmoothStep
<1> QED
  BY <1>10, <1>13 DEF first, seed

LEMMA SmoothOrdered ==
  ASSUME NEW n \in Nat, NEW p \in Nat \ {0}, p < n, NEW xs \in [1..n -> Nat],
         NEW ys \in [1..n -> Nat],
         \A i \in 1..n : xs[i] <= ys[i]
  PROVE  \A i \in p + 1 .. n : /\ I!Smooth(xs, p)[i] \in Q /\ I!Smooth(ys, p)[i] \in Q
                               /\ I!Smooth(xs, p)[i][1] >= 0
                                    /\ I!AtMost(I!Smooth(xs, p)[i], I!Smooth(ys, p)[i])
<1> DEFINE X == I!Smooth(xs, p)
           Y == I!Smooth(ys, p)
           first == p + 1
           S == {i \in first..n : X[i] \in Q /\ Y[i] \in Q /\ X[i][1] >= 0
               /\ I!AtMost(X[i], Y[i])}
           us == [j \in 1..p |-> I!Num(xs[j + 1])]
           vs == [j \in 1..p |-> I!Num(ys[j + 1])]
<1>1. X[first] = I!SumTo(us, p)
      /\ \A i \in first + 1 .. n : X[i] = SmoothStep(X[i - 1], xs[i], p)
  BY SmoothIs DEF SeedOf
<1>2. Y[first] = I!SumTo(vs, p)
      /\ \A i \in first + 1 .. n : Y[i] = SmoothStep(Y[i - 1], ys[i], p)
  BY SmoothIs DEF SeedOf
<1>3. ASSUME NEW j \in 1..p
      PROVE  us[j] \in Q /\ vs[j] \in Q /\ I!AtMost(I!Num(0), us[j]) /\ I!AtMost(us[j], vs[j])
  <2> DEFINE a == xs[j + 1]
             b == ys[j + 1]
  <2>1. j + 1 \in 1..n
    OBVIOUS
  <2>2. a \in Nat /\ b \in Nat /\ a <= b
    BY <2>1
  <2>3. us[j] = I!Num(a) /\ vs[j] = I!Num(b)
    OBVIOUS
  <2> HIDE DEF a, b, us, vs
  <2>4. I!Num(a) \in Q /\ I!AtMost(I!Num(0), I!Num(a)) /\ I!Num(b) \in Q
    BY <2>2, NotNegative
  <2>5. I!AtMost(I!Num(a), I!Num(b))
    BY <2>2 DEF I!AtMost, I!Num
  <2> QED
    BY <2>3, <2>4, <2>5
<1> HIDE DEF us, vs
<1>4. Rational(us, p) /\ Rational(vs, p) /\ p \in 0..p
  BY <1>3 DEF Rational
<1>5. I!SumTo(us, p) \in Q /\ I!SumTo(vs, p) \in Q
  BY <1>4, SumTyped
<1>6. I!AtMost(I!SumTo(us, p), I!SumTo(vs, p))
  BY <1>3, <1>4, SumOrdered
<1>7. I!SumTo(us, p)[1] >= 0
  <2>1. p * 0 * I!SumTo(us, p)[2] <= I!SumTo(us, p)[1]
    BY <1>3, <1>4, SumAbove
  <2>2. I!SumTo(us, p)[2] \in Int
    BY <1>5, QIs
  <2> HIDE DEF I!SumTo
  <2>3. p * 0 * I!SumTo(us, p)[2] = 0
    BY <2>2
  <2> QED
    BY <2>1, <2>3
<1> HIDE DEF X, Y, first
<1>8. first \in Nat /\ first <= n /\ first \in first..n
  BY DEF first
<1>9. first \in S
  BY <1>1, <1>2, <1>5, <1>6, <1>7, <1>8
<1>10. ASSUME NEW i \in first + 1 .. n, i - 1 \in S PROVE i \in S
  <2> DEFINE q == X[i - 1]
             r == Y[i - 1]
             c == xs[i]
             e == ys[i]
  <2>1. i \in first..n /\ i \in 1..n
    BY <1>8
  <2>2. q \in Q /\ r \in Q /\ q[1] >= 0 /\ I!AtMost(q, r)
    BY <1>10
  <2>3. c \in Nat /\ e \in Nat /\ c <= e
    BY <2>1
  <2>4. X[i] = SmoothStep(q, c, p) /\ Y[i] = SmoothStep(r, e, p)
    BY <1>1, <1>2
  <2> HIDE DEF q, r, c, e
  <2>5. SmoothStep(q, c, p) \in Q /\ SmoothStep(r, e, p) \in Q
    BY <2>2, <2>3, SmoothStepIs
  <2>6. SmoothStep(q, c, p)[1] >= 0 /\ I!AtMost(SmoothStep(q, c, p), SmoothStep(r, e, p))
    BY <2>2, <2>3, SmoothStepOrdered
  <2> QED
    BY <2>1, <2>4, <2>5, <2>6
<1> HIDE DEF S
<1>11. \A i \in first..n : i \in S
  BY <1>8, <1>9, <1>10, ClimbFrom
<1> QED
  BY <1>11 DEF S, X, Y, first

LEMMA PercentShare ==
  ASSUME NEW x \in Fr, NEW y \in Fr, NEW a \in Nat, NEW b \in Nat \ {0},
         NEW c \in Nat \ {0}, NEW d \in Nat \ {0},
         Is(x, a, b), Is(y, c, d), a * d <= c * b
  PROVE  /\ I!Times(I!Num(100), I!Share(x, y)) \in Q
         /\ I!Between(I!Times(I!Num(100), I!Share(x, y)), 0, 100)
<1> DEFINE s == I!Share(x, y)
           t == I!Times(I!Num(100), s)
<1>1. y[1] > 0
  BY SignIs
<1>2. s \in Q /\ Is(s, a * d, b * c)
  BY <1>1, ShareIs
<1> HIDE DEF s
<1>3. s \in Fr /\ a * d \in Nat /\ b * c \in Nat \ {0} /\ I!Num(100) \in Fr
      /\ Is(I!Num(100), 100, 1)
  BY <1>2, QIs, Positive, NumIs
<1>4. t \in Q /\ Is(t, 100 * (a * d), 1 * (b * c))
  BY <1>2, <1>3, TimesIs
<1> HIDE DEF t
<1>5. 1 * (b * c) = b * c /\ 100 * (a * d) \in Int /\ t \in Fr
  BY <1>3, <1>4, QIs
<1>6. 0 * (b * c) <= 100 * (a * d)
  BY <1>3
<1>7. 100 * (a * d) <= 100 * (b * c)
  <2>1. c * b = b * c
    OBVIOUS
  <2>2. a * d <= b * c
    BY <2>1
  <2> QED
    BY <1>3, <2>2
<1>8. Is(t, 100 * (a * d), b * c)
  BY <1>4, <1>5
<1>9. I!AtMost(I!Num(0), t) /\ I!AtMost(t, I!Num(100))
  BY <1>3, <1>5, <1>6, <1>7, <1>8, BelowIs
<1> QED
  BY <1>4, <1>9 DEF I!Between, t, s

LEMMA DirectionalIs ==
  ASSUME NEW x \in Q, NEW y \in Q, x[1] >= 0, I!AtMost(x, y)
  PROVE  I!DirectionalIndex(x, y) \in Q /\ I!Between(I!DirectionalIndex(x, y), 0, 100)
<1> DEFINE a == x[1]
           b == x[2]
           c == y[1]
           d == y[2]
<1>1. x \in Fr /\ a \in Nat /\ b \in Nat \ {0} /\ Is(x, a, b)
  BY QParts
<1>2. y \in Fr /\ c \in Int /\ d \in Nat \ {0} /\ Is(y, c, d)
  BY QParts
<1>3. a * d <= c * b
  BY DEF I!AtMost
<1>4. I!DirectionalIndex(x, y) = IF c > 0 THEN I!Times(I!Num(100), I!Share(x, y)) ELSE I!Num(0)
  BY DEF I!DirectionalIndex
<1> HIDE DEF a, b, c, d
<1>5. CASE c > 0
  <2>1. c \in Nat \ {0}
    BY <1>2, <1>5
  <2> QED
    BY <1>1, <1>2, <1>3, <1>4, <1>5, <2>1, PercentShare
<1>6. CASE ~(c > 0)
  BY <1>4, <1>6, NumBetween
<1> QED
  BY <1>5, <1>6

LEMMA BetweenIs ==
  ASSUME NEW x \in Q, I!Between(x, 0, 100)
  PROVE  x[1] >= 0
<1>1. x \in Fr /\ x[1] \in Int /\ x[2] \in Nat \ {0} /\ Is(x, x[1], x[2])
  BY QParts
<1>2. I!AtMost(I!Num(0), x)
  BY DEF I!Between
<1>3. 0 * x[2] <= x[1]
  BY <1>1, <1>2, BelowIs
<1> QED
  BY <1>1, <1>3

DxOf(up, down) ==
  LET sum == I!Plus(up, down)
      gap == I!Minus(up, down)
  IN  IF sum[1] > 0 THEN I!Times(I!Num(100), I!Share(<<I!Abs(gap[1]), gap[2]>>, sum))
    ELSE I!Num(0)

LEMMA DxIs ==
  ASSUME NEW x \in Q, NEW y \in Q, x[1] >= 0, y[1] >= 0
  PROVE  DxOf(x, y) \in Q /\ I!Between(DxOf(x, y), 0, 100)
<1> DEFINE a == x[1]
           b == x[2]
           c == y[1]
           d == y[2]
           sum == I!Plus(x, y)
           gap == I!Minus(x, y)
           g1 == gap[1]
           g2 == gap[2]
           wide == <<I!Abs(g1), g2>>
           m == a * d - c * b
           v == a * d + c * b
           w == b * d
<1>1. x \in Fr /\ a \in Nat /\ b \in Nat \ {0} /\ Is(x, a, b)
  BY QParts
<1>2. y \in Fr /\ c \in Nat /\ d \in Nat \ {0} /\ Is(y, c, d)
  BY QParts
<1>3. DxOf(x, y) = IF sum[1] > 0 THEN I!Times(I!Num(100), I!Share(wide, sum)) ELSE I!Num(0)
  BY DEF DxOf
<1> HIDE DEF a, b, c, d
<1>4. sum \in Q /\ Is(sum, v, w)
  BY <1>1, <1>2, PlusIs
<1>5. gap \in Q /\ Is(gap, m, w)
  BY <1>1, <1>2, MinusIs
<1> HIDE DEF sum, gap
<1>6. a * d \in Nat /\ c * b \in Nat
  BY <1>1, <1>2
<1>7. m \in Int /\ v \in Nat /\ I!Abs(m) \in Nat /\ I!Abs(m) <= v
  BY <1>6 DEF I!Abs
<1>8. w \in Nat \ {0}
  BY <1>1, <1>2, Positive
<1> HIDE DEF m, v, w
<1>9. gap \in Fr /\ g1 \in Int /\ g2 \in Nat \ {0} /\ g1 * w = m * g2
  <2>1. gap \in Fr /\ g1 \in Int /\ g2 \in Nat \ {0}
    BY <1>5, QParts
  <2> QED
    BY <1>5, <2>1 DEF Is
<1> HIDE DEF g1, g2
<1>10. wide \in Fr /\ Is(wide, I!Abs(m), w)
  <2>1. I!Abs(w * g1) = w * I!Abs(g1) /\ I!Abs(g2 * m) = g2 * I!Abs(m) /\ I!Abs(g1) \in Nat
    BY <1>7, <1>8, <1>9, AbsIs
  <2>2. w * g1 = g2 * m
    BY <1>7, <1>8, <1>9
  <2>3. w * I!Abs(g1) = g2 * I!Abs(m)
    BY <2>1, <2>2
  <2>4. I!Abs(g1) * w = I!Abs(m) * g2
    BY <1>7, <1>8, <1>9, <2>1, <2>3
  <2>5. wide \in Fr
    BY <1>9, <2>1 DEF Fr
  <2> QED
    BY <2>4, <2>5 DEF Is
<1> HIDE DEF wide
<1>11. CASE sum[1] > 0
  <2>1. sum \in Fr
    BY <1>4, QIs
  <2>2. v \in Nat \ {0}
    BY <1>4, <1>7, <1>8, <1>11, <2>1, SignIs
  <2>3. I!Abs(m) * w <= v * w
    BY <1>7, <1>8, Grows
  <2>4. I!Times(I!Num(100), I!Share(wide, sum)) \in Q
        /\ I!Between(I!Times(I!Num(100), I!Share(wide, sum)), 0, 100)
    BY <1>4, <1>7, <1>8, <1>10, <2>1, <2>2, <2>3, PercentShare
  <2> QED
    BY <1>3, <1>11, <2>4
<1>12. CASE ~(sum[1] > 0)
  BY <1>3, <1>12, NumBetween
<1> QED
  BY <1>11, <1>12

-----------------------------------------------------------------------------
(* The directional movement.                                               *)
LEMMA DirectionsAre ==
  ASSUME Full, NEW p \in Nat \ {0}, NEW i \in I!Smoothed(window, p)
  PROVE  /\ I!PlusDI(window, p)[i] \in Q /\ I!Between(I!PlusDI(window, p)[i], 0, 100)
         /\ I!MinusDI(window, p)[i] \in Q /\ I!Between(I!MinusDI(window, p)[i], 0, 100)
         /\ I!Dx(window, p)[i] \in Q /\ I!Between(I!Dx(window, p)[i], 0, 100)
<1> DEFINE n == Len(window)
           up == I!PlusDI(window, p)[i]
           down == I!MinusDI(window, p)[i]
           T == I!Smooth(Ranges, p)[i]
           U == I!Smooth(Rises, p)[i]
           D == I!Smooth(Falls, p)[i]
<1>1. n \in Nat /\ Ranges \in [1..n -> Nat] /\ Rises \in [1..n -> Nat]
      /\ Falls \in [1..n -> Nat]
      /\ \A j \in 1..n : Rises[j] <= Ranges[j] /\ Falls[j] <= Ranges[j]
  BY FullIs, RangesAre
<1>2. p < n /\ i \in p + 1 .. n
  BY <1>1 DEF I!Smoothed
<1>3. U \in Q /\ T \in Q /\ U[1] >= 0 /\ I!AtMost(U, T)
  <2> HIDE DEF n
  <2> QED
    BY <1>1, <1>2, SmoothOrdered
<1>4. D \in Q /\ D[1] >= 0 /\ I!AtMost(D, T)
  <2> HIDE DEF n
  <2> QED
    BY <1>1, <1>2, SmoothOrdered
<1>5. up = I!DirectionalIndex(U, T)
  BY DEF I!PlusDI, Rises, Ranges
<1>6. down = I!DirectionalIndex(D, T)
  BY DEF I!MinusDI, Falls, Ranges
<1>7. I!Dx(window, p)[i] = DxOf(up, down)
  BY DEF I!Dx, DxOf
<1> HIDE DEF T, U, D, up, down
<1>8. up \in Q /\ I!Between(up, 0, 100)
  BY <1>3, <1>5, DirectionalIs
<1>9. down \in Q /\ I!Between(down, 0, 100)
  BY <1>3, <1>4, <1>6, DirectionalIs
<1>10. up[1] >= 0 /\ down[1] >= 0
  BY <1>8, <1>9, BetweenIs
<1>11. DxOf(up, down) \in Q /\ I!Between(DxOf(up, down), 0, 100)
  BY <1>8, <1>9, <1>10, DxIs
<1> QED
  BY <1>7, <1>8, <1>9, <1>11 DEF up, down

LEMMA MeanOfPercents ==
  ASSUME NEW xs, NEW n \in Nat \ {0}, Len(xs) = n, \A i \in 1..n : xs[i] \in Q
           /\ I!Between(xs[i], 0, 100)
  PROVE  I!MeanOf(xs) \in Q /\ I!Between(I!MeanOf(xs), 0, 100)
<1>1. I!MeanOf(xs) = I!Over(I!SumTo(xs, n), n)
  BY DEF I!MeanOf, I!SumOf
<1>2. Rational(xs, n)
  BY DEF Rational
<1>3. \A lo, hi \in Int : (\A i \in 1..n : I!Between(xs[i], lo, hi))
        => I!Over(I!SumTo(xs, n), n) \in Q /\ I!Between(I!Over(I!SumTo(xs, n), n), lo, hi)
  BY <1>2, MeanBetween
<1>4. \A i \in 1..n : I!Between(xs[i], 0, 100)
  OBVIOUS
<1>5. I!Over(I!SumTo(xs, n), n) \in Q /\ I!Between(I!Over(I!SumTo(xs, n), n), 0, 100)
  BY <1>3, <1>4
<1> QED
  BY <1>1, <1>5

LEMMA AdxIs ==
  ASSUME Full, NEW p \in Nat \ {0}, 2 * p <= Len(window)
  PROVE  /\ DOMAIN I!Adx(window, p) = 2 * p .. Len(window)
         /\ I!Adx(window, p)[Len(window)] \in Q
              /\ I!Between(I!Adx(window, p)[Len(window)], 0, 100)
<1> DEFINE n == Len(window)
           dx == I!Dx(window, p)
           first == [j \in 1 .. p |-> dx[p + j]]
           seed == I!MeanOf(first)
           w == I!Wilder(2 * p, seed, n, dx, p)
<1>1. n \in Nat /\ 2 * p <= n /\ I!Smoothed(window, p) = p + 1 .. n
  BY FullIs DEF I!Smoothed
<1>2. \A i \in p + 1 .. n : dx[i] \in Q /\ I!Between(dx[i], 0, 100)
  BY <1>1, DirectionsAre
<1>3. I!Adx(window, p) = w
  BY DEF I!Adx
<1> HIDE DEF n, dx
<1>4. ASSUME NEW j \in 1..p PROVE first[j] \in Q /\ I!Between(first[j], 0, 100)
  <2>1. p + j \in p + 1 .. n
    BY <1>1
  <2> QED
    BY <1>2, <2>1
<1>5. Len(first) = p
  OBVIOUS
<1> HIDE DEF first
<1>8. seed \in Q /\ I!Between(seed, 0, 100)
  BY <1>4, <1>5, MeanOfPercents
<1> HIDE DEF seed
<1>9. 2 * p \in Nat /\ \A i \in 2 * p + 1 .. n : i \in p + 1 .. n
  BY <1>1
<1>10. \A i \in 2 * p + 1 .. n : dx[i] \in Q /\ I!AtMost(I!Num(0), dx[i])
       /\ I!AtMost(dx[i], I!Num(100))
  BY <1>2, <1>9 DEF I!Between
<1>11. I!AtMost(I!Num(0), seed) /\ I!AtMost(seed, I!Num(100))
  BY <1>8 DEF I!Between
<1>12. DOMAIN w = 2 * p .. n
  BY <1>1, <1>8, <1>9, <1>10, WilderIs
<1>13. \A i \in 2 * p .. n : w[i] \in Q /\ I!AtMost(I!Num(0), w[i])
  BY <1>1, <1>8, <1>9, <1>10, <1>11, WilderAbove
<1>14. \A i \in 2 * p .. n : w[i] \in Q /\ I!AtMost(w[i], I!Num(100))
  BY <1>1, <1>8, <1>9, <1>10, <1>11, WilderBelow
<1>15. n \in 2 * p .. n
  BY <1>1
<1> HIDE DEF w
<1> QED
  BY <1>3, <1>12, <1>13, <1>14, <1>15 DEF I!Between, n

LEMMA AdxDomain ==
  ASSUME Full, NEW p \in Nat \ {0}, Len(window) < 2 * p
  PROVE  Len(window) \notin DOMAIN I!Adx(window, p)
<1> DEFINE n == Len(window)
           dx == I!Dx(window, p)
           seed == I!MeanOf([j \in 1 .. p |-> dx[p + j]])
<1>1. n \in Nat /\ n \notin 2 * p .. n /\ 2 * p .. n = {}
  BY FullIs
<1>2. I!Adx(window, p) = I!Wilder(2 * p, seed, n, dx, p)
  BY DEF I!Adx
<1> HIDE DEF n, dx, seed
<1> DEFINE B(f) == WilderBody(f, 2 * p, seed, n, dx, p)
           e == [i \in {} |-> 0]
<1>3. e = B(e)
  BY <1>1 DEF WilderBody
<1> DEFINE w == CHOOSE f : f = B(f)
<1>4. w = B(w)
  <2> HIDE DEF B, e
  <2> QED
    BY <1>3
<1>5. I!Wilder(2 * p, seed, n, dx, p) = w
  BY DEF I!Wilder, WilderBody
<1> HIDE DEF w
<1>6. DOMAIN w = 2 * p .. n
  BY <1>4 DEF WilderBody
<1> QED
  BY <1>1, <1>2, <1>5, <1>6 DEF n

LEMMA DirectionsHold ==
  ASSUME Full
  PROVE  \A x \in {I!Latest(I!PlusDI(window, params.period)),
         I!Latest(I!MinusDI(window, params.period)),
                   I!Latest(I!Adx(window, params.period))} : I!InRange(x, 2 * params.period)
<1> DEFINE n == Len(window)
           p == params.period
           U == I!PlusDI(window, p)
           D == I!MinusDI(window, p)
           Av == I!Adx(window, p)
<1>1. n \in Nat /\ p \in Nat \ {0} /\ p < n
  BY FullIs DEF Periods
<1>2. DOMAIN U = I!Smoothed(window, p) /\ DOMAIN D = I!Smoothed(window, p)
  BY DEF I!PlusDI, I!MinusDI
<1>3. CASE n < 2 * p
  <2>1. I!Smoothed(window, p) = {}
    BY <1>3 DEF I!Smoothed
  <2>2. n \notin DOMAIN Av
    BY <1>1, <1>3, AdxDomain
  <2> HIDE DEF U, D, Av, p
  <2>3. n \notin DOMAIN U /\ n \notin DOMAIN D
    BY <1>2, <2>1
  <2>4. I!Latest(U) = I!None /\ I!Latest(D) = I!None /\ I!Latest(Av) = I!None
    BY <2>2, <2>3 DEF I!Latest
  <2>5. ~(Len(window) >= 2 * p)
    BY <1>1, <1>3
  <2> QED
    BY <2>4, <2>5 DEF I!InRange, U, D, Av, p
<1>4. CASE ~(n < 2 * p)
  <2>1. n \in I!Smoothed(window, p)
    BY <1>1, <1>4 DEF I!Smoothed
  <2>2. U[n] \in Q /\ I!Between(U[n], 0, 100) /\ D[n] \in Q /\ I!Between(D[n], 0, 100)
    BY <1>1, <2>1, DirectionsAre
  <2>3. DOMAIN Av = 2 * p .. n /\ Av[n] \in Q /\ I!Between(Av[n], 0, 100) /\ n \in 2 * p .. n
    <3>1. 2 * p <= Len(window)
      BY <1>1, <1>4
    <3>2. DOMAIN Av = 2 * p .. n /\ Av[n] \in Q /\ I!Between(Av[n], 0, 100)
      BY <1>1, <3>1, AdxIs
    <3>3. n \in 2 * p .. n
      BY <1>1, <3>1
    <3> QED
      BY <3>2, <3>3
  <2> HIDE DEF U, D, Av, p
  <2>4. I!Latest(U) = U[n] /\ I!Latest(D) = D[n] /\ I!Latest(Av) = Av[n]
    BY <1>2, <2>1, <2>3 DEF I!Latest
  <2>5. Len(window) >= 2 * p
    BY <1>1, <1>4
  <2>6. U[n] # I!None /\ D[n] # I!None /\ Av[n] # I!None
    BY <2>2, <2>3, QIs
  <2> QED
    BY <2>2, <2>3, <2>4, <2>5, <2>6 DEF I!InRange, U, D, Av, p
<1> QED
  BY <1>3, <1>4

-----------------------------------------------------------------------------
(* Signs.                                                                  *)
LEMMA PlusPositive ==
  ASSUME NEW x \in Q, NEW y \in Q, x[1] >= 0, y[1] >= 0
  PROVE  I!Plus(x, y) \in Q /\ I!Plus(x, y)[1] >= 0
<1> DEFINE a == x[1]
           b == x[2]
           c == y[1]
           d == y[2]
<1>1. x \in Fr /\ a \in Nat /\ b \in Nat \ {0} /\ Is(x, a, b)
  BY QParts
<1>2. y \in Fr /\ c \in Nat /\ d \in Nat \ {0} /\ Is(y, c, d)
  BY QParts
<1> HIDE DEF a, b, c, d
<1>3. I!Plus(x, y) \in Q /\ Is(I!Plus(x, y), a * d + c * b, b * d)
  BY <1>1, <1>2, PlusIs
<1>4. a * d + c * b \in Nat /\ b * d \in Nat \ {0} /\ I!Plus(x, y) \in Fr
  BY <1>1, <1>2, <1>3, Positive, QIs
<1> QED
  BY <1>3, <1>4, SignIs

LEMMA TimesPositive ==
  ASSUME NEW x \in Fr, NEW y \in Q, x[1] >= 0, y[1] >= 0
  PROVE  I!Times(x, y) \in Q /\ I!Times(x, y)[1] >= 0
<1> DEFINE a == x[1]
           b == x[2]
           c == y[1]
           d == y[2]
<1>1. a \in Nat /\ b \in Nat \ {0} /\ Is(x, a, b)
  BY IsItself
<1>2. y \in Fr /\ c \in Nat /\ d \in Nat \ {0} /\ Is(y, c, d)
  BY QParts
<1> HIDE DEF a, b, c, d
<1>3. I!Times(x, y) \in Q /\ Is(I!Times(x, y), a * c, b * d)
  BY <1>1, <1>2, TimesIs
<1>4. a * c \in Nat /\ b * d \in Nat \ {0} /\ I!Times(x, y) \in Fr
  BY <1>1, <1>2, <1>3, Positive, QIs
<1> QED
  BY <1>3, <1>4, SignIs

LEMMA SumPositive ==
  ASSUME NEW xs, NEW n \in Nat, \A i \in 1..n : xs[i] \in Q /\ xs[i][1] >= 0
  PROVE  I!SumTo(xs, n) \in Q /\ I!SumTo(xs, n)[1] >= 0
<1>1. Rational(xs, n)
  BY DEF Rational
<1> DEFINE S == {k \in 0..n : I!SumTo(xs, k) \in Q /\ I!SumTo(xs, k)[1] >= 0}
<1>2. 0 \in S
  <2>1. I!Num(0) \in Q /\ I!Num(0)[1] = 0
    BY NumIs DEF I!Num
  <2> QED
    BY <2>1, SumOfNone
<1>3. ASSUME NEW k \in 1..n, k - 1 \in S PROVE k \in S
  <2>1. k \in Nat \ {0} /\ k <= n /\ k \in 0..n /\ xs[k] \in Q /\ xs[k][1] >= 0
    OBVIOUS
  <2>2. Rational(xs, k)
    BY <1>1, <2>1, RationalPart
  <2>3. I!SumTo(xs, k) = I!Plus(I!SumTo(xs, k - 1), xs[k])
    BY <2>1, <2>2, SumStep
  <2>4. I!SumTo(xs, k) \in Q /\ I!SumTo(xs, k)[1] >= 0
    BY <1>3, <2>1, <2>3, PlusPositive
  <2> QED
    BY <2>1, <2>4
<1> HIDE DEF S
<1>4. \A k \in 0..n : k \in S
  BY <1>2, <1>3, Climb
<1>5. n \in S
  BY <1>4
<1> QED
  BY <1>5 DEF S

(* 100 - 100 / (1 + x / y).                                                *)
Strength(x, y) == I!Minus(I!Num(100), I!Share(I!Num(100), I!Plus(I!Num(1), I!Share(x, y))))

LEMMA StrengthIs ==
  ASSUME NEW x \in Q, NEW y \in Q, x[1] >= 0, y[1] > 0
  PROVE  Strength(x, y) \in Q /\ I!Between(Strength(x, y), 0, 100)
<1> DEFINE a == x[1]
           b == x[2]
           c == y[1]
           d == y[2]
           u == a * d
           v == b * c
           s == I!Share(x, y)
           t == I!Plus(I!Num(1), s)
           h == I!Share(I!Num(100), t)
           z == I!Minus(I!Num(100), h)
<1>1. x \in Fr /\ a \in Nat /\ b \in Nat \ {0} /\ Is(x, a, b)
  BY QParts
<1>2. y \in Fr /\ c \in Nat \ {0} /\ d \in Nat \ {0} /\ Is(y, c, d)
  BY QParts
<1>3. Strength(x, y) = z
  BY DEF Strength
<1>4. s \in Q /\ Is(s, u, v)
  <2>1. y[1] > 0
    OBVIOUS
  <2> HIDE DEF a, b, c, d, s
  <2> QED
    BY <1>1, <1>2, <2>1, ShareIs DEF s
<1> HIDE DEF a, b, c, d, s
<1>5. u \in Nat /\ v \in Nat \ {0}
  BY <1>1, <1>2, Positive
<1> HIDE DEF u, v
<1>6. I!Num(1) \in Fr /\ Is(I!Num(1), 1, 1) /\ I!Num(100) \in Fr /\ Is(I!Num(100), 100, 1)
  BY NumIs
<1>7. t \in Q /\ Is(t, 1 * v + u * 1, 1 * v)
  <2>1. s \in Fr
    BY <1>4, QIs
  <2> QED
    BY <1>4, <1>5, <1>6, <2>1, PlusIs
<1> HIDE DEF t
<1>8. 1 * v + u * 1 = v + u /\ 1 * v = v /\ v + u \in Nat \ {0}
  BY <1>5
<1>9. t \in Fr /\ t[1] > 0 /\ Is(t, v + u, v)
  <2>1. t \in Fr /\ Is(t, v + u, v)
    BY <1>7, <1>8, QIs
  <2> QED
    BY <1>5, <1>8, <2>1, SignIs
<1>10. h \in Q /\ Is(h, 100 * v, 1 * (v + u))
  BY <1>5, <1>6, <1>8, <1>9, ShareIs
<1> HIDE DEF h
<1>11. 1 * (v + u) = v + u /\ 100 * v \in Int /\ h \in Fr
  BY <1>5, <1>10, QIs
<1>12. z \in Q /\ Is(z, 100 * (v + u) - (100 * v) * 1, 1 * (v + u))
  BY <1>6, <1>8, <1>10, <1>11, MinusIs
<1> HIDE DEF z
<1>13. 100 * (v + u) - (100 * v) * 1 = 100 * u /\ 100 * u \in Int
  BY <1>5
<1>14. z \in Fr /\ Is(z, 100 * u, v + u)
  BY <1>11, <1>12, <1>13, QIs
<1>15. 0 * (v + u) <= 100 * u /\ 100 * u <= 100 * (v + u)
  BY <1>5
<1>16. I!AtMost(I!Num(0), z) /\ I!AtMost(z, I!Num(100))
  BY <1>8, <1>13, <1>14, <1>15, BelowIs
<1> QED
  BY <1>3, <1>12, <1>16 DEF I!Between

-----------------------------------------------------------------------------
(* The filter of one pole keeps what is positive positive.                 *)
LfilterBody(y, b, keep, xs, zi, n) ==
  [i \in 1..n |-> I!Plus(I!Times(b, xs[i]), IF i = 1 THEN zi ELSE I!Times(keep, y[i - 1]))]

LEMMA LfilterPositive ==
  ASSUME NEW n \in Nat \ {0}, NEW xs, DOMAIN xs = 1..n, \A i \in 1..n : xs[i] \in Q
           /\ xs[i][1] >= 0,
         NEW b \in Fr, b[1] >= 0, NEW keep \in Fr, keep[1] >= 0, NEW zi \in Q, zi[1] >= 0
  PROVE  \A i \in 1..n : I!Lfilter(b, keep, xs, zi)[i] \in Q
           /\ I!Lfilter(b, keep, xs, zi)[i][1] >= 0
<1> DEFINE Pl == {q \in Q : q[1] >= 0}
           a == I!Plus(I!Times(b, xs[1]), zi)
           g == [y \in (1 + 1 .. n) \X Pl |-> I!Plus(I!Times(b, xs[y[1]]), I!Times(keep, y[2]))]
<1>1. \A i \in 1..n : I!Times(b, xs[i]) \in Q /\ I!Times(b, xs[i])[1] >= 0
  BY TimesPositive
<1>2. a \in Pl
  <2>1. 1 \in 1..n
    OBVIOUS
  <2> QED
    BY <1>1, <2>1, PlusPositive
<1>3. ASSUME NEW i \in 1 + 1 .. n, NEW q \in Pl
      PROVE I!Plus(I!Times(b, xs[i]), I!Times(keep, q)) \in Pl
  <2>1. I!Times(keep, q) \in Q /\ I!Times(keep, q)[1] >= 0
    BY TimesPositive
  <2>2. i \in 1..n
    OBVIOUS
  <2> QED
    BY <1>1, <2>1, <2>2, PlusPositive
<1>4. g \in [(1 + 1 .. n) \X Pl -> Pl]
  BY <1>3
<1>5. \A i \in 1 + 1 .. n, q \in Pl : g[<<i, q>>] = I!Plus(I!Times(b, xs[i]), I!Times(keep, q))
  OBVIOUS
<1> HIDE DEF g, Pl
<1>6. PICK e \in [1..n -> Pl] : FollowsFrom(e, a, 1, n, g)
  <2>1. 1 \in Nat /\ n \in Nat /\ 1 <= n
    OBVIOUS
  <2> HIDE DEF a
  <2> QED
    BY <1>2, <1>4, <2>1, StepsFrom, Zenon
<1>7. e[1] = a
  BY <1>6 DEF FollowsFrom
<1>8. ASSUME NEW i \in 1 + 1 .. n
      PROVE e[i] = I!Plus(I!Times(b, xs[i]), I!Times(keep, e[i - 1]))
  <2>1. i - 1 \in 1..n
    OBVIOUS
  <2>2. e[i - 1] \in Pl
    BY <2>1
  <2>3. e[i] = g[<<i, e[i - 1]>>]
    BY <1>6 DEF FollowsFrom
  <2> QED
    BY <1>5, <2>2, <2>3
<1>9. e = LfilterBody(e, b, keep, xs, zi, n)
  <2>1. \A i \in 1..n : i # 1 => i \in 1 + 1 .. n
    OBVIOUS
  <2>2. \A i \in 1..n :
        e[i] = I!Plus(I!Times(b, xs[i]), IF i = 1 THEN zi ELSE I!Times(keep, e[i - 1]))
    BY <1>7, <1>8, <2>1
  <2> QED
    BY <2>2 DEF LfilterBody
<1> DEFINE w == CHOOSE f : f = LfilterBody(f, b, keep, xs, zi, n)
<1>10. w = LfilterBody(w, b, keep, xs, zi, n)
  BY <1>9
<1>11. I!Lfilter(b, keep, xs, zi) = w
  BY DEF I!Lfilter, LfilterBody
<1> HIDE DEF w
<1>12. \A i \in 1..n :
       w[i] = I!Plus(I!Times(b, xs[i]), IF i = 1 THEN zi ELSE I!Times(keep, w[i - 1]))
  BY <1>10 DEF LfilterBody
<1> DEFINE S == {i \in 1..n : w[i] \in Pl}
<1>13. 1 \in S
  <2>1. 1 \in 1..n
    OBVIOUS
  <2>2. w[1] = a
    BY <1>12, <2>1
  <2> QED
    BY <1>2, <2>1, <2>2
<1>14. ASSUME NEW i \in 1 + 1 .. n, i - 1 \in S PROVE i \in S
  <2>1. i \in 1..n /\ i # 1 /\ w[i - 1] \in Pl
    BY <1>14
  <2>2. w[i] = I!Plus(I!Times(b, xs[i]), I!Times(keep, w[i - 1]))
    BY <1>12, <2>1
  <2> QED
    BY <1>3, <2>1, <2>2
<1> HIDE DEF S
<1>15. \A i \in 1..n : i \in S
  <2>1. 1 \in Nat /\ n \in Nat
    OBVIOUS
  <2> QED
    BY <1>13, <1>14, <2>1, ClimbFrom
<1> QED
  BY <1>11, <1>15 DEF S, Pl

LEMMA NumPositive ==
  ASSUME NEW c \in Nat
  PROVE  I!Num(c) \in Q /\ I!Num(c)[1] >= 0
BY NumIs DEF I!Num

LEMMA OverPositive ==
  ASSUME NEW x \in Q, x[1] >= 0, NEW n \in Nat \ {0}
  PROVE  I!Over(x, n) \in Q /\ I!Over(x, n)[1] >= 0
<1>1. x \in Fr /\ x[1] \in Int /\ x[2] \in Nat \ {0} /\ Is(x, x[1], x[2])
  BY QParts
<1> DEFINE a == x[1]
           b == x[2]
<1>2. a \in Nat /\ b \in Nat \ {0} /\ Is(x, a, b)
  BY <1>1
<1> HIDE DEF a, b
<1>3. I!Over(x, n) \in Q /\ Is(I!Over(x, n), a, b * n)
  BY <1>1, <1>2, OverIs
<1>4. b * n \in Nat \ {0} /\ I!Over(x, n) \in Fr
  BY <1>2, <1>3, Positive, QIs
<1> QED
  BY <1>2, <1>3, <1>4, SignIs

LEMMA PositiveUnlessZero ==
  ASSUME NEW x \in Q, x[1] >= 0, x # I!Num(0)
  PROVE  x[1] > 0
<1>1. x[1] \in Int /\ x[2] \in Nat \ {0}
  BY QParts
<1>2. SUFFICES ASSUME x[1] = 0 PROVE FALSE
  BY <1>1
<1>3. Is(x, 0, 1)
  <2>1. 0 * x[2] = 0
    BY <1>1
  <2> QED
    BY <1>2, <2>1 DEF Is
<1>4. I!Num(0) \in Q /\ Is(I!Num(0), 0, 1)
  BY NumIs
<1>5. x = I!Num(0)
  BY <1>3, <1>4, IsUnique
<1> QED
  BY <1>5

-----------------------------------------------------------------------------
(* The relative strength index.                                            *)
LEMMA AverageMoveIs ==
  ASSUME NEW m \in Nat, NEW p \in Nat \ {0}, p <= m, NEW moves \in [1..m -> Nat]
  PROVE  I!AverageMove(moves, p)[m] \in Q /\ I!AverageMove(moves, p)[m][1] >= 0
<1> DEFINE head == SubSeq(moves, 1, p)
           tail == SubSeq(moves, p + 1, m)
           fh == I!Fractions(head)
           ft == I!Fractions(tail)
           seed == I!MeanOf(fh)
           rest == I!Lfilter(<<1, p>>, <<p - 1, p>>, ft, seed)
<1>1. moves \in Seq(Nat) /\ Len(moves) = m
  OBVIOUS
<1>2. I!AverageMove(moves, p)[m] = IF m = p THEN seed ELSE rest[m - p]
  <2>1. m \in p..m
    OBVIOUS
  <2>2. I!AverageMove(moves, p) = [i \in p .. m |-> IF i = p THEN seed ELSE rest[i - p]]
    BY <1>1 DEF I!AverageMove
  <2> HIDE DEF seed, rest
  <2> QED
    BY <2>1, <2>2
<1>3. head \in Seq(Nat) /\ tail \in Seq(Nat)
  BY <1>1
<1>4. Len(head) = p /\ DOMAIN head = 1..p
  BY <1>1
<1>5. DOMAIN tail = 1..(m - p)
  BY <1>1
<1>6. \A i \in 1..p : head[i] \in Nat
  BY <1>3, <1>4
<1>7. \A i \in 1..(m - p) : tail[i] \in Nat
  BY <1>3, <1>5
<1> HIDE DEF head, tail
<1>8. fh = [i \in 1..p |-> I!Num(head[i])] /\ ft = [i \in 1..(m - p) |-> I!Num(tail[i])]
  BY <1>4, <1>5 DEF I!Fractions
<1>9. Len(fh) = p
  BY <1>8
<1> HIDE DEF fh, ft
<1>10. \A i \in 1..p : fh[i] \in Q /\ fh[i][1] >= 0
  BY <1>6, <1>8, NumPositive
<1>11. DOMAIN ft = 1..(m - p) /\ \A i \in 1..(m - p) : ft[i] \in Q /\ ft[i][1] >= 0
  BY <1>7, <1>8, NumPositive
<1>12. seed = I!Over(I!SumTo(fh, p), p)
  BY <1>9 DEF I!MeanOf, I!SumOf
<1>13. I!SumTo(fh, p) \in Q /\ I!SumTo(fh, p)[1] >= 0
  BY <1>10, SumPositive
<1>14. seed \in Q /\ seed[1] >= 0
  BY <1>12, <1>13, OverPositive
<1> HIDE DEF seed
<1>15. CASE m = p
  BY <1>2, <1>14, <1>15
<1>16. CASE m # p
  <2> DEFINE k == m - p
             b == <<1, p>>
             keep == <<p - 1, p>>
  <2>1. k \in Nat \ {0} /\ k \in 1..k
    BY <1>16
  <2>2. b \in Fr /\ b[1] >= 0 /\ keep \in Fr /\ keep[1] >= 0
    BY DEF Fr
  <2>3. DOMAIN ft = 1..k /\ \A i \in 1..k : ft[i] \in Q /\ ft[i][1] >= 0
    BY <1>11
  <2>4. rest = I!Lfilter(b, keep, ft, seed)
    OBVIOUS
  <2> HIDE DEF k, b, keep, rest
  <2>5. \A i \in 1..k : rest[i] \in Q /\ rest[i][1] >= 0
    BY <1>14, <2>1, <2>2, <2>3, <2>4, LfilterPositive
  <2>6. rest[k] \in Q /\ rest[k][1] >= 0
    BY <2>1, <2>5
  <2> QED
    BY <1>2, <1>16, <2>6 DEF k
<1> QED
  BY <1>15, <1>16

LEMMA RsiIs ==
  ASSUME NEW n \in Nat, NEW p \in Nat \ {0}, p < n, NEW xs \in [1..n -> Nat]
  PROVE  DOMAIN I!Rsi(xs, p) = p + 1 .. n /\ I!Rsi(xs, p)[n] \in Q
           /\ I!Between(I!Rsi(xs, p)[n], 0, 100)
<1> DEFINE d == I!Deltas(xs)
           m == n - 1
           gains == [i \in DOMAIN d |-> I!Max({d[i], 0})]
           losses == [i \in DOMAIN d |-> I!Max({-d[i], 0})]
           gain == I!AverageMove(gains, p)
           loss == I!AverageMove(losses, p)
<1>1. Len(xs) = n /\ m \in Nat /\ p <= m /\ n \in p + 1 .. n
  OBVIOUS
<1>2. I!Rsi(xs, p) = [i \in p + 1 .. n |->
         IF loss[i - 1] = I!Num(0) THEN I!Num(100)
         ELSE I!Minus(I!Num(100),
           I!Share(I!Num(100), I!Plus(I!Num(1), I!Share(gain[i-1], loss[i-1]))))]
  BY <1>1 DEF I!Rsi
<1>3. d = [i \in 1..m |-> xs[i + 1] - xs[i]]
  BY <1>1 DEF I!Deltas
<1>4. ASSUME NEW i \in 1..m PROVE xs[i + 1] - xs[i] \in Int
  <2>1. i \in 1..n /\ i + 1 \in 1..n
    BY <1>1
  <2>2. xs[i] \in Nat /\ xs[i + 1] \in Nat
    BY <2>1
  <2> QED
    BY <2>2
<1> HIDE DEF d, m
<1>5. DOMAIN d = 1..m /\ \A i \in 1..m : d[i] \in Int
  BY <1>3, <1>4
<1>6. \A z \in Int : I!Max({z, 0}) \in Nat
  <2>1. SUFFICES ASSUME NEW z \in Int PROVE I!Max({z, 0}) \in Nat
    OBVIOUS
  <2>2. I!Max({z, 0}) = LongerIs(z, 0)
    BY LongerIsMax
  <2>3. LongerIs(z, 0) \in Nat
    BY DEF LongerIs
  <2> QED
    BY <2>2, <2>3
<1>7. gains \in [1..m -> Nat]
  BY <1>5, <1>6
<1>8. losses \in [1..m -> Nat]
  <2>1. \A i \in 1..m : -d[i] \in Int
    BY <1>5
  <2> QED
    BY <1>5, <1>6, <2>1
<1> HIDE DEF gains, losses
<1>9. gain[m] \in Q /\ gain[m][1] >= 0
  BY <1>1, <1>7, AverageMoveIs
<1>10. loss[m] \in Q /\ loss[m][1] >= 0
  BY <1>1, <1>8, AverageMoveIs
<1> HIDE DEF gain, loss
<1>11. DOMAIN I!Rsi(xs, p) = p + 1 .. n
  BY <1>2
<1>12. I!Rsi(xs, p)[n] = IF loss[m] = I!Num(0) THEN I!Num(100) ELSE Strength(gain[m], loss[m])
  BY <1>1, <1>2 DEF Strength, m
<1>13. CASE loss[m] = I!Num(0)
  BY <1>11, <1>12, <1>13, NumBetween
<1>14. CASE loss[m] # I!Num(0)
  <2>1. loss[m][1] > 0
    BY <1>10, <1>14, PositiveUnlessZero
  <2>2. Strength(gain[m], loss[m]) \in Q /\ I!Between(Strength(gain[m], loss[m]), 0, 100)
    BY <1>9, <1>10, <2>1, StrengthIs
  <2> QED
    BY <1>11, <1>12, <1>14, <2>2
<1> QED
  BY <1>13, <1>14

LEMMA RsiHolds ==
  ASSUME Full
  PROVE  I!Latest(I!Rsi(I!Closes(window), params.period)) \in Q
           /\ I!Between(I!Latest(I!Rsi(I!Closes(window), params.period)), 0, 100)
<1> DEFINE n == Len(window)
           p == params.period
           cs == I!Closes(window)
<1>1. n \in Nat /\ p \in Nat \ {0} /\ p < n /\ DOMAIN window = 1..n /\ n \in p + 1 .. n
  BY FullIs DEF Periods
<1>2. cs \in [1..n -> Nat]
  <2>1. \A i \in 1..n : window[i].close \in Nat
    BY CandleIs
  <2> QED
    BY <1>1, <2>1 DEF I!Closes
<1> HIDE DEF n, p, cs
<1>3. DOMAIN I!Rsi(cs, p) = p + 1 .. n /\ I!Rsi(cs, p)[n] \in Q
      /\ I!Between(I!Rsi(cs, p)[n], 0, 100)
  BY <1>1, <1>2, RsiIs
<1>4. I!Latest(I!Rsi(cs, p)) = I!Rsi(cs, p)[n]
  BY <1>1, <1>3 DEF I!Latest, n
<1> QED
  BY <1>3, <1>4 DEF cs, p

-----------------------------------------------------------------------------
(* The money flow index.                                                   *)
Flows(sign) == [j \in DOMAIN window |-> I!Flow(window, j, sign)]
FlowSum(sign, i, p) == I!Minus(I!SumTo(Flows(sign), i), I!SumTo(Flows(sign), i - p))

LEMMA FlowsAre ==
  ASSUME Full, NEW sign
  PROVE  \A i \in 1..Len(window) : Flows(sign)[i] \in Q /\ Flows(sign)[i][1] >= 0
<1>1. SUFFICES ASSUME NEW i \in 1..Len(window)
      PROVE Flows(sign)[i] \in Q /\ Flows(sign)[i][1] >= 0
  OBVIOUS
<1>2. DOMAIN window = 1..Len(window)
  BY FullIs
<1>3. Flows(sign)[i] = I!Flow(window, i, sign)
  BY <1>2 DEF Flows
<1> DEFINE w == I!Typical(window, i) * window[i].volume
<1>4. I!Flow(window, i, sign) = I!Ratio(w, 3) \/ I!Flow(window, i, sign) = I!Num(0)
  BY DEF I!Flow
<1>5. w \in Nat
  <2>1. window[i].close \in Nat /\ window[i].high \in Nat /\ window[i].low \in Nat
        /\ window[i].volume \in Nat
    BY CandleIs
  <2>2. I!Typical(window, i) \in Nat
    BY <2>1 DEF I!Typical
  <2> QED
    BY <2>1, <2>2
<1> HIDE DEF w
<1>6. I!Ratio(w, 3) \in Q /\ Is(I!Ratio(w, 3), w, 3)
  BY <1>5, IsRatio
<1>7. I!Ratio(w, 3)[1] >= 0
  BY <1>5, <1>6, SignIs, QIs
<1>8. I!Num(0) \in Q /\ I!Num(0)[1] >= 0
  BY NumPositive
<1> QED
  BY <1>3, <1>4, <1>6, <1>7, <1>8

LEMMA FlowSumIs ==
  ASSUME Full, NEW sign, NEW p \in Nat \ {0}, p < Len(window)
  PROVE  FlowSum(sign, Len(window), p) \in Q /\ FlowSum(sign, Len(window), p)[1] >= 0
<1> DEFINE n == Len(window)
           a == n - p
           fs == Flows(sign)
           ys == [j \in 1..p |-> fs[a + j]]
<1>1. n \in Nat /\ a \in Nat /\ a + p = n
  BY FullIs
<1>2. \A i \in 1..n : fs[i] \in Q /\ fs[i][1] >= 0
  BY FlowsAre
<1>3. FlowSum(sign, n, p) = I!Minus(I!SumTo(fs, n), I!SumTo(fs, a))
  BY DEF FlowSum
<1> HIDE DEF n, a, fs
<1>4. Rational(fs, a + p)
  BY <1>1, <1>2 DEF Rational
<1>5. ASSUME NEW j \in 1..p PROVE ys[j] = fs[a + j] /\ ys[j] \in Q /\ ys[j][1] >= 0
  <2>1. a + j \in 1..n
    BY <1>1
  <2> QED
    BY <1>2, <2>1
<1> HIDE DEF ys
<1>6. I!Minus(I!SumTo(fs, a + p), I!SumTo(fs, a)) = I!SumTo(ys, p)
  BY <1>1, <1>4, <1>5, WindowSum
<1>7. I!SumTo(ys, p) \in Q /\ I!SumTo(ys, p)[1] >= 0
  BY <1>5, SumPositive
<1> QED
  BY <1>1, <1>3, <1>6, <1>7 DEF n

LEMMA MfiHolds ==
  ASSUME Full
  PROVE  I!Latest(I!Mfi(window, params.period)) \in Q
           /\ I!Between(I!Latest(I!Mfi(window, params.period)), 0, 100)
<1> DEFINE n == Len(window)
           p == params.period
           up == FlowSum(1, n, p)
           down == FlowSum(-1, n, p)
           M == I!Mfi(window, p)
<1>1. n \in Nat /\ p \in Nat \ {0} /\ p < n /\ n \in p + 1 .. n
  BY FullIs DEF Periods
<1>2. DOMAIN M = p + 1 .. n /\ M[n] = IF down[1] > 0 THEN Strength(up, down) ELSE I!Num(100)
  BY <1>1 DEF I!Mfi, FlowSum, Flows, Strength
<1>3. up \in Q /\ up[1] >= 0
  BY <1>1, FlowSumIs
<1>4. down \in Q /\ down[1] >= 0
  BY <1>1, FlowSumIs
<1> HIDE DEF p, up, down, M
<1>5. I!Latest(M) = M[n]
  BY <1>1, <1>2 DEF I!Latest
<1>6. CASE down[1] > 0
  <2>1. Strength(up, down) \in Q /\ I!Between(Strength(up, down), 0, 100)
    BY <1>3, <1>4, <1>6, StrengthIs
  <2> QED
    BY <1>2, <1>5, <1>6, <2>1 DEF M, p
<1>7. CASE ~(down[1] > 0)
  <2>1. I!Num(100) \in Q /\ I!Between(I!Num(100), 0, 100)
    BY NumBetween
  <2> QED
    BY <1>2, <1>5, <1>7, <2>1 DEF M, p
<1> QED
  BY <1>6, <1>7

-----------------------------------------------------------------------------
(* Volumes and what they were worth, as whole numbers.                     *)
Volumes == [j \in DOMAIN window |-> I!Num(window[j].volume)]
Worths  == [j \in DOMAIN window |-> I!Num(window[j].close * window[j].volume)]

LEMMA WholeIs ==
  ASSUME NEW x \in Q, NEW n \in Int, Is(x, n, 1)
  PROVE  x = I!Num(n) /\ x[1] = n
<1>1. I!Num(n) \in Q /\ Is(I!Num(n), n, 1) /\ I!Num(n)[1] = n
  BY NumIs DEF I!Num
<1>2. x = I!Num(n)
  BY <1>1, IsUnique
<1> QED
  BY <1>1, <1>2

LEMMA WholeSum ==
  ASSUME NEW xs, NEW k \in Nat \ {0}, Rational(xs, k), NEW v \in Int,
         I!SumTo(xs, k - 1) = I!Num(v),
         NEW c \in Int, xs[k] = I!Num(c)
  PROVE  I!SumTo(xs, k) = I!Num(v + c)
<1>1. I!SumTo(xs, k) = I!Plus(I!Num(v), I!Num(c))
  BY SumStep
<1>2. I!Num(v) \in Fr /\ Is(I!Num(v), v, 1) /\ I!Num(c) \in Fr /\ Is(I!Num(c), c, 1)
  BY NumIs
<1>3. I!Plus(I!Num(v), I!Num(c)) \in Q /\ Is(I!Plus(I!Num(v), I!Num(c)), v * 1 + c * 1, 1 * 1)
  BY <1>2, PlusIs
<1>4. v * 1 + c * 1 = v + c /\ 1 * 1 = 1 /\ v + c \in Int
  OBVIOUS
<1>5. I!Plus(I!Num(v), I!Num(c)) = I!Num(v + c)
  BY <1>3, <1>4, WholeIs
<1> QED
  BY <1>1, <1>5

LEMMA VolumesAre ==
  ASSUME Full
  PROVE  LET n == Len(window) IN
         /\ Rational(Volumes, n) /\ Rational(Worths, n)
         /\ \A i \in 1..n : /\ Volumes[i] = I!Num(window[i].volume) /\ window[i].volume \in Nat
                            /\ Worths[i] = I!Num(window[i].close * window[i].volume)
                            /\ window[i].close * window[i].volume \in Nat
<1> DEFINE n == Len(window)
<1>1. DOMAIN window = 1..n
  BY FullIs
<1>2. ASSUME NEW i \in 1..n
      PROVE  /\ Volumes[i] = I!Num(window[i].volume) /\ window[i].volume \in Nat
             /\ Worths[i] = I!Num(window[i].close * window[i].volume)
             /\ window[i].close * window[i].volume \in Nat
  <2>1. window[i].close \in Nat /\ window[i].volume \in Nat
    BY CandleIs
  <2>2. window[i].close * window[i].volume \in Nat
    BY <2>1
  <2>3. Volumes[i] = I!Num(window[i].volume)
        /\ Worths[i] = I!Num(window[i].close * window[i].volume)
    BY <1>1 DEF Volumes, Worths
  <2> QED
    BY <2>1, <2>2, <2>3
<1>3. Rational(Volumes, n)
  BY <1>2, NumIs DEF Rational
<1>4. Rational(Worths, n)
  BY <1>2, NumIs DEF Rational
<1> QED
  BY <1>2, <1>3, <1>4

(* The volume up to a candle, and what it was worth between the lowest and *)
(* the highest close.                                                      *)
Weighed(k, v, w, lo, hi) ==
  I!SumTo(Volumes, k) = I!Num(v) /\ I!SumTo(Worths, k) = I!Num(w) /\ lo * v <= w /\ w <= hi * v

LEMMA WeighedAll ==
  ASSUME Full, NEW lo \in Nat, NEW hi \in Nat,
         \A i \in 1..Len(window) : lo <= window[i].close /\ window[i].close <= hi
  PROVE  \E v, w \in Nat : Weighed(Len(window), v, w, lo, hi)
<1> DEFINE n == Len(window)
           S == {k \in 0..n : \E v, w \in Nat : Weighed(k, v, w, lo, hi)}
<1>1. n \in Nat
  BY FullIs
<1>2. 0 \in S
  <2>1. I!SumTo(Volumes, 0) = I!Num(0) /\ I!SumTo(Worths, 0) = I!Num(0) /\ lo * 0 = 0
        /\ hi * 0 = 0
    BY SumOfNone
  <2>2. Weighed(0, 0, 0, lo, hi)
    BY <2>1 DEF Weighed
  <2> QED
    BY <1>1, <2>2
<1>3. ASSUME NEW k \in 1..n, k - 1 \in S PROVE k \in S
  <2> DEFINE c == window[k].close
             a == window[k].volume
  <2>1. PICK v \in Nat, w \in Nat : Weighed(k - 1, v, w, lo, hi)
    BY <1>3
  <2>2. a \in Nat /\ c \in Nat /\ lo <= c /\ c <= hi
    BY CandleIs
  <2>3. Volumes[k] = I!Num(a) /\ Worths[k] = I!Num(c * a) /\ c * a \in Nat
    BY VolumesAre
  <2>4. k \in Nat \ {0} /\ k <= n /\ k \in 0..n
    BY <1>1
  <2>5. Rational(Volumes, k) /\ Rational(Worths, k)
    BY <1>1, <2>4, VolumesAre, RationalPart
  <2> HIDE DEF c, a, n
  <2>6. I!SumTo(Volumes, k) = I!Num(v + a)
    BY <2>1, <2>2, <2>3, <2>4, <2>5, WholeSum DEF Weighed
  <2>7. I!SumTo(Worths, k) = I!Num(w + c * a)
    BY <2>1, <2>2, <2>3, <2>4, <2>5, WholeSum DEF Weighed
  <2>71. lo \in Int /\ c \in Int /\ hi \in Int
    BY <2>2
  <2>72. lo * a <= c * a
    BY <2>2, <2>71, Grows
  <2>73. c * a <= hi * a
    BY <2>2, <2>71, Grows
  <2>8. lo * a <= c * a /\ c * a <= hi * a
    BY <2>72, <2>73
  <2>9. lo * v <= w /\ w <= hi * v
    BY <2>1 DEF Weighed
  <2>10. lo * (v + a) = lo * v + lo * a /\ hi * (v + a) = hi * v + hi * a
    BY <2>2
  <2>11. lo * (v + a) <= w + c * a /\ w + c * a <= hi * (v + a)
    <3> DEFINE p == lo * v
               q == lo * a
               r == hi * v
               s == hi * a
               t == c * a
    <3>1. p \in Int /\ q \in Int /\ r \in Int /\ s \in Int /\ t \in Int
      BY <2>2
    <3>2. q <= t /\ t <= s /\ p <= w /\ w <= r
      BY <2>8, <2>9
    <3> HIDE DEF p, q, r, s, t
    <3>3. p + q <= w + t /\ w + t <= r + s
      BY <3>1, <3>2
    <3> QED
      BY <2>10, <3>3 DEF p, q, r, s, t
  <2>12. Weighed(k, v + a, w + c * a, lo, hi)
    BY <2>6, <2>7, <2>11 DEF Weighed
  <2>13. v + a \in Nat /\ w + c * a \in Nat
    BY <2>2, <2>3
  <2>14. \E x, y \in Nat : Weighed(k, x, y, lo, hi)
    BY <2>12, <2>13
  <2> QED
    BY <2>4, <2>14
<1> HIDE DEF S, n
<1>4. \A k \in 0..n : k \in S
  BY <1>1, <1>2, <1>3, Climb
<1>5. n \in S
  BY <1>1, <1>4
<1> QED
  BY <1>5 DEF S, n

LEMMA VwapHolds ==
  ASSUME Full
  PROVE  LET v == I!Latest(I!Vwap(window))
         IN  v = I!Num(0)
             \/ I!Between(v, I!Lowest(I!Closes(window)), I!Highest(I!Closes(window)))
<1> DEFINE n == Len(window)
           cs == I!Closes(window)
           lo == I!Lowest(cs)
           hi == I!Highest(cs)
           V == I!SumTo(Volumes, n)
           W == I!SumTo(Worths, n)
<1>1. n \in Nat \ {0} /\ DOMAIN window = 1..n /\ n \in 1..n
  BY FullIs, PricesFunction
<1>2. cs \in [1..n -> Nat] /\ \A i \in 1..n : cs[i] = window[i].close
  <2>1. \A i \in 1..n : window[i].close \in Nat
    BY CandleIs
  <2> QED
    BY <1>1, <2>1 DEF I!Closes
<1>3. I!Latest(I!Vwap(window)) = IF V[1] > 0 THEN I!Share(W, V) ELSE I!Num(0)
  BY <1>1 DEF I!Latest, I!Vwap, Volumes, Worths
<1> HIDE DEF cs
<1>4. lo \in Nat /\ hi \in Nat /\ \A i \in 1..n : lo <= cs[i] /\ cs[i] <= hi
  <2> HIDE DEF n
  <2> QED
    BY <1>1, <1>2, LowestIs, HighestIs
<1> HIDE DEF lo, hi
<1>5. \A i \in 1..n : lo <= window[i].close /\ window[i].close <= hi
  BY <1>2, <1>4
<1>6. PICK v \in Nat, w \in Nat : Weighed(n, v, w, lo, hi)
  BY <1>4, <1>5, WeighedAll
<1>7. V = I!Num(v) /\ W = I!Num(w) /\ lo * v <= w /\ w <= hi * v
  BY <1>6 DEF Weighed
<1> HIDE DEF V, W, n
<1>8. V[1] = v
  BY <1>7 DEF I!Num
<1>9. CASE v = 0
  BY <1>3, <1>8, <1>9
<1>10. CASE v # 0
  <2> DEFINE x == I!Share(W, V)
  <2>1. W \in Fr /\ Is(W, w, 1) /\ V \in Fr /\ Is(V, v, 1) /\ V[1] > 0 /\ v \in Nat \ {0}
    BY <1>7, <1>8, <1>10, NumIs
  <2>2. x \in Q /\ Is(x, w * 1, 1 * v)
    BY <2>1, ShareIs
  <2> HIDE DEF x
  <2>3. w * 1 = w /\ 1 * v = v /\ x \in Fr
    BY <2>2, QIs
  <2>4. Is(x, w, v)
    BY <2>2, <2>3
  <2>5. I!AtMost(I!Num(lo), x) /\ I!AtMost(x, I!Num(hi))
    BY <1>4, <1>7, <2>1, <2>3, <2>4, BelowIs
  <2> QED
    BY <1>3, <2>1, <2>5 DEF I!Between, x, lo, hi, cs
<1> QED
  BY <1>9, <1>10

-----------------------------------------------------------------------------
(* The balance of the volumes.                                             *)
BalanceStep(o, i) ==
  o + (CASE window[i].close > window[i-1].close -> window[i].volume
         [] window[i].close < window[i-1].close -> -window[i].volume
         [] window[i].close = window[i-1].close -> 0)

LEMMA BalanceStepIs ==
  ASSUME Full, NEW i \in 2..Len(window), NEW o \in Int
  PROVE  /\ BalanceStep(o, i) \in Int
         /\ \A v \in Nat : I!Abs(o) <= v => I!Abs(BalanceStep(o, i)) <= v + window[i].volume
<1> DEFINE a == window[i].close
           b == window[i - 1].close
           c == window[i].volume
           s == BalanceStep(o, i)
<1>1. i \in 1..Len(window) /\ i - 1 \in 1..Len(window)
  BY FullIs
<1>2. a \in Nat /\ b \in Nat /\ c \in Nat
  BY <1>1, CandleIs
<1>3. s = o + (CASE a > b -> c [] a < b -> -c [] a = b -> 0)
  BY DEF BalanceStep
<1> HIDE DEF a, b, c, s
<1>4. s = o + c \/ s = o - c \/ s = o
  <2>1. CASE a > b
    BY <1>2, <1>3, <2>1
  <2>2. CASE a < b
    BY <1>2, <1>3, <2>2
  <2>3. CASE a = b
    BY <1>2, <1>3, <2>3
  <2> QED
    BY <1>2, <2>1, <2>2, <2>3
<1>5. s \in Int /\ \A v \in Nat : I!Abs(o) <= v => I!Abs(s) <= v + c
  BY <1>2, <1>4 DEF I!Abs
<1> QED
  BY <1>5 DEF s, c

BalanceBody(f) ==
  [i \in DOMAIN window |->
        IF i = 1 THEN 0
        ELSE f[i-1] + (CASE window[i].close > window[i-1].close -> window[i].volume
                         [] window[i].close < window[i-1].close -> -window[i].volume
                         [] window[i].close = window[i-1].close -> 0)]

LEMMA ObvIs ==
  ASSUME Full
  PROVE  I!Obv(window)[1] = 0
           /\ \A i \in 2..Len(window) : I!Obv(window)[i] = BalanceStep(I!Obv(window)[i - 1], i)
<1> DEFINE n == Len(window)
           g == [y \in (1 + 1 .. n) \X Int |-> BalanceStep(y[2], y[1])]
<1>1. n \in Nat /\ 1 <= n /\ DOMAIN window = 1..n /\ 1 + 1 .. n = 2..n
  BY FullIs, PricesFunction
<1>2. g \in [(1 + 1 .. n) \X Int -> Int]
  BY <1>1, BalanceStepIs
<1>3. \A i \in 1 + 1 .. n, q \in Int : g[<<i, q>>] = BalanceStep(q, i)
  OBVIOUS
<1> HIDE DEF g, n
<1>4. PICK e \in [1..n -> Int] : FollowsFrom(e, 0, 1, n, g)
  <2>1. 1 \in Nat /\ 0 \in Int
    OBVIOUS
  <2> QED
    BY <1>1, <1>2, <2>1, StepsFrom, Zenon
<1>5. e[1] = 0
  BY <1>4 DEF FollowsFrom
<1>6. ASSUME NEW i \in 1 + 1 .. n PROVE e[i] = BalanceStep(e[i - 1], i)
  <2>1. i - 1 \in 1..n
    BY <1>1
  <2>2. e[i - 1] \in Int
    BY <2>1
  <2>3. e[i] = g[<<i, e[i - 1]>>]
    BY <1>4 DEF FollowsFrom
  <2> QED
    BY <1>3, <2>2, <2>3
<1>7. e = BalanceBody(e)
  <2>1. \A i \in 1..n : i # 1 => i \in 1 + 1 .. n
    BY <1>1
  <2>2. \A i \in 1..n : e[i] = IF i = 1 THEN 0 ELSE BalanceStep(e[i - 1], i)
    BY <1>5, <1>6, <2>1
  <2>3. BalanceBody(e) = [i \in 1..n |-> IF i = 1 THEN 0 ELSE BalanceStep(e[i - 1], i)]
    BY <1>1 DEF BalanceBody, BalanceStep
  <2> QED
    BY <2>2, <2>3
<1> DEFINE w == CHOOSE f : f = BalanceBody(f)
<1>8. w = BalanceBody(w)
  BY <1>7
<1>9. I!Obv(window) = w
  BY DEF I!Obv, BalanceBody
<1> HIDE DEF w
<1>10. \A i \in 1..n : w[i] = IF i = 1 THEN 0 ELSE BalanceStep(w[i - 1], i)
  BY <1>1, <1>8 DEF BalanceBody, BalanceStep
<1>11. 1 \in 1..n /\ \A i \in 2..n : i \in 1..n /\ i # 1
  BY <1>1
<1>12. w[1] = 0 /\ \A i \in 2..n : w[i] = BalanceStep(w[i - 1], i)
  BY <1>10, <1>11
<1> QED
  BY <1>9, <1>12 DEF n

Balanced(k, v) == I!SumTo(Volumes, k) = I!Num(v) /\ I!Obv(window)[k] \in Int
    /\ I!Abs(I!Obv(window)[k]) <= v

LEMMA ObvHolds ==
  ASSUME Full
  PROVE  I!Abs(I!Obv(window)[Len(window)])
           <= I!SumOf([i \in DOMAIN window |-> I!Num(window[i].volume)])[1]
<1> DEFINE n == Len(window)
           S == {k \in 1..n : \E v \in Nat : Balanced(k, v)}
<1>1. n \in Nat /\ n \in 1..n /\ 1 \in 1..n /\ DOMAIN window = 1..n
  BY FullIs, PricesFunction
<1>2. 1 \in S
  <2> DEFINE a == window[1].volume
  <2>1. Volumes[1] = I!Num(a) /\ a \in Nat
    BY <1>1, VolumesAre
  <2> HIDE DEF a
  <2>2. Rational(Volumes, 1)
    BY <2>1, NumIs DEF Rational
  <2>3. I!SumTo(Volumes, 1 - 1) = I!Num(0)
    BY SumOfNone
  <2>4. I!SumTo(Volumes, 1) = I!Num(0 + a)
    BY <2>1, <2>2, <2>3, WholeSum
  <2>5. I!Obv(window)[1] = 0 /\ I!Abs(0) = 0
    BY ObvIs DEF I!Abs
  <2>6. Balanced(1, 0 + a) /\ 0 + a \in Nat
    BY <2>1, <2>4, <2>5 DEF Balanced
  <2> QED
    BY <1>1, <2>6
<1>3. ASSUME NEW k \in 1 + 1 .. n, k - 1 \in S PROVE k \in S
  <2> DEFINE a == window[k].volume
             o == I!Obv(window)[k - 1]
  <2>1. PICK v \in Nat : Balanced(k - 1, v)
    BY <1>3
  <2>2. k \in 2..n /\ k \in 1..n /\ k \in Nat \ {0} /\ k <= n
    BY <1>1
  <2>3. Volumes[k] = I!Num(a) /\ a \in Nat
    BY <2>2, VolumesAre
  <2>4. Rational(Volumes, k)
    BY <1>1, <2>2, VolumesAre, RationalPart
  <2>5. I!SumTo(Volumes, k) = I!Num(v + a)
    <3> HIDE DEF a
    <3> QED
      BY <2>1, <2>2, <2>3, <2>4, WholeSum DEF Balanced
  <2>6. I!Obv(window)[k] = BalanceStep(o, k)
    BY <2>2, ObvIs
  <2>7. o \in Int /\ I!Abs(o) <= v
    BY <2>1 DEF Balanced
  <2>8. BalanceStep(o, k) \in Int /\ I!Abs(BalanceStep(o, k)) <= v + a
    <3> HIDE DEF o
    <3> QED
      BY <2>2, <2>7, BalanceStepIs
  <2>9. Balanced(k, v + a) /\ v + a \in Nat
    BY <2>3, <2>5, <2>6, <2>8 DEF Balanced
  <2> QED
    BY <2>2, <2>9
<1> HIDE DEF S
<1>4. \A k \in 1..n : k \in S
  <2>1. 1 \in Nat
    OBVIOUS
  <2> HIDE DEF n
  <2> QED
    BY <1>1, <1>2, <1>3, <2>1, ClimbFrom
<1>5. PICK v \in Nat : Balanced(n, v)
  BY <1>1, <1>4 DEF S
<1>6. I!SumOf(Volumes) = I!SumTo(Volumes, n)
  <2>1. Len(Volumes) = n
    BY <1>1 DEF Volumes
  <2> QED
    BY <2>1 DEF I!SumOf
<1>7. I!SumOf(Volumes)[1] = v /\ I!Abs(I!Obv(window)[n]) <= v
  BY <1>5, <1>6 DEF Balanced, I!Num
<1> QED
  BY <1>7 DEF Volumes

-----------------------------------------------------------------------------
LEMMA OscillatorsHold ==
  ASSUME Full
  PROVE  I!OscillatorsInRange
<1> DEFINE n == Len(window)
           p == params.period
           k == params.k
           d == params.d
           K == I!StochK(window, k)
           D == I!Latest(I!StochD(window, k, d))
<1>1. n \in Nat /\ k \in Nat \ {0} /\ k < n /\ d \in Nat \ {0}
  BY FullIs DEF Periods
<1>2. I!Latest(K) \in Q /\ I!Between(I!Latest(K), 0, 100)
  <2>1. n \in k..n
    BY <1>1
  <2>2. K[n] \in Q /\ I!Between(K[n], 0, 100)
    BY <1>1, <2>1, StochKIs
  <2>3. DOMAIN K = k..n
    BY DEF I!StochK
  <2> HIDE DEF K
  <2> QED
    BY <2>1, <2>2, <2>3 DEF I!Latest
<1>3. \A x \in {I!Latest(I!Rsi(I!Closes(window), p)), I!Latest(K), I!Latest(I!Mfi(window, p)),
                 I!AroonUp(window, p, n), I!AroonDown(window, p, n)} : x \in Q
                     /\ I!Between(x, 0, 100)
  BY <1>2, RsiHolds, MfiHolds, AroonHolds
<1>4. \A x \in {I!Latest(I!Rsi(I!Closes(window), p)), I!Latest(K), I!Latest(I!Mfi(window, p)),
                 I!AroonUp(window, p, n), I!AroonDown(window, p, n)} : x # I!None
                     /\ I!Between(x, 0, 100)
  BY <1>3, QIs
<1>5. I!InRange(D, k + d - 1)
  <2> DEFINE m == I!MeanOf([j \in 1 .. d |-> K[n - d + j]])
  <2>1. n < k + d - 1 => D = I!None
    BY StochDIs
  <2>2. n >= k + d - 1 => D = m /\ m \in Q /\ I!Between(m, 0, 100)
    BY StochDIs
  <2> HIDE DEF D, m
  <2>3. n >= k + d - 1 => D # I!None /\ I!Between(D, 0, 100)
    BY <2>2, QIs
  <2>4. n >= k + d - 1 \/ n < k + d - 1
    BY <1>1
  <2> QED
    BY <2>1, <2>3, <2>4 DEF I!InRange
<1> HIDE DEF D
<1> QED
  BY <1>4, <1>5, DirectionsHold, VwapHolds, AtrHolds, ObvHolds DEF I!OscillatorsInRange, D

LEMMA SoundWhenTyped ==
  ASSUME I!IndicatorsAssumption, I!TypeOK
  PROVE  I!IndicatorsSound
<1>1. CASE window = <<>>
  BY <1>1 DEF I!IndicatorsSound, I!AveragesAreOfTheirWindow, I!OscillatorsInRange
<1>2. CASE window # <<>>
  <2>1. Full
    BY <1>2 DEF Full
  <2> QED
    BY <2>1, AveragesHold, OscillatorsHold DEF I!IndicatorsSound
<1> QED
  BY <1>1, <1>2

(* The buffer is as long as its parameters say from the first candle on.   *)
LEMMA InitializedIs ==
  ASSUME I!IndicatorsAssumption, I!TypeOK, NEW c \in Candles
  PROVE  I!Initialized(c) \in Seq(Candles) /\ Len(I!Initialized(c)) = I!MaxPeriod(params)
<1> DEFINE all == Append(history, c)
           size == I!MaxPeriod(params)
<1>1. all \in Seq(Candles) /\ Len(all) \in Nat
  BY DEF I!TypeOK
<1>2. size \in Nat /\ params \in Definitions
  BY MaxPeriodIs DEF I!TypeOK
<1>3. I!Initialized(c) = IF Len(all) >= size THEN SubSeq(all, Len(all) - size + 1, Len(all))
                       ELSE [i \in 1..size |-> IF i <= Len(all) THEN all[i] ELSE c]
  BY DEF I!Initialized
<1> HIDE DEF all, size
<1>4. CASE Len(all) >= size
  <2> DEFINE s == SubSeq(all, Len(all) - size + 1, Len(all))
  <2>1. s \in Seq(Candles)
    BY <1>1, <1>2, <1>4
  <2>2. Len(s) = size
    BY <1>1, <1>2, <1>4
  <2> QED
    BY <1>3, <1>4, <2>1, <2>2 DEF size
<1>5. CASE ~(Len(all) >= size)
  <2> DEFINE s == [i \in 1..size |-> IF i <= Len(all) THEN all[i] ELSE c]
  <2>1. s \in [1..size -> Candles]
    BY <1>1, <1>2
  <2>2. s \in Seq(Candles) /\ Len(s) = size
    BY <1>2, <2>1
  <2> QED
    BY <1>3, <1>5, <2>2 DEF size
<1> QED
  BY <1>4, <1>5

LEMMA TypeStep ==
  ASSUME I!IndicatorsAssumption, I!TypeOK, [I!Next]_I!vars
  PROVE  I!TypeOK'
<1>1. I!MaxPeriod(params) \in Nat /\ I!MaxPeriod(params) # 0 /\ params \in Definitions
  <2>1. params \in Definitions
    BY DEF I!TypeOK
  <2>2. params.period \in Nat
    BY <2>1 DEF I!IndicatorsAssumption
  <2>3. I!MaxPeriod(params) \in Nat /\ I!MaxPeriod(params) > params.period
    BY <2>1, MaxPeriodIs
  <2> QED
    BY <2>1, <2>2, <2>3
<1>2. CASE UNCHANGED I!vars
  BY <1>2 DEF I!TypeOK, I!vars, I!MaxPeriod
<1>3. ASSUME Len(history) < MaxCandles, NEW c \in Candles, I!CalculateWithCandle(c)
               \/ I!StoredOnly(c)
      PROVE I!TypeOK'
  <2>1. params' = params /\ history' = Append(history, c)
    BY <1>3 DEF I!CalculateWithCandle, I!StoredOnly
  <2>2. I!MaxPeriod(params)' = I!MaxPeriod(params)
    BY <2>1 DEF I!MaxPeriod
  <2>3. history' \in Seq(Candles) /\ Len(history') <= MaxCandles
    BY <1>3, <2>1 DEF I!TypeOK, I!IndicatorsAssumption
  <2>4. CASE I!StoredOnly(c)
    BY <1>1, <2>1, <2>2, <2>3, <2>4 DEF I!StoredOnly, I!TypeOK
  <2>5. CASE I!CalculateWithCandle(c)
    <3> DEFINE b == IF window = <<>> THEN I!Initialized(c) ELSE window
    <3>1. b \in Seq(Candles) /\ Len(b) = I!MaxPeriod(params)
      BY <1>1, InitializedIs DEF I!TypeOK
    <3>2. window' = Append(Tail(b), c)
      BY <2>5 DEF I!CalculateWithCandle, I!AddCandle
    <3> HIDE DEF b
    <3>3. b # <<>>
      BY <1>1, <3>1
    <3>4. Tail(b) \in Seq(Candles) /\ Len(Tail(b)) = Len(b) - 1
      BY <3>1, <3>3
    <3>5. window' \in Seq(Candles) /\ Len(window') = Len(b)
      BY <3>1, <3>2, <3>4
    <3> QED
      BY <1>1, <2>1, <2>2, <2>3, <3>1, <3>5 DEF I!TypeOK
  <2> QED
    BY <1>3, <2>4, <2>5
<1> QED
  BY <1>2, <1>3 DEF I!Next

LEMMA TypeFirst ==
  ASSUME I!IndicatorsAssumption, I!Init
  PROVE  I!TypeOK
BY DEF I!Init, I!TypeOK, I!IndicatorsAssumption
-----------------------------------------------------------------------------
(* A row of the table holds trades of its second only; in the first run,   *)
(* and while none was late, all of them; and every trade the feed went     *)
(* past is in the table, on its way there or known as lost (service.py).   *)
THEOREM TradesAlwaysReachTheirRows == OperationsSpec => []TradesReachTheirRows
BY PartsBehave, PipeInvariant, RowsTell, PTL DEF TradesReachTheirRows

(* A trade the collector received is in its buffer, stored, or was left    *)
(* out on purpose; an event that was logged is in memory, in the table or  *)
(* among those whose loss is known (collect_volatile.py:173,               *)
(* audit_logger.py).                                                       *)
THEOREM RecordsAlwaysKept == OperationsSpec => []RecordsAreKept
<1>1. AuditInv => A!EventsAreKept
  BY DEF AuditInv
<1> QED
  BY <1>1, PartsBehave, CollectInvariant, AuditInvariant, PTL DEF RecordsAreKept

(* A request that is answered with success met its row, or somebody        *)
(* deleted it after it was found; what a client is told of its backtest is *)
(* what became of it (routes/symbols.py:121).                              *)
THEOREM AnswersAlwaysTrue == OperationsSpec => []AnswersAreTrue
BY PartsBehave, RegistryInvariant, AnswersHold, JobsInvariant, PTL DEF AnswersAreTrue

(* A synchronisation that counted no error leaves every row nobody else    *)
(* wrote meanwhile as the exchange lists it, and switched off what it did  *)
(* not see (asset_sync_service.py:131).                                    *)
THEOREM SyncAlwaysTakesEffect == OperationsSpec => []SyncTakesEffect
BY PartsBehave, RegistryInvariant, SyncHolds, PTL DEF SyncTakesEffect

(* Whatever the candles and the parameters, what is stored of a moving     *)
(* average, of the signal line, of %D and of Bollinger's middle is the     *)
(* mean of just the values of its window, and missing if the buffer is too *)
(* short for it; an oscillator stays between 0 and 100, an average of      *)
(* prices between the prices, OBV within the volume (trend.py,             *)
(* momentum.py, volatility_volume.py).                                     *)
THEOREM IndicatorsAlwaysSound == OperationsSpec => []IndicatorsSound
<1>1. I!Init => I!TypeOK
  BY TradingAssumption, TypeFirst
<1>2. I!TypeOK /\ [I!Next]_I!vars => I!TypeOK'
  BY TradingAssumption, TypeStep
<1>3. I!TypeOK => IndicatorsSound
  BY TradingAssumption, SoundWhenTyped DEF IndicatorsSound
<1> QED
  BY <1>1, <1>2, <1>3, PartsBehave, PTL DEF I!IndicatorsSpec
=============================================================================
