------------------------ MODULE StrategyRunnerProofs ------------------------
(***************************************************************************)
(* Proofs about StrategyRunner and the runners beside it.  What the runner *)
(* remembers of signals stays ordered up to the time a thread may take,    *)
(* what the exchange has and what the table says of a signal stay together *)
(* through retries, lost answers, failed writes and a cancelled ticker,    *)
(* and a strategy without a row is run only until the next reload, or      *)
(* through a first tick that waits for the preload.  On the message bus    *)
(* (T) the ticks of the current connection are worked on once, in their    *)
(* order, and the average prices (S) are fresh, of the last week, and of   *)
(* each price once.                                                        *)
(***************************************************************************)
EXTENDS MCStrategyRunner, FiniteSetTheorems, TLAPS

(* Strategies whose rows are gone are dropped by the reload that read them.*)
LoadedHaveRows == pc # "reload" => loaded \subseteq db

(* The reload was not due, or was put off by a failure, when the tick began,*)
(* or the tick waited for the preload.                                     *)
TickWasAllowed ==
  pc = "run" /\ ~waited =>
    began <= lastReload + ReloadInterval \/ began < lastFailed + Debounce

(* Only the first tick waits for the preload, and no thread is waited for  *)
(* outside of "run".                                                       *)
FirstWaits ==
  /\ ~pricesPreloaded => pc \in {"down", "idle", "reload", "preload"} /\ signals = <<>>
  /\ pc = "preload" => ~pricesPreloaded
  /\ pc = "run" /\ waited => signals = <<>>
  /\ pc # "run" => running = {}

(* Times of signals: those of one tick lie within Timeout, and no signal   *)
(* made earlier was remembered later than that.                            *)
TimesOfResults ==
  /\ \A r \in results : r.at <= clock
  /\ \A r, q \in results : r.at <= q.at + Timeout
  /\ pc = "run" => clock <= began + Timeout /\ \A r \in results : began <= r.at

TimesOfSignals ==
  /\ \A i \in 1 .. Len(signals) : signals[i].at <= clock
  /\ \A i, j \in 1 .. Len(signals) : i <= j => signals[i].at <= signals[j].at + Timeout
  /\ \A i \in 1 .. Len(signals) : \A r \in results : signals[i].at <= r.at + Timeout
  /\ pc = "run" => \A i \in 1 .. Len(signals) : signals[i].at <= began

Protected == \E o \in orders : o.kind = "protect"

(* The attempts made at the order under way: none of them was answered.    *)
Attempted(kind) ==
  \A o \in orders : o.kind = kind => ~o.answered /\ o.attempt < tries

(* How far the signal being routed has come, at each await of the ticker.  *)
Routing ==
  /\ pc \in {"order", "record", "protect"} => signals # <<>>
  /\ pc # "down" => \A o \in orders : signals # <<>> /\ o.of = Last.side
  /\ pc = "order" => row = NoRow /\ ~Protected /\ Attempted("order")
  /\ pc = "record" =>
       /\ outcome # NoRow /\ row # NoSignal /\ ~Protected
       /\ outcome = "EXECUTED" => row = NoRow /\ Answered
       /\ outcome # "EXECUTED" /\ Answered => unrecorded \/ row = "EXECUTED"
  /\ pc = "protect" =>
       Last.side = "BUY" /\ Answered /\ row \in {NoRow, "EXECUTED"} /\ Attempted("protect")

IInv ==
  /\ TypeOK /\ LoadedHaveRows /\ TickWasAllowed /\ FirstWaits
  /\ TimesOfResults /\ TimesOfSignals /\ RepeatsCaught
  /\ Routing /\ OrdersAndRowsAgree

SignalRecord ==
  [by : Strategies, side : {"BUY", "SELL"}, price : Prices, at : Nat, routed : Nat]
OrderRecord == [kind : {"order", "protect"}, of : {"BUY", "SELL"},
                attempt : 0 .. MaxRetries, answered : BOOLEAN]

LEMMA OrderOfSignal ==
  ASSUME TypeOK, signals # <<>>, NEW k \in {"order", "protect"}, NEW yes \in BOOLEAN
  PROVE  /\ Last \in SignalRecord /\ Order(k, yes) \in OrderRecord
         /\ Order(k, yes).kind = k /\ Order(k, yes).of = Last.side
         /\ Order(k, yes).attempt = tries /\ Order(k, yes).answered = yes
<1>1. signals \in Seq(SignalRecord) /\ Len(signals) \in 1 .. Len(signals)
  BY DEF TypeOK, SignalRecord
<1>2. Last \in SignalRecord
  BY <1>1 DEF Last
<1>3. Last.side \in {"BUY", "SELL"} /\ tries \in 0 .. MaxRetries
  BY <1>2 DEF SignalRecord, TypeOK
<1>. QED
  BY <1>2, <1>3 DEF Order, OrderRecord

LEMMA AppendedSignal ==
  ASSUME NEW sigs \in Seq(SignalRecord), NEW x \in SignalRecord
  PROVE  LET longer == Append(sigs, x)
         IN  /\ longer \in Seq(SignalRecord) /\ longer # <<>>
             /\ Len(longer) = Len(sigs) + 1 /\ longer[Len(sigs) + 1] = x
             /\ \A i \in 1 .. Len(sigs) : longer[i] = sigs[i]
             /\ \A i \in 1 .. Len(longer) : i \in 1 .. Len(sigs) \/ i = Len(sigs) + 1
OBVIOUS

(* Routing remembers one result, with the time it is routed at.            *)
LEMMA RouteEffect ==
  ASSUME TypeOK, Route
  PROVE  \E r \in results :
           LET x == [by |-> r.by, side |-> r.side, price |-> r.price, at |-> r.at, routed |-> clock]
           IN  /\ ~IsDuplicate(r) /\ results' = results \ {r}
               /\ x \in SignalRecord /\ signals' = Append(signals, x)
               /\ x.by = r.by /\ x.side = r.side /\ x.price = r.price
               /\ x.at = r.at /\ x.routed = clock
               /\ r \in SignalType
<1>1. PICK r \in results :
        /\ ~IsDuplicate(r) /\ results' = results \ {r}
        /\ signals' = Append(signals, [by |-> r.by, side |-> r.side, price |-> r.price,
                                       at |-> r.at, routed |-> clock])
  BY DEF Route
<1>2. r \in SignalType /\ clock \in Nat
  BY RunnerAssumption DEF TypeOK
<1>3. [by |-> r.by, side |-> r.side, price |-> r.price, at |-> r.at, routed |-> clock] \in SignalRecord
  BY <1>2 DEF SignalType, SignalRecord
<1>. QED
  BY <1>1, <1>2, <1>3

(* A signal out of the window, and one before it by Timeout at most.       *)
LEMMA OutOfWindow ==
  ASSUME NEW early \in Nat, NEW old \in Nat, NEW now \in Nat,
         early <= old + Timeout, ~(old >= now - Window)
  PROVE  now > early + Window - Timeout
<1>1. Window \in Nat /\ Timeout \in Nat
  BY RunnerAssumption
<1>. QED
  BY <1>1

(* What an attempt at an order leaves behind, at either of its two awaits: *)
(* the new order o, if there is one, is of this attempt.                   *)
AttemptMade(o) ==
  /\ o \in OrderRecord /\ o.kind = pc /\ o.of = Last.side /\ o.attempt = tries
  /\ orders' = orders \union {o}
  /\ o.answered => pc' # pc

NoneMade == orders' = orders

Moved ==
  \/ pc' = pc /\ outcome' = outcome /\ tries' = tries + 1
  \/ pc = "order" /\ pc' = "record" /\ outcome' \in {"EXECUTED", "FAILED"}
  \/ pc = "protect" /\ pc' = "collect" /\ outcome' = NoRow

LEMMA AttemptEffect ==
  ASSUME TypeOK, Routing, OrderTaken \/ OrderRefused \/ OrderErrs
  PROVE  /\ pc \in {"order", "protect"} /\ signals # <<>>
         /\ NoneMade \/ \E o \in OrderRecord : AttemptMade(o)
         /\ tries' \in 0 .. MaxRetries /\ Moved
         /\ pc' = "record" =>
              IF outcome' = "EXECUTED" THEN \E o \in OrderRecord : AttemptMade(o) /\ o.answered
              ELSE NoneMade \/ \E o \in OrderRecord : AttemptMade(o) /\ ~o.answered
         /\ UNCHANGED <<clock, loaded, lastReload, lastFailed, db, pricesPreloaded, waited, began,
                        running, results, signals, row, unrecorded>>
<1>1. pc \in {"order", "protect"} /\ signals # <<>>
  BY DEF OrderTaken, OrderRefused, OrderErrs, Placing, Routing
<1>2. \A yes \in BOOLEAN :
        /\ Order(pc, yes) \in OrderRecord /\ Order(pc, yes).kind = pc
        /\ Order(pc, yes).of = Last.side
        /\ Order(pc, yes).attempt = tries /\ Order(pc, yes).answered = yes
  BY <1>1, OrderOfSignal
<1>3. tries \in 0 .. MaxRetries /\ MaxRetries \in Nat
  BY RunnerAssumption DEF TypeOK
<1>4. CASE OrderTaken
  <2>1. Takes(Order(pc, TRUE)) /\ AfterOrder(TRUE) /\ tries' = 0
    BY <1>4 DEF OrderTaken
  <2>2. /\ \/ pc = "order" /\ pc' = "record" /\ outcome' = "EXECUTED"
           \/ pc = "protect" /\ pc' = "collect" /\ outcome' = NoRow
        /\ 0 \in 0 .. MaxRetries
    BY <1>1, <1>3, <2>1 DEF AfterOrder
  <2>3. AttemptMade(Order(pc, TRUE)) /\ Order(pc, TRUE) \in OrderRecord
        /\ Order(pc, TRUE).answered
    BY <1>2, <2>1, <2>2 DEF AttemptMade, Takes
  <2>. QED
    BY <1>1, <1>4, <2>1, <2>2, <2>3 DEF OrderTaken, Moved, reload, tick, history
<1>5. CASE OrderRefused
  <2>0. NoneMade
    BY <1>5 DEF OrderRefused, NoneMade, reload, tick, history
  <2>1. AfterOrder(FALSE) /\ tries' = 0
    BY <1>5, Zenon DEF OrderRefused
  <2>3. 0 \in 0 .. MaxRetries
    BY <1>3
  <2>2. \/ pc = "order" /\ pc' = "record" /\ outcome' = "FAILED"
        \/ pc = "protect" /\ pc' = "collect" /\ outcome' = NoRow
    BY <1>1, <2>1 DEF AfterOrder
  <2>. QED
    BY <1>1, <1>5, <2>0, <2>1, <2>2, <2>3 DEF OrderRefused, Moved, reload, tick, history
<1>6. CASE OrderErrs
  <2>1. \/ tries < MaxRetries /\ tries' = tries + 1 /\ pc' = pc /\ outcome' = outcome
        \/ tries' = 0 /\ AfterOrder(FALSE)
    BY <1>6 DEF OrderErrs, TryAgain
  <2>2. tries' \in 0 .. MaxRetries
    <3>1. (tries < MaxRetries /\ tries' = tries + 1) \/ tries' = 0
      BY <2>1
    <3>. QED
      BY <1>3, <3>1
  <2>3. \/ pc' = pc /\ outcome' = outcome /\ tries' = tries + 1
        \/ pc = "order" /\ pc' = "record" /\ outcome' = "FAILED"
        \/ pc = "protect" /\ pc' = "collect" /\ outcome' = NoRow
    BY <1>1, <2>1 DEF AfterOrder
  <2>4. NoneMade \/ (AttemptMade(Order(pc, FALSE)) /\ Order(pc, FALSE) \in OrderRecord
                      /\ ~Order(pc, FALSE).answered)
    BY <1>2, <1>6 DEF OrderErrs, Takes, NoneMade, AttemptMade
  <2>. QED
    BY <1>1, <1>6, <2>2, <2>3, <2>4 DEF OrderErrs, Moved, reload, tick, history
<1>. QED
  BY <1>4, <1>5, <1>6

(* The threads that are started, or the wait for the preload.              *)
LEMMA ReloadTypes ==
  ASSUME TypeOK, NEW these \in SUBSET Strategies, running = {},
         AfterReload(these) \/ (StartThreads(these) /\ waited' = TRUE), clock' = clock, loaded' = these
  PROVE  /\ pc' \in {"idle", "preload", "run"} /\ began' \in 0 .. clock' /\ running' \subseteq loaded'
         /\ results' \subseteq SignalType /\ {pricesPreloaded', waited'} \subseteq BOOLEAN
<1>1. clock \in Nat /\ 0 \in 0 .. clock /\ clock \in 0 .. clock
  BY RunnerAssumption DEF TypeOK
<1>2. CASE StartThreads(these) /\ waited' \in BOOLEAN
  BY <1>1, <1>2 DEF StartThreads
<1>3. CASE pc' = "preload" /\ UNCHANGED <<tick, pricesPreloaded, waited>>
  BY <1>1, <1>3 DEF TypeOK, tick
<1>. QED
  BY <1>2, <1>3 DEF AfterReload

LEMMA TypeStep ==
  ASSUME TypeOK, Routing, FirstWaits, [Next]_vars
  PROVE  TypeOK'
<1> USE RunnerAssumption
<1> USE DEF TypeOK, Routing, vars, reload, tick, routing, history
<1>1. CASE Second
  <2>1. clock' \in 0 .. MaxClock /\ 0 .. clock \subseteq 0 .. clock'
    BY <1>1 DEF Second
  <2>. QED
    BY <1>1, <2>1 DEF Second
<1>2. ASSUME NEW s \in Strategies, ThreadEnds(s) PROVE TypeOK'
  <2>1. running' \subseteq loaded
    BY <1>2 DEF ThreadEnds
  <2>2. results' \subseteq SignalType
    <3>1. CASE results' = results
      BY <3>1
    <3>2. CASE results' # results
      <4>1. PICK way \in {"BUY", "SELL"}, p \in Prices :
              results' = results \union {[by |-> s, side |-> way, price |-> p, at |-> clock]}
        BY <1>2, <3>2 DEF ThreadEnds
      <4>2. clock \in Nat
        OBVIOUS
      <4>3. [by |-> s, side |-> way, price |-> p, at |-> clock] \in SignalType
        BY <4>2 DEF SignalType
      <4>. QED
        BY <4>1, <4>3
    <3>. QED
      BY <3>1, <3>2
  <2>3. began' \in 0 .. clock /\ pc' \in {"run", "collect"}
    BY <1>2 DEF ThreadEnds
  <2>. QED
    BY <1>2, <2>1, <2>2, <2>3 DEF ThreadEnds
<1>3. CASE ReadRows
  BY <1>3 DEF ReadRows
<1>4. CASE ReadFails
  <2>1. AfterReload(loaded) /\ running = {} /\ UNCHANGED <<clock, loaded, lastReload, db, routing, history>>
        /\ lastFailed' = clock
    BY <1>4 DEF ReadFails, FirstWaits
  <2>2. /\ pc' \in {"idle", "preload", "run"} /\ began' \in 0 .. clock' /\ running' \subseteq loaded'
        /\ results' \subseteq SignalType /\ {pricesPreloaded', waited'} \subseteq BOOLEAN
    BY <2>1, ReloadTypes
  <2>. QED
    BY <2>1, <2>2
<1>5. CASE ApplyReload
  <2>1. AfterReload(loaded') /\ running = {} /\ UNCHANGED <<clock, lastFailed, db, routing, history>>
        /\ lastReload' = clock /\ loaded' \subseteq Strategies
    BY <1>5 DEF ApplyReload, FirstWaits
  <2>2. /\ pc' \in {"idle", "preload", "run"} /\ began' \in 0 .. clock' /\ running' \subseteq loaded'
        /\ results' \subseteq SignalType /\ {pricesPreloaded', waited'} \subseteq BOOLEAN
    <3>1. PICK these \in SUBSET Strategies : these = loaded'
      BY <2>1
    <3>. QED
      BY <2>1, <3>1, ReloadTypes
  <2>. QED
    BY <2>1, <2>2
<1>6. CASE RunWithoutReload
  <2>1. AfterReload(loaded) /\ running = {}
        /\ UNCHANGED <<clock, loaded, lastReload, lastFailed, db, routing, history>>
    BY <1>6 DEF RunWithoutReload, FirstWaits
  <2>2. /\ pc' \in {"idle", "preload", "run"} /\ began' \in 0 .. clock' /\ running' \subseteq loaded'
        /\ results' \subseteq SignalType /\ {pricesPreloaded', waited'} \subseteq BOOLEAN
    BY <2>1, ReloadTypes
  <2>. QED
    BY <2>1, <2>2
<1>7. CASE DropDuplicate
  BY <1>7 DEF DropDuplicate
<1>8. CASE Route
  <2>1. signals \in Seq(SignalRecord)
    BY DEF SignalRecord
  <2>2. signals' \in Seq(SignalRecord) /\ results' \subseteq results
    <3>1. PICK r \in results, x \in SignalRecord :
            results' = results \ {r} /\ signals' = Append(signals, x)
      BY <1>8, RouteEffect
    <3>. QED
      BY <2>1, <3>1, AppendedSignal
  <2>3. pc' \in {"order", "record"} /\ outcome' \in Statuses \union {NoRow}
    BY <1>8 DEF Route, Statuses
  <2>4. /\ row' = NoRow /\ orders' = {} /\ tries' \in 0 .. MaxRetries
        /\ unrecorded' = FALSE
    <3>1. tries' = 0 /\ 0 \in 0 .. MaxRetries
      BY <1>8 DEF Route
    <3>. QED
      BY <1>8, <3>1 DEF Route
  <2>5. UNCHANGED <<clock, loaded, lastReload, lastFailed, db, began, running>>
    BY <1>8 DEF Route
  <2>6. results' \subseteq SignalType
    BY <2>2
  <2>7. {pricesPreloaded', waited'} \subseteq BOOLEAN
    BY <1>8 DEF Route
  <2>. QED
    BY <2>2, <2>3, <2>4, <2>5, <2>6, <2>7 DEF SignalRecord
<1>9. CASE EndTick
  BY <1>9 DEF EndTick, NothingUnderWay
<1>10. CASE OrderTaken
  <2>1. orders' \subseteq OrderRecord
    <3>1. orders' = orders \/ \E o \in OrderRecord : orders' = orders \union {o}
      BY <1>10, AttemptEffect DEF NoneMade, AttemptMade
    <3>2. orders \subseteq OrderRecord
      BY DEF OrderRecord
    <3>. QED
      BY <3>1, <3>2
  <2>2. pc' \in {"order", "protect", "record", "collect"} /\ outcome' \in Statuses \union {NoRow}
    BY <1>10, AttemptEffect DEF Statuses, Moved
  <2>. QED
    BY <1>10, <2>1, <2>2, AttemptEffect DEF OrderRecord
<1>11. CASE OrderRefused
  <2>1. orders' \subseteq OrderRecord
    <3>1. orders' = orders \/ \E o \in OrderRecord : orders' = orders \union {o}
      BY <1>11, AttemptEffect DEF NoneMade, AttemptMade
    <3>2. orders \subseteq OrderRecord
      BY DEF OrderRecord
    <3>. QED
      BY <3>1, <3>2
  <2>2. pc' \in {"order", "protect", "record", "collect"} /\ outcome' \in Statuses \union {NoRow}
    BY <1>11, AttemptEffect DEF Statuses, Moved
  <2>. QED
    BY <1>11, <2>1, <2>2, AttemptEffect DEF OrderRecord
<1>12. CASE OrderErrs
  <2>1. orders' \subseteq OrderRecord
    <3>1. orders' = orders \/ \E o \in OrderRecord : orders' = orders \union {o}
      BY <1>12, AttemptEffect DEF NoneMade, AttemptMade
    <3>2. orders \subseteq OrderRecord
      BY DEF OrderRecord
    <3>. QED
      BY <3>1, <3>2
  <2>2. pc' \in {"order", "protect", "record", "collect"} /\ outcome' \in Statuses \union {NoRow}
    BY <1>12, AttemptEffect DEF Statuses, Moved
  <2>. QED
    BY <1>12, <2>1, <2>2, AttemptEffect DEF OrderRecord
<1>13. CASE Record
  <2>1. row' \in Statuses \union {NoRow, NoSignal}
    BY <1>13 DEF Record, Insert
  <2>2. pc' \in {"collect", "protect", "record"} /\ outcome' \in Statuses \union {NoRow}
    BY <1>13 DEF Record, AfterRecord, Statuses
  <2>. QED
    BY <1>13, <2>1, <2>2 DEF Record
<1>14. CASE RecordFails
  <2>1. row' \in Statuses \union {NoRow, NoSignal}
    BY <1>14 DEF RecordFails, Insert
  <2>2. pc' \in {"collect", "protect", "record"} /\ outcome' \in Statuses \union {NoRow}
    BY <1>14 DEF RecordFails, AfterRecord, Statuses
  <2>. QED
    BY <1>14, <2>1, <2>2 DEF RecordFails
<1>15. CASE Start
  BY <1>15 DEF Start, NothingUnderWay
<1>16. CASE Cancel
  <2>1. orders' \subseteq OrderRecord
    <3>1. \/ orders' = orders
          \/ pc \in {"order", "protect"} /\ orders' = orders \union {Order(pc, FALSE)}
      BY <1>16 DEF Cancel, Takes, Placing
    <3>2. pc \in {"order", "protect"} => Order(pc, FALSE) \in OrderRecord
      BY OrderOfSignal
    <3>. QED
      BY <3>1, <3>2 DEF OrderRecord
  <2>2. row' \in Statuses \union {NoRow, NoSignal} /\ unrecorded' \in BOOLEAN
    BY <1>16 DEF Cancel, Insert
  <2>3. signals' \in Seq(SignalRecord)
    BY <1>16 DEF Cancel
  <2>4. began' \in 0 .. clock /\ tries' \in 0 .. MaxRetries
    BY <1>16 DEF Cancel
  <2>. QED
    BY <1>16, <2>1, <2>2, <2>3, <2>4 DEF Cancel, OrderRecord, SignalRecord
<1>17. CASE UNCHANGED vars
  BY <1>17
<1>18. CASE Preload
  BY <1>18 DEF Preload, StartThreads
<1>. QED
  BY <1>1, <1>2, <1>3, <1>4, <1>5, <1>6, <1>7, <1>8, <1>9, <1>10, <1>11, <1>12, <1>13, <1>14, <1>15, <1>16, <1>17, <1>18 DEF Next, Reload, Collect, Place

LEMMA LoadedStep ==
  ASSUME IInv, [Next]_vars
  PROVE  LoadedHaveRows'
<1> USE RunnerAssumption
<1> USE DEF IInv, TypeOK, LoadedHaveRows, vars, reload, tick, routing, history
<1>1. CASE Second
  BY <1>1 DEF Second
<1>2. ASSUME NEW s \in Strategies, ThreadEnds(s) PROVE LoadedHaveRows'
  BY <1>2 DEF ThreadEnds
<1>3. CASE ReadRows
  BY <1>3 DEF ReadRows
<1>4. CASE ReadFails
  BY <1>4 DEF ReadFails, AfterReload, StartThreads
<1>5. CASE ApplyReload
  BY <1>5 DEF ApplyReload, AfterReload, StartThreads
<1>6. CASE RunWithoutReload
  BY <1>6 DEF RunWithoutReload, AfterReload, StartThreads
<1>7. CASE DropDuplicate
  BY <1>7 DEF DropDuplicate
<1>8. CASE Route
  BY <1>8 DEF Route
<1>9. CASE EndTick
  BY <1>9 DEF EndTick, NothingUnderWay
<1>10. CASE OrderTaken
  BY <1>10 DEF OrderTaken, Placing, Takes, Order, AfterOrder
<1>11. CASE OrderRefused
  BY <1>11 DEF OrderRefused, Placing, Order, AfterOrder
<1>12. CASE OrderErrs
  BY <1>12 DEF OrderErrs, Placing, Takes, Order, AfterOrder, TryAgain
<1>13. CASE Record
  BY <1>13 DEF Record, AfterRecord, Insert
<1>14. CASE RecordFails
  BY <1>14 DEF RecordFails, AfterRecord, Insert
<1>15. CASE Start
  BY <1>15 DEF Start, NothingUnderWay
<1>16. CASE Cancel
  BY <1>16 DEF Cancel, Placing, Takes, Order, Insert
<1>17. CASE UNCHANGED vars
  BY <1>17
<1>18. CASE Preload
  BY <1>18 DEF Preload, StartThreads
<1>. QED
  BY <1>1, <1>2, <1>3, <1>4, <1>5, <1>6, <1>7, <1>8, <1>9, <1>10, <1>11, <1>12, <1>13, <1>14, <1>15, <1>16, <1>17, <1>18 DEF Next, Reload, Collect, Place

LEMMA AllowedStep ==
  ASSUME IInv, [Next]_vars
  PROVE  TickWasAllowed'
<1> USE RunnerAssumption
<1> USE DEF IInv, TypeOK, TickWasAllowed, ReloadDue, Debounced, vars, reload, tick, routing, history
<1>1. CASE Second
  BY <1>1 DEF Second
<1>2. ASSUME NEW s \in Strategies, ThreadEnds(s) PROVE TickWasAllowed'
  BY <1>2 DEF ThreadEnds
<1>3. CASE ReadRows
  BY <1>3 DEF ReadRows
<1>4. CASE ReadFails
  BY <1>4 DEF ReadFails, AfterReload, StartThreads
<1>5. CASE ApplyReload
  BY <1>5 DEF ApplyReload, AfterReload, StartThreads
<1>6. CASE RunWithoutReload
  <2>1. lastReload \in Int /\ lastFailed \in Int /\ clock \in Nat
    BY SMTT(30) DEF LongAgo
  <2>. QED
    BY <1>6, <2>1 DEF RunWithoutReload, AfterReload, StartThreads
<1>7. CASE DropDuplicate
  BY <1>7 DEF DropDuplicate
<1>8. CASE Route
  BY <1>8 DEF Route
<1>9. CASE EndTick
  BY <1>9 DEF EndTick, NothingUnderWay
<1>10. CASE OrderTaken
  BY <1>10 DEF OrderTaken, Placing, Takes, Order, AfterOrder
<1>11. CASE OrderRefused
  BY <1>11 DEF OrderRefused, Placing, Order, AfterOrder
<1>12. CASE OrderErrs
  BY <1>12 DEF OrderErrs, Placing, Takes, Order, AfterOrder, TryAgain
<1>13. CASE Record
  BY <1>13 DEF Record, AfterRecord, Insert
<1>14. CASE RecordFails
  BY <1>14 DEF RecordFails, AfterRecord, Insert
<1>15. CASE Start
  BY <1>15 DEF Start, NothingUnderWay
<1>16. CASE Cancel
  BY <1>16 DEF Cancel, Placing, Takes, Order, Insert
<1>17. CASE UNCHANGED vars
  BY <1>17
<1>18. CASE Preload
  BY <1>18 DEF Preload, StartThreads
<1>. QED
  BY <1>1, <1>2, <1>3, <1>4, <1>5, <1>6, <1>7, <1>8, <1>9, <1>10, <1>11, <1>12, <1>13, <1>14, <1>15, <1>16, <1>17, <1>18 DEF Next, Reload, Collect, Place

LEMMA FirstStep ==
  ASSUME IInv, [Next]_vars
  PROVE  FirstWaits'
<1> USE RunnerAssumption
<1> USE DEF IInv, TypeOK, FirstWaits, vars, reload, tick, routing, history
<1>1. CASE Second
  BY <1>1 DEF Second
<1>2. ASSUME NEW s \in Strategies, ThreadEnds(s) PROVE FirstWaits'
  BY <1>2 DEF ThreadEnds
<1>3. CASE ReadRows
  BY <1>3 DEF ReadRows
<1>4. CASE ReadFails
  BY <1>4 DEF ReadFails, AfterReload, StartThreads
<1>5. CASE ApplyReload
  BY <1>5 DEF ApplyReload, AfterReload, StartThreads
<1>6. CASE RunWithoutReload
  BY <1>6 DEF RunWithoutReload, AfterReload, StartThreads
<1>7. CASE DropDuplicate
  BY <1>7 DEF DropDuplicate
<1>8. CASE Route
  BY <1>8 DEF Route
<1>9. CASE EndTick
  BY <1>9 DEF EndTick, NothingUnderWay
<1>10. CASE OrderTaken
  BY <1>10 DEF OrderTaken, Placing, Takes, Order, AfterOrder
<1>11. CASE OrderRefused
  BY <1>11 DEF OrderRefused, Placing, Order, AfterOrder
<1>12. CASE OrderErrs
  BY <1>12 DEF OrderErrs, Placing, Takes, Order, AfterOrder, TryAgain
<1>13. CASE Record
  BY <1>13 DEF Record, AfterRecord, Insert
<1>14. CASE RecordFails
  BY <1>14 DEF RecordFails, AfterRecord, Insert
<1>15. CASE Start
  BY <1>15 DEF Start, NothingUnderWay
<1>16. CASE Cancel
  BY <1>16 DEF Cancel, Placing, Takes, Order, Insert
<1>17. CASE UNCHANGED vars
  BY <1>17
<1>18. CASE Preload
  BY <1>18 DEF Preload, StartThreads
<1>. QED
  BY <1>1, <1>2, <1>3, <1>4, <1>5, <1>6, <1>7, <1>8, <1>9, <1>10, <1>11, <1>12, <1>13, <1>14, <1>15, <1>16, <1>17, <1>18 DEF Next, Reload, Collect, Place

LEMMA ResultsStep ==
  ASSUME IInv, [Next]_vars
  PROVE  TimesOfResults'
<1> USE RunnerAssumption
<1> USE DEF IInv, TypeOK, SignalType, TimesOfResults, vars, reload, tick, routing, history
<1>1. CASE Second
  BY <1>1 DEF Second
<1>2. ASSUME NEW s \in Strategies, ThreadEnds(s) PROVE TimesOfResults'
  BY SMTT(30), <1>2 DEF ThreadEnds
<1>3. CASE ReadRows
  BY <1>3 DEF ReadRows
<1>4. CASE ReadFails
  BY <1>4 DEF ReadFails, AfterReload, StartThreads
<1>5. CASE ApplyReload
  BY <1>5 DEF ApplyReload, AfterReload, StartThreads
<1>6. CASE RunWithoutReload
  BY <1>6 DEF RunWithoutReload, AfterReload, StartThreads
<1>7. CASE DropDuplicate
  BY <1>7 DEF DropDuplicate
<1>8. CASE Route
  BY <1>8 DEF Route
<1>9. CASE EndTick
  BY <1>9 DEF EndTick, NothingUnderWay
<1>10. CASE OrderTaken
  BY <1>10 DEF OrderTaken, Placing, Takes, Order, AfterOrder
<1>11. CASE OrderRefused
  BY <1>11 DEF OrderRefused, Placing, Order, AfterOrder
<1>12. CASE OrderErrs
  BY <1>12 DEF OrderErrs, Placing, Takes, Order, AfterOrder, TryAgain
<1>13. CASE Record
  BY <1>13 DEF Record, AfterRecord, Insert
<1>14. CASE RecordFails
  BY <1>14 DEF RecordFails, AfterRecord, Insert
<1>15. CASE Start
  BY <1>15 DEF Start, NothingUnderWay
<1>16. CASE Cancel
  BY <1>16 DEF Cancel, Placing, Takes, Order, Insert
<1>17. CASE UNCHANGED vars
  BY <1>17
<1>18. CASE Preload
  BY <1>18 DEF Preload, StartThreads
<1>. QED
  BY <1>1, <1>2, <1>3, <1>4, <1>5, <1>6, <1>7, <1>8, <1>9, <1>10, <1>11, <1>12, <1>13, <1>14, <1>15, <1>16, <1>17, <1>18 DEF Next, Reload, Collect, Place

LEMMA SignalsStep ==
  ASSUME IInv, [Next]_vars
  PROVE  TimesOfSignals'
<1> USE RunnerAssumption
<1>0. \A i \in 1 .. Len(signals) : signals[i].at \in Nat
  <2>1. signals \in Seq(SignalRecord)
    BY DEF IInv, TypeOK, SignalRecord
  <2>2. \A i \in 1 .. Len(signals) : signals[i] \in SignalRecord
    BY <2>1
  <2>. QED
    BY <2>2 DEF SignalRecord
<1> USE DEF IInv, TypeOK, SignalType, TimesOfResults, TimesOfSignals, vars, reload, tick, routing, history
<1>1. CASE Second
  <2>1. \A i \in 1 .. Len(signals) : signals[i].at <= clock + 1
    <3> SUFFICES ASSUME NEW i \in 1 .. Len(signals) PROVE signals[i].at <= clock + 1
      OBVIOUS
    <3>1. signals[i].at \in Nat /\ signals[i].at <= clock /\ clock \in Nat
      BY SMTT(30), <1>0
    <3>. HIDE DEF IInv, TypeOK, TimesOfResults, TimesOfSignals
    <3>. QED
      BY <3>1
  <2>. QED
    BY <1>1, <2>1 DEF Second
<1>2. ASSUME NEW s \in Strategies, ThreadEnds(s) PROVE TimesOfSignals'
  <2>1. signals' = signals /\ clock' = clock /\ (pc' = "run" => began' = began) /\ pc = "run"
    BY <1>2 DEF ThreadEnds
  <2>2. \A i \in 1 .. Len(signals) : \A r \in results' : signals[i].at <= r.at + Timeout
    <3> SUFFICES ASSUME NEW i \in 1 .. Len(signals), NEW r \in results', r \notin results
                 PROVE  signals[i].at <= r.at + Timeout
      OBVIOUS
    <3>1. r.at = clock
      BY SMTT(30), <1>2 DEF ThreadEnds
    <3>2. signals[i].at \in Nat /\ signals[i].at <= clock /\ clock \in Nat
      BY SMTT(30), <1>0
    <3>. HIDE DEF IInv, TypeOK, TimesOfResults, TimesOfSignals
    <3>. QED
      BY <3>1, <3>2, RunnerAssumption
  <2>. QED
    BY <2>1, <2>2
<1>3. CASE ReadRows
  BY <1>3 DEF ReadRows
<1>4. CASE ReadFails
  BY <1>4 DEF ReadFails, AfterReload, StartThreads
<1>5. CASE ApplyReload
  BY <1>5 DEF ApplyReload, AfterReload, StartThreads
<1>6. CASE RunWithoutReload
  BY <1>6 DEF RunWithoutReload, AfterReload, StartThreads
<1>7. CASE DropDuplicate
  BY <1>7 DEF DropDuplicate
<1>8. CASE Route
  <2>0. signals \in Seq(SignalRecord)
    BY DEF SignalRecord
  <2>1. PICK r \in results, x \in SignalRecord :
          /\ results' = results \ {r} /\ signals' = Append(signals, x)
          /\ x.at = r.at /\ r \in SignalType
    BY <1>8, RouteEffect
  <2>2. /\ Len(signals') = Len(signals) + 1 /\ signals'[Len(signals) + 1] = x
        /\ \A i \in 1 .. Len(signals) : signals'[i] = signals[i]
        /\ \A i \in 1 .. Len(signals') : i \in 1 .. Len(signals) \/ i = Len(signals) + 1
    BY <2>0, <2>1, AppendedSignal
  <2>3. clock' = clock /\ pc' # "run" /\ x.at \in Nat /\ Len(signals) \in Nat
    BY <1>8, <2>0, <2>1 DEF Route, SignalRecord
  <2>4. \A i \in 1 .. Len(signals') : signals'[i].at <= clock'
    BY <1>0, <2>1, <2>2, <2>3
  <2>5. \A i, j \in 1 .. Len(signals') : i <= j => signals'[i].at <= signals'[j].at + Timeout
    <3> SUFFICES ASSUME NEW i \in 1 .. Len(signals'), NEW j \in 1 .. Len(signals'), i <= j
                 PROVE  signals'[i].at <= signals'[j].at + Timeout
      OBVIOUS
    <3>1. CASE j \in 1 .. Len(signals)
      <4>1. i \in 1 .. Len(signals)
        BY <2>3, <3>1
      <4>2. signals'[i] = signals[i] /\ signals'[j] = signals[j]
        BY <2>2, <3>1, <4>1
      <4>. QED
        BY <3>1, <4>1, <4>2
    <3>2. CASE j = Len(signals) + 1 /\ i \in 1 .. Len(signals)
      BY <2>1, <2>2, <3>2
    <3>3. CASE j = Len(signals) + 1 /\ i = Len(signals) + 1
      BY <2>2, <2>3, <3>3
    <3>. QED
      BY <2>2, <3>1, <3>2, <3>3
  <2>6. \A i \in 1 .. Len(signals') : \A q \in results' : signals'[i].at <= q.at + Timeout
    BY SMTT(30), <2>1, <2>2
  <2>. QED
    BY <2>3, <2>4, <2>5, <2>6
<1>9. CASE EndTick
  BY <1>9 DEF EndTick, NothingUnderWay
<1>10. CASE OrderTaken
  BY <1>10 DEF OrderTaken, Placing, Takes, Order, AfterOrder
<1>11. CASE OrderRefused
  BY <1>11 DEF OrderRefused, Placing, Order, AfterOrder
<1>12. CASE OrderErrs
  BY <1>12 DEF OrderErrs, Placing, Takes, Order, AfterOrder, TryAgain
<1>13. CASE Record
  BY <1>13 DEF Record, AfterRecord, Insert
<1>14. CASE RecordFails
  BY <1>14 DEF RecordFails, AfterRecord, Insert
<1>15. CASE Start
  BY <1>15 DEF Start, NothingUnderWay
<1>16. CASE Cancel
  BY <1>16 DEF Cancel, Placing, Takes, Order, Insert
<1>17. CASE UNCHANGED vars
  BY <1>17
<1>18. CASE Preload
  BY <1>18 DEF Preload, StartThreads
<1>. QED
  BY <1>1, <1>2, <1>3, <1>4, <1>5, <1>6, <1>7, <1>8, <1>9, <1>10, <1>11, <1>12, <1>13, <1>14, <1>15, <1>16, <1>17, <1>18 DEF Next, Reload, Collect, Place

LEMMA RepeatsStep ==
  ASSUME IInv, [Next]_vars
  PROVE  RepeatsCaught'
<1> USE RunnerAssumption
<1> USE DEF IInv, TypeOK, TimesOfSignals, RepeatsCaught, Same, vars, reload, tick, routing, history
<1>1. CASE Second
  BY <1>1 DEF Second
<1>2. ASSUME NEW s \in Strategies, ThreadEnds(s) PROVE RepeatsCaught'
  BY <1>2 DEF ThreadEnds
<1>3. CASE ReadRows
  BY <1>3 DEF ReadRows
<1>4. CASE ReadFails
  BY <1>4 DEF ReadFails, AfterReload, StartThreads
<1>5. CASE ApplyReload
  BY <1>5 DEF ApplyReload, AfterReload, StartThreads
<1>6. CASE RunWithoutReload
  BY <1>6 DEF RunWithoutReload, AfterReload, StartThreads
<1>7. CASE DropDuplicate
  BY <1>7 DEF DropDuplicate
<1>8. CASE Route
  <2>0. signals \in Seq(SignalRecord) /\ clock \in Nat /\ DOMAIN signals = 1 .. Len(signals)
    BY DEF SignalRecord
  <2>1. PICK r \in results, x \in SignalRecord :
          /\ ~IsDuplicate(r) /\ signals' = Append(signals, x)
          /\ x.by = r.by /\ x.side = r.side /\ x.price = r.price /\ x.routed = clock
    BY <1>8, RouteEffect
  <2>2. /\ signals' \in Seq(SignalRecord)
        /\ Len(signals') = Len(signals) + 1 /\ signals'[Len(signals) + 1] = x
        /\ \A i \in 1 .. Len(signals) : signals'[i] = signals[i]
        /\ \A i \in 1 .. Len(signals') : i \in 1 .. Len(signals) \/ i = Len(signals) + 1
    <3>1. signals \in Seq(SignalRecord) /\ signals' = Append(signals, x) /\ x \in SignalRecord
      BY <2>0, <2>1
    <3>. HIDE DEF IInv, TypeOK, TimesOfSignals, RepeatsCaught
    <3>. QED
      BY <3>1, AppendedSignal
  <2>3. DOMAIN signals' = 1 .. Len(signals')
    BY <2>2
  <2> SUFFICES ASSUME NEW i \in 1 .. Len(signals'), NEW j \in 1 .. Len(signals'), i < j,
                      Same(signals'[i], signals'[j])
               PROVE  signals'[j].routed > signals'[i].at + Window - Timeout
    BY <2>3
  <2>4. CASE j \in 1 .. Len(signals)
    <3>1. i \in 1 .. Len(signals) /\ signals'[i] = signals[i] /\ signals'[j] = signals[j]
      <4>1. Len(signals) \in Nat
        BY <2>0
      <4>. HIDE DEF IInv, TypeOK, TimesOfSignals, RepeatsCaught
      <4>2. i \in 1 .. Len(signals)
        BY <2>4, <4>1
      <4>. QED
        BY <2>2, <2>4, <4>2
    <3>. QED
      BY <2>0, <2>4, <3>1
  <2>5. CASE j = Len(signals) + 1
    <3>1. i \in 1 .. Len(signals) /\ signals'[i] = signals[i] /\ signals'[j] = x
      <4>1. Len(signals) \in Nat /\ i \in Nat /\ i >= 1
        BY SMTT(30), <2>0, <2>2
      <4>2. i \in 1 .. Len(signals)
        BY <2>5, <4>1
      <4>. QED
        BY <2>2, <2>5, <4>2
    <3>2. Same(signals[i], r)
      BY <2>1, <3>1
    <3>3. PICK k \in i .. Len(signals) : ~(signals[k].at >= clock - Window)
      BY <2>0, <2>1, <3>1, <3>2 DEF IsDuplicate
    <3>4. k \in 1 .. Len(signals) /\ i <= k
      BY <2>0, <3>1, <3>3
    <3>5. signals[i].at <= signals[k].at + Timeout
      BY <3>1, <3>4
    <3>6. signals[i] \in SignalRecord /\ signals[k] \in SignalRecord
      BY <2>0, <3>1, <3>4
    <3>7. signals[i].at \in Nat /\ signals[k].at \in Nat
      BY <3>6 DEF SignalRecord
    <3>8. /\ signals'[j].routed = clock /\ signals'[i].at = signals[i].at
          /\ clock \in Nat /\ Window \in Nat /\ Timeout \in Nat
      BY <2>0, <2>1, <3>1
    <3>9. clock > signals[i].at + Window - Timeout
      BY <2>0, <3>3, <3>5, <3>7, OutOfWindow
    <3>. QED
      BY <3>8, <3>9
  <2>. QED
    BY <2>2, <2>4, <2>5
<1>9. CASE EndTick
  BY <1>9 DEF EndTick, NothingUnderWay
<1>10. CASE OrderTaken
  BY <1>10 DEF OrderTaken, Placing, Takes, Order, AfterOrder
<1>11. CASE OrderRefused
  BY <1>11 DEF OrderRefused, Placing, Order, AfterOrder
<1>12. CASE OrderErrs
  BY <1>12 DEF OrderErrs, Placing, Takes, Order, AfterOrder, TryAgain
<1>13. CASE Record
  BY <1>13 DEF Record, AfterRecord, Insert
<1>14. CASE RecordFails
  BY <1>14 DEF RecordFails, AfterRecord, Insert
<1>15. CASE Start
  BY <1>15 DEF Start, NothingUnderWay
<1>16. CASE Cancel
  BY <1>16 DEF Cancel, Placing, Takes, Order, Insert
<1>17. CASE UNCHANGED vars
  BY <1>17
<1>18. CASE Preload
  BY <1>18 DEF Preload, StartThreads
<1>. QED
  BY <1>1, <1>2, <1>3, <1>4, <1>5, <1>6, <1>7, <1>8, <1>9, <1>10, <1>11, <1>12, <1>13, <1>14, <1>15, <1>16, <1>17, <1>18 DEF Next, Reload, Collect, Place

(* An attempt that is made, and what it says of the orders after it.       *)
LEMMA AttemptRoutes ==
  ASSUME TypeOK, Routing, pc \in {"order", "protect"}, signals # <<>>, signals' = signals,
         row' = row, unrecorded' = unrecorded, Moved, tries \in Nat,
         NoneMade \/ \E o \in OrderRecord : AttemptMade(o),
         pc' = "record" =>
           IF outcome' = "EXECUTED" THEN \E o \in OrderRecord : AttemptMade(o) /\ o.answered
           ELSE NoneMade \/ \E o \in OrderRecord : AttemptMade(o) /\ ~o.answered
  PROVE  Routing'
<1>1. orders \subseteq orders' /\ \A o \in orders' : o \in orders \/ AttemptMade(o)
  BY DEF NoneMade, AttemptMade
<1>2. \A o \in orders' : o.of = Last.side /\ Last' = Last
  BY <1>1 DEF Routing, AttemptMade, Last
<1>3. \A o \in orders' : o.kind = "protect" => pc = "protect"
  BY <1>1 DEF Routing, Protected, AttemptMade
<1>4. \A o \in orders : o.kind = pc => ~o.answered /\ o.attempt < tries
  BY DEF Routing, Attempted
<1>5. \A o \in orders : o.attempt \in Nat
  BY RunnerAssumption DEF TypeOK
<1>6. CASE pc' = pc /\ outcome' = outcome /\ tries' = tries + 1
  <2>1. \A o \in orders' : o.kind = pc => ~o.answered /\ o.attempt < tries'
    <3> SUFFICES ASSUME NEW o \in orders', o.kind = pc PROVE ~o.answered /\ o.attempt < tries'
      OBVIOUS
    <3>1. CASE o \in orders
      BY <1>4, <1>5, <1>6, <3>1
    <3>2. CASE AttemptMade(o)
      BY <1>6, <3>2 DEF AttemptMade
    <3>. QED
      BY <1>1, <3>1, <3>2
  <2>2. pc = "protect" => Answered'
    BY <1>1 DEF Routing, Answered
  <2>3. pc \in {"order", "protect"} /\ pc' \in {"order", "protect"}
    BY <1>6
  <2>. QED
    <3>1. pc = "order" => row' = NoRow /\ ~Protected'
      BY <1>3 DEF Routing, Protected
    <3>2. pc = "protect" => Last.side = "BUY" /\ row' \in {NoRow, "EXECUTED"} /\ Last' = Last
      BY DEF Routing, Last
    <3>3. Attempted(pc)'
      BY <1>6, <2>1 DEF Attempted
    <3>. QED
      BY <1>2, <1>6, <2>2, <2>3, <3>1, <3>2, <3>3 DEF Routing
<1>7. CASE pc = "order" /\ pc' = "record" /\ outcome' \in {"EXECUTED", "FAILED"}
  <2>1. outcome' = "EXECUTED" => Answered'
    BY <1>7 DEF Answered, AttemptMade
  <2>2. outcome' # "EXECUTED" => ~Answered'
    <3> SUFFICES ASSUME outcome' # "EXECUTED", NEW o \in orders', o.kind = "order" PROVE ~o.answered
      BY DEF Answered
    <3>1. CASE o \in orders
      BY <1>4, <1>7, <3>1
    <3>2. CASE o \notin orders
      <4>1. PICK q \in OrderRecord : AttemptMade(q) /\ ~q.answered
        BY <1>7, <3>2 DEF NoneMade
      <4>2. o = q
        BY <3>2, <4>1 DEF AttemptMade
      <4>. QED
        BY <4>1, <4>2
    <3>. QED
      BY <3>1, <3>2
  <2>3. row = NoRow /\ outcome' # NoRow /\ row' # NoSignal
    BY <1>7 DEF Routing, NoRow, NoSignal
  <2>. QED
    BY <1>2, <1>3, <1>7, <2>1, <2>2, <2>3 DEF Routing, Protected
<1>8. CASE pc = "protect" /\ pc' = "collect" /\ outcome' = NoRow
  BY <1>2, <1>8 DEF Routing
<1>. QED
  BY <1>6, <1>7, <1>8 DEF Moved

LEMMA AttemptSums ==
  ASSUME IInv, OrderTaken \/ OrderRefused \/ OrderErrs
  PROVE  /\ pc \in {"order", "protect"} /\ signals # <<>> /\ signals' = signals /\ row' = row
         /\ unrecorded' = unrecorded /\ Moved /\ tries \in Nat
         /\ NoneMade \/ \E o \in OrderRecord : AttemptMade(o)
         /\ pc' = "record" =>
              IF outcome' = "EXECUTED" THEN \E o \in OrderRecord : AttemptMade(o) /\ o.answered
              ELSE NoneMade \/ \E o \in OrderRecord : AttemptMade(o) /\ ~o.answered
<1>1. TypeOK /\ Routing
  BY DEF IInv
<1>2. tries \in Nat
  BY <1>1, RunnerAssumption DEF TypeOK
<1>. QED
  BY <1>1, <1>2, AttemptEffect

LEMMA RoutingStep ==
  ASSUME IInv, [Next]_vars
  PROVE  Routing'
<1> USE RunnerAssumption
<1> USE DEF IInv, TypeOK, Routing, Protected, Attempted, Answered, Last, vars, reload, tick, routing, history
<1>1. CASE Second
  BY <1>1 DEF Second
<1>2. ASSUME NEW s \in Strategies, ThreadEnds(s) PROVE Routing'
  BY <1>2 DEF ThreadEnds
<1>3. CASE ReadRows
  BY <1>3 DEF ReadRows
<1>4. CASE ReadFails
  BY <1>4 DEF ReadFails, AfterReload, StartThreads
<1>5. CASE ApplyReload
  BY <1>5 DEF ApplyReload, AfterReload, StartThreads
<1>6. CASE RunWithoutReload
  BY <1>6 DEF RunWithoutReload, AfterReload, StartThreads
<1>7. CASE DropDuplicate
  BY <1>7 DEF DropDuplicate
<1>8. CASE Route
  <2>1. signals \in Seq(SignalRecord)
    BY DEF SignalRecord
  <2>2. signals' # <<>>
    <3>1. PICK x \in SignalRecord : signals' = Append(signals, x)
      BY <1>8, RouteEffect
    <3>. QED
      BY <2>1, <3>1, AppendedSignal
  <2>3. /\ row' = NoRow /\ orders' = {} /\ pc' \in {"order", "record"}
        /\ pc' = "record" => outcome' = "REJECTED"
    BY <1>8 DEF Route
  <2>. QED
    BY <2>2, <2>3 DEF NoRow, NoSignal
<1>9. CASE EndTick
  BY <1>9 DEF EndTick, NothingUnderWay
<1>10. CASE OrderTaken
  <2>0. /\ pc \in {"order", "protect"} /\ signals # <<>> /\ signals' = signals /\ row' = row
        /\ unrecorded' = unrecorded /\ Moved /\ tries \in Nat
        /\ NoneMade \/ \E o \in OrderRecord : AttemptMade(o)
        /\ pc' = "record" =>
             IF outcome' = "EXECUTED" THEN \E o \in OrderRecord : AttemptMade(o) /\ o.answered
             ELSE NoneMade \/ \E o \in OrderRecord : AttemptMade(o) /\ ~o.answered
    BY <1>10, AttemptSums
  <2>. QED
    BY <2>0, AttemptRoutes
<1>11. CASE OrderRefused
  <2>0. /\ pc \in {"order", "protect"} /\ signals # <<>> /\ signals' = signals /\ row' = row
        /\ unrecorded' = unrecorded /\ Moved /\ tries \in Nat
        /\ NoneMade \/ \E o \in OrderRecord : AttemptMade(o)
        /\ pc' = "record" =>
             IF outcome' = "EXECUTED" THEN \E o \in OrderRecord : AttemptMade(o) /\ o.answered
             ELSE NoneMade \/ \E o \in OrderRecord : AttemptMade(o) /\ ~o.answered
    BY <1>11, AttemptSums
  <2>. QED
    BY <2>0, AttemptRoutes
<1>12. CASE OrderErrs
  <2>0. /\ pc \in {"order", "protect"} /\ signals # <<>> /\ signals' = signals /\ row' = row
        /\ unrecorded' = unrecorded /\ Moved /\ tries \in Nat
        /\ NoneMade \/ \E o \in OrderRecord : AttemptMade(o)
        /\ pc' = "record" =>
             IF outcome' = "EXECUTED" THEN \E o \in OrderRecord : AttemptMade(o) /\ o.answered
             ELSE NoneMade \/ \E o \in OrderRecord : AttemptMade(o) /\ ~o.answered
    BY <1>12, AttemptSums
  <2>. QED
    BY <2>0, AttemptRoutes
<1>13. CASE Record
  <2>1. pc = "record" /\ orders' = orders /\ signals' = signals
    BY <1>13 DEF Record
  <2>2. \/ pc' = "collect"
        \/ /\ outcome = "EXECUTED" /\ Last.side = "BUY"
           /\ pc' = "protect" \/ (pc' = "record" /\ outcome' = "FAILED")
    BY <1>13 DEF Record, AfterRecord
  <2>3. row' \in {row, Insert} /\ (outcome = "EXECUTED" => row = NoRow /\ Insert = "EXECUTED")
    BY <1>13, <2>1 DEF Record, Insert
  <2>4. outcome = "EXECUTED" => row' = "EXECUTED"
    BY <1>13, <2>1, <2>3 DEF Record
  <2>. QED
    BY <2>1, <2>2, <2>4 DEF NoRow, NoSignal
<1>14. CASE RecordFails
  <2>1. pc = "record" /\ orders' = orders /\ signals' = signals /\ unrecorded' = TRUE
    BY <1>14 DEF RecordFails
  <2>2. \/ pc' = "collect"
        \/ /\ outcome = "EXECUTED" /\ Last.side = "BUY"
           /\ pc' = "protect" \/ (pc' = "record" /\ outcome' = "FAILED")
    BY <1>14 DEF RecordFails, AfterRecord
  <2>3. row' \in {row, Insert} /\ (outcome = "EXECUTED" => row = NoRow /\ Insert = "EXECUTED")
    BY <1>14, <2>1 DEF RecordFails, Insert
  <2>4. outcome = "EXECUTED" => row' \in {NoRow, "EXECUTED"}
    BY <1>14, <2>1, <2>3 DEF RecordFails
  <2>. QED
    BY <2>1, <2>2, <2>4 DEF NoRow, NoSignal
<1>15. CASE Start
  BY <1>15 DEF Start, NothingUnderWay
<1>16. CASE Cancel
  BY <1>16 DEF Cancel, Placing, Takes, Order, Insert
<1>17. CASE UNCHANGED vars
  BY <1>17
<1>18. CASE Preload
  BY <1>18 DEF Preload, StartThreads
<1>. QED
  BY <1>1, <1>2, <1>3, <1>4, <1>5, <1>6, <1>7, <1>8, <1>9, <1>10, <1>11, <1>12, <1>13, <1>14, <1>15, <1>16, <1>17, <1>18 DEF Next, Reload, Collect, Place

(* Orders that one attempt joins still agree with the row.                 *)
LEMMA AttemptAgrees ==
  ASSUME IInv, OrderTaken \/ OrderRefused \/ OrderErrs
  PROVE  OrdersAndRowsAgree'
<1>1. /\ pc \in {"order", "protect"} /\ row' = row /\ unrecorded' = unrecorded /\ Moved
      /\ NoneMade \/ \E o \in OrderRecord : AttemptMade(o)
  BY AttemptEffect DEF IInv
<1>2. orders \subseteq orders' /\ \A o \in orders' : o \in orders \/ AttemptMade(o)
  BY <1>1 DEF NoneMade, AttemptMade
<1>3. \A o \in orders : o.kind = pc => ~o.answered /\ o.attempt < tries
  BY <1>1 DEF IInv, Routing, Attempted
<1>4. tries \in Nat /\ \A o \in orders : o.attempt \in Nat
  BY RunnerAssumption DEF IInv, TypeOK
<1>5. OneOrderPerSignal'
  <2> SUFFICES ASSUME NEW o \in orders', NEW q \in orders', o.kind = q.kind, o.attempt < q.attempt
               PROVE  ~o.answered
    BY DEF OneOrderPerSignal
  <2>1. CASE o \in orders /\ q \in orders
    BY <2>1 DEF IInv, OrdersAndRowsAgree, OneOrderPerSignal
  <2>2. CASE o \in orders /\ AttemptMade(q)
    BY <1>3, <2>2 DEF AttemptMade
  <2>3. CASE AttemptMade(o) /\ q \in orders
    <3>1. o.kind = pc /\ o.attempt = tries /\ q.attempt < tries
      BY <1>3, <2>3 DEF AttemptMade
    <3>. QED
      BY <1>4, <2>3, <3>1
  <2>4. CASE AttemptMade(o) /\ AttemptMade(q)
    BY <1>4, <2>4 DEF AttemptMade
  <2>. QED
    BY <1>2, <2>1, <2>2, <2>3, <2>4
<1>6. Answered => Answered'
  BY <1>2 DEF Answered
<1>7. TakeProfitFollowsBuy'
  <2> SUFFICES ASSUME NEW o \in orders', o.kind = "protect"
               PROVE  o.of = "BUY" /\ Answered' /\ row' \in {NoRow, "EXECUTED"}
    BY DEF TakeProfitFollowsBuy
  <2>1. CASE o \in orders
    BY <1>1, <1>6, <2>1 DEF IInv, OrdersAndRowsAgree, TakeProfitFollowsBuy
  <2>2. CASE AttemptMade(o)
    BY <1>1, <1>6, <2>2 DEF AttemptMade, IInv, Routing
  <2>. QED
    BY <1>2, <2>1, <2>2
<1>8. RowsTellOrders'
  <2>1. CASE pc = "order"
    <3>1. row = NoRow /\ pc' \in {"order", "record"}
      BY <1>1, <2>1 DEF IInv, Routing, Moved
    <3>. QED
      BY <1>1, <3>1 DEF RowsTellOrders, NoRow, Statuses
  <2>2. CASE pc = "protect"
    <3>1. row \in {NoRow, "EXECUTED"} /\ Answered /\ (row = NoRow => unrecorded)
      BY <2>2 DEF IInv, Routing, OrdersAndRowsAgree, RowsTellOrders
    <3>. QED
      BY <1>1, <1>6, <3>1 DEF RowsTellOrders, NoRow
  <2>. QED
    BY <1>1, <2>1, <2>2
<1>. QED
  BY <1>5, <1>7, <1>8 DEF OrdersAndRowsAgree

(* The ticker is cancelled, perhaps behind an order that was taken.        *)
LEMMA CancelAgrees ==
  ASSUME IInv, Cancel
  PROVE  OrdersAndRowsAgree'
<1>. DEFINE o == Order(pc, FALSE)
<1>1. \/ orders' = orders
      \/ pc \in {"order", "protect"} /\ orders' = orders \union {o}
  BY DEF Cancel, Takes, Placing
<1>2. pc \in {"order", "protect"} =>
        o.kind = pc /\ o.of = Last.side /\ o.attempt = tries /\ o.answered = FALSE
  BY OrderOfSignal DEF IInv, Routing
<1>. HIDE DEF o
<1>3. /\ row' = row \/ (pc = "record" /\ row' = Insert)
      /\ unrecorded' = (unrecorded \/ pc \in {"order", "record"})
  BY DEF Cancel
<1>4. tries \in Nat /\ \A q \in orders : q.attempt \in Nat
  BY RunnerAssumption DEF IInv, TypeOK
<1>5. OneOrderPerSignal'
  <2> SUFFICES ASSUME NEW p \in orders', NEW q \in orders', p.kind = q.kind, p.attempt < q.attempt
               PROVE  ~p.answered
    BY DEF OneOrderPerSignal
  <2>1. CASE p \in orders /\ q \in orders
    BY <2>1 DEF IInv, OrdersAndRowsAgree, OneOrderPerSignal
  <2>2. CASE p \in orders /\ q \notin orders
    BY <1>1, <1>2, <2>2 DEF IInv, Routing, Attempted
  <2>3. CASE p \notin orders
    BY <1>1, <1>2, <2>3
  <2>. QED
    BY <2>1, <2>2, <2>3
<1>6. Answered <=> Answered'
  BY <1>1, <1>2 DEF Answered
<1>7. TakeProfitFollowsBuy'
  <2> SUFFICES ASSUME NEW p \in orders', p.kind = "protect"
               PROVE  p.of = "BUY" /\ Answered' /\ row' \in {NoRow, "EXECUTED"}
    BY DEF TakeProfitFollowsBuy
  <2>1. CASE p \in orders
    <3>1. row' = row
      BY <1>3, <2>1 DEF IInv, Routing, Protected
    <3>. QED
      BY <1>6, <2>1, <3>1 DEF IInv, OrdersAndRowsAgree, TakeProfitFollowsBuy
  <2>2. CASE p \notin orders
    <3>1. pc = "protect" /\ p.of = Last.side /\ row' = row
      BY <1>1, <1>2, <1>3, <2>2
    <3>. QED
      BY <1>6, <3>1 DEF IInv, Routing
  <2>. QED
    BY <2>1, <2>2
<1>8. RowsTellOrders'
  <2>1. pc = "record" => unrecorded' /\ (outcome = "EXECUTED" => Answered)
    BY <1>3 DEF IInv, Routing
  <2>2. pc = "order" => unrecorded' /\ row' = row
    BY <1>3
  <2>3. row' = "EXECUTED" => Answered
    BY <1>3, <2>1 DEF Insert, IInv, OrdersAndRowsAgree, RowsTellOrders
  <2>. QED
    BY <1>3, <1>6, <2>1, <2>2, <2>3 DEF IInv, OrdersAndRowsAgree, RowsTellOrders
<1>. QED
  BY <1>5, <1>7, <1>8 DEF OrdersAndRowsAgree

LEMMA AgreeStep ==
  ASSUME IInv, [Next]_vars
  PROVE  OrdersAndRowsAgree'
<1> USE RunnerAssumption
<1> USE DEF IInv, TypeOK, Routing, Protected, Attempted, Answered, Last, OrdersAndRowsAgree, OneOrderPerSignal, TakeProfitFollowsBuy, RowsTellOrders, NoRow, NoSignal, Statuses, vars, reload, tick, routing, history
<1>1. CASE Second
  BY <1>1 DEF Second
<1>2. ASSUME NEW s \in Strategies, ThreadEnds(s) PROVE OrdersAndRowsAgree'
  BY <1>2 DEF ThreadEnds
<1>3. CASE ReadRows
  BY <1>3 DEF ReadRows
<1>4. CASE ReadFails
  BY <1>4 DEF ReadFails, AfterReload, StartThreads
<1>5. CASE ApplyReload
  BY <1>5 DEF ApplyReload, AfterReload, StartThreads
<1>6. CASE RunWithoutReload
  BY <1>6 DEF RunWithoutReload, AfterReload, StartThreads
<1>7. CASE DropDuplicate
  BY <1>7 DEF DropDuplicate
<1>8. CASE Route
  BY <1>8 DEF Route
<1>9. CASE EndTick
  BY <1>9 DEF EndTick, NothingUnderWay
<1>10. CASE OrderTaken
  BY <1>10, AttemptAgrees
<1>11. CASE OrderRefused
  BY <1>11, AttemptAgrees
<1>12. CASE OrderErrs
  BY <1>12, AttemptAgrees
<1>13. CASE Record
  BY <1>13 DEF Record, AfterRecord, Insert
<1>14. CASE RecordFails
  BY <1>14 DEF RecordFails, AfterRecord, Insert
<1>15. CASE Start
  BY <1>15 DEF Start, NothingUnderWay
<1>16. CASE Cancel
  BY <1>16, CancelAgrees
<1>17. CASE UNCHANGED vars
  BY <1>17
<1>18. CASE Preload
  BY <1>18 DEF Preload, StartThreads
<1>. QED
  BY <1>1, <1>2, <1>3, <1>4, <1>5, <1>6, <1>7, <1>8, <1>9, <1>10, <1>11, <1>12, <1>13, <1>14, <1>15, <1>16, <1>17, <1>18 DEF Next, Reload, Collect, Place

LEMMA Inductive == IInv /\ [Next]_vars => IInv'
<1> SUFFICES ASSUME IInv, [Next]_vars PROVE IInv'
  OBVIOUS
<1>1. TypeOK' /\ LoadedHaveRows' /\ TickWasAllowed' /\ FirstWaits'
  BY TypeStep, LoadedStep, AllowedStep, FirstStep DEF IInv
<1>2. TimesOfResults' /\ TimesOfSignals' /\ RepeatsCaught'
  BY ResultsStep, SignalsStep, RepeatsStep
<1>3. Routing' /\ OrdersAndRowsAgree'
  BY RoutingStep, AgreeStep
<1>. QED
  BY <1>1, <1>2, <1>3 DEF IInv

LEMMA Initially == Init => IInv
<1> SUFFICES ASSUME Init PROVE IInv
  OBVIOUS
<1> USE RunnerAssumption DEF Init
<1>1. TypeOK
  <2>1. <<>> \in Seq(SignalRecord) /\ 0 \in 0 .. MaxClock /\ 0 \in 0 .. MaxRetries /\ 0 \in 0 .. 0
    OBVIOUS
  <2>. QED
    BY <2>1 DEF TypeOK, SignalRecord
<1>2. LoadedHaveRows /\ TickWasAllowed /\ FirstWaits /\ TimesOfResults /\ TimesOfSignals /\ RepeatsCaught
  BY DEF LoadedHaveRows, TickWasAllowed, FirstWaits, TimesOfResults, TimesOfSignals, RepeatsCaught
<1>3. Routing /\ OrdersAndRowsAgree
  BY DEF Routing, OrdersAndRowsAgree, OneOrderPerSignal, TakeProfitFollowsBuy, RowsTellOrders, Answered,
     NoRow, NoSignal
<1>. QED
  BY <1>1, <1>2, <1>3 DEF IInv

LEMMA Invariant == Spec => []IInv
BY Initially, Inductive, PTL DEF Spec
-----------------------------------------------------------------------------
(* Every variable keeps its type.                                          *)
THEOREM TypeCorrect == Spec => []TypeOK
BY Invariant, PTL DEF IInv

(* In one run of the pipeline no signal is routed within the window of an  *)
(* equal one, the time of a thread aside.                                  *)
THEOREM RepeatsAlwaysCaught == Spec => []RepeatsCaught
BY Invariant, PTL DEF IInv

(* Whatever answers are lost, writes fail or whenever the ticker is        *)
(* cancelled, a signal has one order of a kind at most, a take-profit order*)
(* only after its BUY, and a row that tells of its order.                  *)
THEOREM OrdersAndRowsAlwaysAgree == Spec => []OrdersAndRowsAgree
BY Invariant, PTL DEF IInv

(* A strategy that lost its row is run no longer than until the reload     *)
(* that is due.                                                            *)
THEOREM DeactivationAlwaysTakesEffect == Spec => []DeactivationTakesEffect
<1>1. IInv => DeactivationTakesEffect
  BY DEF IInv, TypeOK, LoadedHaveRows, TickWasAllowed, FirstWaits, DeactivationTakesEffect
<1>. QED
  BY <1>1, Invariant, PTL
-----------------------------------------------------------------------------
Listening ==
  {T!Gone, T!Asleep} \union [at : {"reading"}, on : Nat]
    \union [at : {"tick"}, on : Nat, symbol : Channels, tick : Nat, place : Nat,
            unsent : SUBSET Strategies]

BusTypes ==
  /\ conn \in Nat /\ known \subseteq Channels
  /\ callbacks \in [Channels -> Nat] /\ heard \in [Channels -> Nat]
  /\ wire \in [Channels -> Seq(Nat)]
  /\ starter \in [todo : SUBSET Channels, waits : SUBSET Channels]
  /\ listeners \in [1 .. MaxBreaks + MaxCalls -> Listening]
  /\ spent \in [ticks : Nat, breaks : Nat, calls : Nat]
  /\ work \in Seq([symbol : Channels, tick : Nat, current : BOOLEAN])

(* A channel the current connection hears has the callback once: it is     *)
(* asked of Redis when it becomes known, and never again.                  *)
Current(c) == conn # 0 /\ heard[c] = conn

HeardOnce ==
  /\ \A c \in Channels : c \notin known => callbacks[c] = 0 /\ heard[c] = 0
  /\ \A c \in Channels : heard[c] <= conn
  /\ \A c \in Channels : Current(c) =>
       callbacks[c] <= 1 /\ (c \in starter.todo => c \in starter.waits /\ callbacks[c] = 0)
  /\ starter.waits \subseteq starter.todo \intersect known
  /\ \A c, d \in starter.waits : c = d
  /\ conn = 0 => starter.todo = {}

(* All that was worked on of a symbol is older than n.                     *)
Newer(c, n) == \A w \in 1 .. Len(work) : work[w].symbol = c => work[w].tick < n

(* All that waits of a symbol is newer than n.                             *)
Ahead(c, n) == \A i \in 1 .. Len(wire[c]) : n < wire[c][i]

WireInOrder ==
  /\ \A w \in 1 .. Len(work) : work[w].tick <= spent.ticks
  /\ \A c \in Channels : heard[c] = 0 => wire[c] = <<>>
  /\ \A c \in Channels : \A i \in 1 .. Len(wire[c]) :
       /\ wire[c][i] <= spent.ticks /\ Newer(c, wire[c][i])
       /\ \A j \in 1 .. Len(wire[c]) : i < j => wire[c][i] < wire[c][j]

(* The tick of a listener: one that is not handed to a callback yet is     *)
(* newer than all work, and on the current connection there is only one    *)
(* callback to hand it to.                                                 *)
InHand(k) ==
  /\ k.tick <= spent.ticks /\ Ahead(k.symbol, k.tick)
  /\ k.on # 0 /\ k.on <= conn
  /\ k.on = conn => callbacks[k.symbol] <= 1 /\ (heard[k.symbol] = conn \/ starter.todo = {})
  /\ k.place = 0 => k.unsent = {} /\ Newer(k.symbol, k.tick)

TicksInHand ==
  /\ \A l \in T!MayListen : T!Working(l) => InHand(listeners[l])
  /\ \A l, m \in T!MayListen : T!GoesOn(l) /\ T!GoesOn(m) => l = m

BusInv == BusTypes /\ HeardOnce /\ WireInOrder /\ TicksInHand /\ T!WorksOnceInOrder

LEMMA Bounds == MaxBreaks \in Nat /\ MaxCalls \in Nat /\ MaxTicks \in Nat
BY SidesAssumption DEF T!BusAssumption

LEMMA Members ==
  ASSUME NEW R, NEW q \in Seq(R)
  PROVE  Len(q) \in Nat /\ DOMAIN q = 1 .. Len(q) /\ \A i \in 1 .. Len(q) : q[i] \in R
OBVIOUS

Works == [symbol : Channels, tick : Nat, current : BOOLEAN]

LEMMA TypesAre ==
  ASSUME BusTypes
  PROVE  /\ conn \in Nat /\ spent.ticks \in Nat /\ Len(work) \in Nat
         /\ \A w \in 1 .. Len(work) : work[w].tick \in Nat
         /\ \A c \in Channels : /\ wire[c] \in Seq(Nat) /\ heard[c] \in Nat /\ callbacks[c] \in Nat
                                /\ Len(wire[c]) \in Nat
                                /\ \A i \in 1 .. Len(wire[c]) : wire[c][i] \in Nat
<1>1. conn \in Nat /\ spent.ticks \in Nat
  BY DEF BusTypes
<1>2. Len(work) \in Nat /\ \A w \in 1 .. Len(work) : work[w].tick \in Nat
  <2>1. work \in Seq(Works)
    BY DEF BusTypes, Works
  <2>2. Len(work) \in Nat /\ \A w \in 1 .. Len(work) : work[w] \in Works
    BY <2>1, Members
  <2>. QED
    BY <2>2 DEF Works
<1>3. ASSUME NEW c \in Channels
      PROVE  /\ wire[c] \in Seq(Nat) /\ heard[c] \in Nat /\ callbacks[c] \in Nat
             /\ Len(wire[c]) \in Nat /\ \A i \in 1 .. Len(wire[c]) : wire[c][i] \in Nat
  BY DEF BusTypes
<1>. QED
  BY <1>1, <1>2, <1>3

LEMMA SpendIs ==
  ASSUME BusTypes
  PROVE  /\ T!Spend("calls") \/ T!Spend("breaks") =>
              spent' \in [ticks : Nat, breaks : Nat, calls : Nat] /\ spent'.ticks = spent.ticks
         /\ T!Spend("ticks") =>
              spent' \in [ticks : Nat, breaks : Nat, calls : Nat] /\ spent'.ticks = spent.ticks + 1
<1>1. /\ spent \in [ticks : Nat, breaks : Nat, calls : Nat]
      /\ spent.ticks + 1 \in Nat /\ spent.breaks + 1 \in Nat /\ spent.calls + 1 \in Nat
  BY DEF BusTypes
<1>2. T!Spend("calls") => spent' = [spent EXCEPT !.calls = spent.calls + 1]
  BY DEF T!Spend
<1>3. T!Spend("breaks") => spent' = [spent EXCEPT !.breaks = spent.breaks + 1]
  BY DEF T!Spend
<1>4. T!Spend("ticks") => spent' = [spent EXCEPT !.ticks = spent.ticks + 1]
  BY DEF T!Spend
<1>. QED
  BY <1>1, <1>2, <1>3, <1>4

(* One listener changes, to a value it may have.                           *)
LEMMA OneListener ==
  ASSUME BusTypes, NEW l \in T!MayListen, NEW v \in Listening,
         listeners' = [listeners EXCEPT ![l] = v]
  PROVE  /\ T!MayListen' = T!MayListen /\ listeners'[l] = v
         /\ \A m \in T!MayListen : m # l => listeners'[m] = listeners[m]
         /\ \A m \in T!MayListen : listeners[m] \in Listening
         /\ listeners' \in [1 .. MaxBreaks + MaxCalls -> Listening]
BY DEF BusTypes, T!MayListen

LEMMA TickFields ==
  ASSUME BusTypes, NEW l \in T!MayListen, T!Working(l)
  PROVE  /\ listeners[l] \in [at : {"tick"}, on : Nat, symbol : Channels, tick : Nat,
                              place : Nat, unsent : SUBSET Strategies]
         /\ listeners[l].on \in Nat /\ listeners[l].symbol \in Channels
         /\ listeners[l].tick \in Nat /\ listeners[l].place \in Nat
         /\ listeners[l].unsent \subseteq Strategies
<1>1. listeners[l] \in Listening /\ listeners[l].at = "tick"
  BY DEF BusTypes, T!MayListen, T!Working
<1>2. listeners[l] \in [at : {"tick"}, on : Nat, symbol : Channels, tick : Nat,
                        place : Nat, unsent : SUBSET Strategies]
  BY <1>1 DEF Listening, T!Gone, T!Asleep
<1>. QED
  BY <1>2

(* Where no listener goes on and none takes a tick, those who had one have *)
(* it still, and none goes on.                                             *)
Rests == \A l \in T!MayListen :
           /\ T!Working(l)' => T!Working(l) /\ listeners'[l] = listeners[l]
           /\ ~T!GoesOn(l)

(* What a channel's tick in hand needs of the current connection.          *)
OnceMore(c) == callbacks[c] <= 1 /\ (heard[c] = conn \/ starter.todo = {})

WireGoesOn(c) == wire'[c] \in {wire[c], <<>>, Append(wire[c], spent.ticks + 1)}

LEMMA RestingTicks ==
  ASSUME BusInv, Rests, T!MayListen' = T!MayListen,
         work' = work, spent'.ticks \in {spent.ticks, spent.ticks + 1},
         \A c \in Channels : WireGoesOn(c),
         conn' = conn + 1 \/ (conn' = conn /\ \A c \in Channels : OnceMore(c) => OnceMore(c)')
  PROVE  TicksInHand'
<1>1. \A l \in T!MayListen : ~T!GoesOn(l)'
  BY DEF Rests, T!GoesOn
<1>2. ASSUME NEW l \in T!MayListen, T!Working(l)' PROVE InHand(listeners[l])'
  <2>0. PICK k : k = listeners[l]
    OBVIOUS
  <2>1. listeners'[l] = k /\ T!Working(l) /\ InHand(k)
    BY <1>2, <2>0 DEF Rests, BusInv, TicksInHand
  <2>2. /\ k.symbol \in Channels /\ k.tick \in Nat /\ k.on \in Nat /\ conn \in Nat
        /\ spent.ticks \in Nat /\ wire[k.symbol] \in Seq(Nat)
        /\ Len(wire[k.symbol]) \in Nat
        /\ \A i \in 1 .. Len(wire[k.symbol]) : wire[k.symbol][i] \in Nat
    BY <2>0, <2>1, TickFields, TypesAre DEF BusInv
  <2>3. Newer(k.symbol, k.tick)' <=> Newer(k.symbol, k.tick)
    BY <2>1 DEF Newer
  <2>4. Ahead(k.symbol, k.tick)'
    <3>1. WireGoesOn(k.symbol) /\ Ahead(k.symbol, k.tick) /\ k.tick <= spent.ticks
      BY <2>1, <2>2 DEF InHand
    <3>2. CASE wire'[k.symbol] = Append(wire[k.symbol], spent.ticks + 1)
      <4>1. \A i \in 1 .. Len(wire'[k.symbol]) :
              \/ i \in 1 .. Len(wire[k.symbol]) /\ wire'[k.symbol][i] = wire[k.symbol][i]
              \/ wire'[k.symbol][i] = spent.ticks + 1
        BY <2>2, <3>2
      <4>. QED
        BY <2>2, <3>1, <4>1 DEF Ahead
    <3>3. CASE wire'[k.symbol] = wire[k.symbol]
      BY <3>1, <3>3 DEF Ahead
    <3>4. CASE wire'[k.symbol] = <<>>
      BY <3>4 DEF Ahead
    <3>. QED
      BY <3>1, <3>2, <3>3, <3>4 DEF WireGoesOn
  <2>5. k.on = conn' => OnceMore(k.symbol)'
    <3>1. CASE conn' = conn + 1
      BY <2>1, <2>2, <3>1 DEF InHand
    <3>2. CASE conn' = conn /\ \A c \in Channels : OnceMore(c) => OnceMore(c)'
      <4>1. k.on = conn => OnceMore(k.symbol)
        BY <2>1 DEF InHand, OnceMore
      <4>. QED
        BY <2>2, <3>2, <4>1
    <3>. QED
      BY <3>1, <3>2
  <2>6. k.tick <= spent'.ticks /\ k.on # 0 /\ k.on <= conn'
    BY <2>1, <2>2 DEF InHand
  <2>. QED
    BY <2>0, <2>1, <2>3, <2>4, <2>5, <2>6 DEF InHand, OnceMore
<1>. QED
  BY <1>1, <1>2 DEF TicksInHand

(* Nothing that waits, was worked on or is published changes.              *)
LEMMA OrderStays ==
  ASSUME BusInv, work' = work, spent'.ticks = spent.ticks,
         \A c \in Channels : /\ wire'[c] = wire[c] \/ wire'[c] = <<>>
                             /\ heard'[c] = 0 => wire'[c] = <<>>
  PROVE  WireInOrder' /\ T!WorksOnceInOrder'
<1>1. T!WorksOnceInOrder'
  BY DEF BusInv, T!WorksOnceInOrder
<1>2. WireInOrder'
  BY DEF BusInv, WireInOrder, Newer
<1>. QED
  BY <1>1, <1>2
(* Connecting makes a listener of one that was gone, and leaves no channel *)
(* heard on the current connection.                                        *)
LEMMA ConnectEffect ==
  ASSUME BusTypes, NEW others \in [1 .. MaxBreaks + MaxCalls -> Listening],
         DOMAIN others = T!MayListen, T!Connect(others)
  PROVE  /\ conn' = conn + 1 /\ conn' \in Nat /\ T!MayListen' = T!MayListen
         /\ listeners' \in [1 .. MaxBreaks + MaxCalls -> Listening]
         /\ \A m \in T!MayListen : T!Working(m)' => listeners'[m] = others[m]
<1>1. PICK l \in T!MayListen : others[l] = T!Gone /\ listeners' = [others EXCEPT ![l] = T!Reading(conn')]
  BY DEF T!Connect
<1>2. conn' = conn + 1 /\ conn' \in Nat
  BY DEF T!Connect, BusTypes
<1>3. T!Reading(conn') \in Listening
  BY <1>2 DEF T!Reading, Listening
<1>4. T!MayListen = 1 .. MaxBreaks + MaxCalls
  BY DEF BusTypes, T!MayListen
<1>5. listeners'[l].at = "reading" /\ T!MayListen' = T!MayListen
      /\ listeners' \in [1 .. MaxBreaks + MaxCalls -> Listening]
      /\ \A m \in T!MayListen : m # l => listeners'[m] = others[m]
  BY <1>1, <1>3, <1>4 DEF T!MayListen, T!Reading
<1>. QED
  BY <1>2, <1>5 DEF T!Working

LEMMA NobodyHeard ==
  ASSUME BusTypes, HeardOnce, conn' = conn + 1, UNCHANGED <<known, callbacks, heard>>,
         starter'.waits \subseteq starter'.todo \intersect known, \A c, d \in starter'.waits : c = d
  PROVE  HeardOnce'
<1>1. conn \in Nat /\ \A c \in Channels : heard[c] \in Nat /\ heard[c] <= conn
  BY DEF BusTypes, HeardOnce
<1>2. \A c \in Channels : ~Current(c)'
  BY <1>1 DEF Current
<1>. QED
  BY <1>1, <1>2 DEF HeardOnce

LEMMA StartKeeps == ASSUME BusInv, T!Waiting, T!Start PROVE BusInv'
<1>. USE DEF BusInv
<1>1. /\ T!Connect(listeners) /\ starter' = [todo |-> Channels, waits |-> {}]
      /\ T!Spend("calls")
      /\ UNCHANGED <<known, callbacks, heard, wire, work>>
  BY DEF T!Start
<1>2. /\ conn' = conn + 1 /\ conn' \in Nat /\ T!MayListen' = T!MayListen
      /\ listeners' \in [1 .. MaxBreaks + MaxCalls -> Listening]
      /\ \A m \in T!MayListen : T!Working(m)' => listeners'[m] = listeners[m]
  BY <1>1, ConnectEffect DEF BusTypes, T!MayListen
<1>3. spent' \in [ticks : Nat, breaks : Nat, calls : Nat] /\ spent'.ticks = spent.ticks
  BY <1>1, SpendIs
<1>4. BusTypes'
  BY <1>1, <1>2, <1>3 DEF BusTypes
<1>5. HeardOnce'
  BY <1>1, <1>2, NobodyHeard
<1>6. WireInOrder' /\ T!WorksOnceInOrder'
  BY <1>1, <1>3, OrderStays DEF WireInOrder
<1>7. Rests
  BY <1>2 DEF Rests, T!Working, T!Waiting
<1>8. TicksInHand'
  BY <1>1, <1>2, <1>3, <1>7, RestingTicks DEF WireGoesOn
<1>. QED
  BY <1>4, <1>5, <1>6, <1>8

LEMMA ReconnectKeeps ==
  ASSUME BusInv, T!Waiting, NEW l \in T!MayListen, T!Reconnect(l) PROVE BusInv'
<1>. USE DEF BusInv
<1>. DEFINE others == [listeners EXCEPT ![l] = T!Reading(conn + 1)]
<1>1. /\ T!Connect(others) /\ listeners[l] = T!Asleep
      /\ UNCHANGED <<known, callbacks, heard, wire, starter, spent, work>>
  BY DEF T!Reconnect
<1>2. T!Reading(conn + 1) \in Listening
  BY DEF T!Reading, Listening, BusTypes
<1>3. /\ others \in [1 .. MaxBreaks + MaxCalls -> Listening] /\ DOMAIN others = T!MayListen
      /\ \A m \in T!MayListen : m # l => others[m] = listeners[m]
      /\ others[l] = T!Reading(conn + 1)
  BY <1>2 DEF BusTypes, T!MayListen
<1>. HIDE DEF others
<1>4. /\ conn' = conn + 1 /\ conn' \in Nat /\ T!MayListen' = T!MayListen
      /\ listeners' \in [1 .. MaxBreaks + MaxCalls -> Listening]
      /\ \A m \in T!MayListen : T!Working(m)' => listeners'[m] = others[m]
  BY <1>1, <1>3, ConnectEffect
<1>5. BusTypes'
  BY <1>1, <1>4 DEF BusTypes
<1>6. HeardOnce'
  BY <1>1, <1>4, NobodyHeard DEF HeardOnce
<1>7. WireInOrder' /\ T!WorksOnceInOrder'
  BY <1>1, OrderStays DEF WireInOrder
<1>8. Rests
  BY <1>3, <1>4 DEF Rests, T!Working, T!Waiting, T!Reading
<1>9. TicksInHand'
  BY <1>1, <1>4, <1>8, RestingTicks DEF WireGoesOn
<1>. QED
  BY <1>5, <1>6, <1>7, <1>9

LEMMA StopKeeps == ASSUME BusInv, T!Waiting, T!Stop PROVE BusInv'
<1>. USE DEF BusInv
<1>1. /\ starter.todo = {} /\ T!Spend("calls")
      /\ heard' = [c \in Channels |-> IF heard[c] = conn THEN 0 ELSE heard[c]]
      /\ wire' = [c \in Channels |-> IF heard[c] = conn THEN <<>> ELSE wire[c]]
      /\ UNCHANGED <<conn, known, callbacks, starter, listeners, work>>
  BY DEF T!Stop, T!Disconnect
<1>2. <<>> \in Seq(Nat)
  OBVIOUS
<1>3. spent' \in [ticks : Nat, breaks : Nat, calls : Nat] /\ spent'.ticks = spent.ticks
  BY <1>1, SpendIs
<1>4. BusTypes'
  BY <1>1, <1>2, <1>3 DEF BusTypes
<1>5. HeardOnce'
  BY <1>1 DEF HeardOnce, Current, BusTypes
<1>6. WireInOrder' /\ T!WorksOnceInOrder'
  BY <1>1, <1>3, OrderStays DEF WireInOrder
<1>7. Rests /\ T!MayListen' = T!MayListen
  BY <1>1 DEF Rests, T!Working, T!Waiting, T!MayListen
<1>8. TicksInHand'
  BY <1>1, <1>3, <1>7, RestingTicks DEF WireGoesOn, OnceMore
<1>. QED
  BY <1>4, <1>5, <1>6, <1>8

LEMMA SubscribeKeeps ==
  ASSUME BusInv, T!Waiting, NEW c \in Channels, T!Subscribe(c) PROVE BusInv'
<1>. USE DEF BusInv
<1>1. /\ starter.waits = {} /\ c \in starter.todo
      /\ UNCHANGED <<conn, wire, listeners, spent, work>>
      /\ \/ /\ c \in known /\ callbacks' = [callbacks EXCEPT ![c] = @ + 1]
            /\ starter' = [starter EXCEPT !.todo = @ \ {c}] /\ UNCHANGED <<known, heard>>
         \/ /\ c \notin known /\ known' = known \union {c}
            /\ heard' = [heard EXCEPT ![c] = conn]
            /\ starter' = [starter EXCEPT !.waits = {c}] /\ UNCHANGED callbacks
  BY DEF T!Subscribe
<1>2. BusTypes' /\ HeardOnce'
  <2>1. CASE /\ c \in known /\ callbacks' = [callbacks EXCEPT ![c] = @ + 1]
             /\ starter' = [starter EXCEPT !.todo = @ \ {c}] /\ UNCHANGED <<known, heard>>
    <3>1. /\ starter'.todo = starter.todo \ {c} /\ starter'.waits = {}
          /\ starter' \in [todo : SUBSET Channels, waits : SUBSET Channels]
      BY <1>1, <2>1 DEF BusTypes
    <3>2. ~Current(c)
      BY <1>1 DEF HeardOnce
    <3>3. BusTypes'
      <4>1. callbacks' \in [Channels -> Nat]
        BY <2>1 DEF BusTypes
      <4>. QED
        BY <1>1, <2>1, <3>1, <4>1 DEF BusTypes
    <3>4. \A d \in Channels : callbacks'[d] = IF d = c THEN callbacks[c] + 1 ELSE callbacks[d]
      BY <2>1 DEF BusTypes
    <3>. QED
      BY <1>1, <2>1, <3>1, <3>2, <3>3, <3>4 DEF HeardOnce, Current
  <2>2. CASE /\ c \notin known /\ known' = known \union {c}
             /\ heard' = [heard EXCEPT ![c] = conn]
             /\ starter' = [starter EXCEPT !.waits = {c}] /\ UNCHANGED callbacks
    <3>1. /\ starter'.todo = starter.todo /\ starter'.waits = {c}
          /\ starter' \in [todo : SUBSET Channels, waits : SUBSET Channels]
      BY <1>1, <2>2 DEF BusTypes
    <3>2. \A d \in Channels : heard'[d] = IF d = c THEN conn ELSE heard[d]
      BY <2>2 DEF BusTypes
    <3>3. BusTypes'
      BY <1>1, <2>2, <3>1 DEF BusTypes
    <3>4. conn \in Nat /\ callbacks[c] = 0
      BY <2>2 DEF HeardOnce, BusTypes
    <3>. QED
      BY <1>1, <2>2, <3>1, <3>2, <3>3, <3>4 DEF HeardOnce, Current
  <2>. QED
    BY <1>1, <2>1, <2>2
<1>4. WireInOrder' /\ T!WorksOnceInOrder'
  <2>1. \A d \in Channels : heard'[d] = 0 => wire'[d] = <<>>
    BY <1>1 DEF WireInOrder, HeardOnce, BusTypes
  <2>. QED
    BY <1>1, <2>1, OrderStays
<1>5. Rests /\ T!MayListen' = T!MayListen
  BY <1>1 DEF Rests, T!Working, T!Waiting, T!MayListen
<1>6. ASSUME NEW d \in Channels, OnceMore(d) PROVE OnceMore(d)'
  BY <1>1, <1>6 DEF OnceMore, HeardOnce, Current, BusTypes
<1>7. TicksInHand'
  BY <1>1, <1>5, <1>6, RestingTicks DEF WireGoesOn
<1>. QED
  BY <1>2, <1>4, <1>7

LEMMA SubscribedKeeps ==
  ASSUME BusInv, T!Waiting, NEW c \in Channels, T!Subscribed(c) PROVE BusInv'
<1>. USE DEF BusInv
<1>1. /\ c \in starter.waits /\ callbacks' = [callbacks EXCEPT ![c] = @ + 1]
      /\ starter' = [todo |-> starter.todo \ {c}, waits |-> {}]
      /\ UNCHANGED <<conn, known, heard, wire, listeners, spent, work>>
  BY DEF T!Subscribed
<1>2. BusTypes'
  BY <1>1 DEF BusTypes
<1>3. HeardOnce'
  BY <1>1 DEF HeardOnce, Current, BusTypes
<1>4. WireInOrder' /\ T!WorksOnceInOrder'
  BY <1>1, OrderStays DEF WireInOrder
<1>5. Rests /\ T!MayListen' = T!MayListen
  BY <1>1 DEF Rests, T!Working, T!Waiting, T!MayListen
<1>6. ASSUME NEW d \in Channels, OnceMore(d) PROVE OnceMore(d)'
  BY <1>1, <1>6 DEF OnceMore, HeardOnce, Current, BusTypes
<1>7. TicksInHand'
  BY <1>1, <1>5, <1>6, RestingTicks DEF WireGoesOn
<1>. QED
  BY <1>2, <1>3, <1>4, <1>7

LEMMA SubscribeFailsKeeps ==
  ASSUME BusInv, T!Waiting, NEW c \in Channels, T!SubscribeFails(c) PROVE BusInv'
<1>. USE DEF BusInv
<1>1. /\ c \in starter.waits /\ starter' = [todo |-> {}, waits |-> {}]
      /\ heard' = [heard EXCEPT ![c] = 0] /\ wire' = [wire EXCEPT ![c] = <<>>]
      /\ UNCHANGED <<conn, known, callbacks, listeners, spent, work>>
  BY DEF T!SubscribeFails
<1>2. <<>> \in Seq(Nat)
  OBVIOUS
<1>3. BusTypes'
  BY <1>1, <1>2 DEF BusTypes
<1>4. HeardOnce'
  BY <1>1 DEF HeardOnce, Current, BusTypes
<1>5. WireInOrder' /\ T!WorksOnceInOrder'
  <2>1. \A d \in Channels : /\ wire'[d] = wire[d] \/ wire'[d] = <<>>
                            /\ heard'[d] = 0 => wire'[d] = <<>>
    BY <1>1 DEF WireInOrder, BusTypes
  <2>. QED
    BY <1>1, <2>1, OrderStays
<1>6. Rests /\ T!MayListen' = T!MayListen
  BY <1>1 DEF Rests, T!Working, T!Waiting, T!MayListen
<1>7. ASSUME NEW d \in Channels, OnceMore(d) PROVE OnceMore(d)'
  BY <1>1, <1>7 DEF OnceMore
<1>8. \A d \in Channels : WireGoesOn(d)
  BY <1>1 DEF WireGoesOn, BusTypes
<1>9. TicksInHand'
  BY <1>1, <1>6, <1>7, <1>8, RestingTicks
<1>. QED
  BY <1>3, <1>4, <1>5, <1>9

LEMMA PublishKeeps ==
  ASSUME BusInv, T!Waiting, NEW c \in Channels, T!Publish(c) PROVE BusInv'
<1>. USE DEF BusInv
<1>1. /\ T!Spend("ticks")
      /\ wire' = IF heard[c] # 0 THEN [wire EXCEPT ![c] = Append(@, spent.ticks + 1)] ELSE wire
      /\ UNCHANGED <<conn, known, callbacks, heard, starter, listeners, work>>
  BY DEF T!Publish
<1>2. spent'.ticks = spent.ticks + 1 /\ spent.ticks \in Nat
      /\ spent' \in [ticks : Nat, breaks : Nat, calls : Nat]
  BY <1>1, SpendIs, TypesAre
<1>3. \A d \in Channels : /\ wire[d] \in Seq(Nat) /\ WireGoesOn(d)
                          /\ wire'[d] = wire[d] \/ (d = c /\ heard[c] # 0
                                /\ wire'[d] = Append(wire[d], spent.ticks + 1))
  BY <1>1 DEF BusTypes, WireGoesOn
<1>4. wire' \in [Channels -> Seq(Nat)]
  <2>1. Append(wire[c], spent.ticks + 1) \in Seq(Nat)
    BY <1>2, <1>3
  <2>. QED
    BY <1>1, <2>1 DEF BusTypes
<1>5. BusTypes'
  BY <1>1, <1>2, <1>4 DEF BusTypes
<1>6. HeardOnce'
  BY <1>1 DEF HeardOnce, Current
<1>7. WireInOrder'
  <2>1. \A w \in 1 .. Len(work) : work[w].tick <= spent.ticks /\ work[w].tick \in Nat
    BY TypesAre DEF WireInOrder
  <2>2. ASSUME NEW d \in Channels, NEW i \in 1 .. Len(wire'[d])
        PROVE  /\ wire'[d][i] <= spent.ticks + 1 /\ Newer(d, wire'[d][i])
               /\ \A j \in 1 .. Len(wire'[d]) : i < j => wire'[d][i] < wire'[d][j]
    <3>1. CASE wire'[d] = wire[d]
      BY <1>2, <1>3, <2>2, <3>1 DEF WireInOrder
    <3>2. CASE wire'[d] = Append(wire[d], spent.ticks + 1)
      <4>1. /\ Len(wire'[d]) = Len(wire[d]) + 1 /\ Len(wire[d]) \in Nat
            /\ wire'[d][Len(wire[d]) + 1] = spent.ticks + 1
            /\ \A j \in 1 .. Len(wire[d]) : wire'[d][j] = wire[d][j] /\ wire[d][j] \in Nat
        <5>1. wire[d] \in Seq(Nat) /\ spent.ticks + 1 \in Nat
          BY <1>2, <1>3
        <5>. QED
          BY <3>2, <5>1
      <4>2. \A j \in 1 .. Len(wire[d]) : wire[d][j] <= spent.ticks /\ Newer(d, wire[d][j])
        BY DEF WireInOrder
      <4>3. \A j, k \in 1 .. Len(wire[d]) : j < k => wire[d][j] < wire[d][k]
        BY DEF WireInOrder
      <4>4. Newer(d, spent.ticks + 1)
        BY <1>2, <2>1 DEF Newer
      <4>5. CASE i = Len(wire[d]) + 1
        BY <1>2, <4>1, <4>4, <4>5
      <4>6. CASE i \in 1 .. Len(wire[d])
        <5>1. \A j \in 1 .. Len(wire'[d]) : i < j => wire'[d][i] < wire'[d][j]
          <6> SUFFICES ASSUME NEW j \in 1 .. Len(wire'[d]), i < j PROVE wire'[d][i] < wire'[d][j]
            OBVIOUS
          <6>1. CASE j = Len(wire[d]) + 1
            <7>1. wire'[d][j] = spent.ticks + 1 /\ wire'[d][i] = wire[d][i]
                  /\ wire[d][i] <= spent.ticks /\ wire[d][i] \in Nat
              BY <4>1, <4>2, <4>6, <6>1
            <7>. QED
              BY <1>2, <7>1
          <6>2. CASE j \in 1 .. Len(wire[d])
            BY <4>1, <4>3, <4>6, <6>2
          <6>. QED
            BY <4>1, <6>1, <6>2
        <5>2. wire'[d][i] = wire[d][i] /\ wire[d][i] <= spent.ticks /\ wire[d][i] \in Nat
              /\ Newer(d, wire[d][i])
          BY <4>1, <4>2, <4>6
        <5>3. wire'[d][i] <= spent.ticks + 1 /\ Newer(d, wire'[d][i])
          BY <1>2, <5>2
        <5>. QED
          BY <5>1, <5>3
      <4>. QED
        BY <2>2, <4>1, <4>5, <4>6
    <3>. QED
      BY <1>3, <3>1, <3>2
  <2>3. \A d \in Channels : heard'[d] = 0 => wire'[d] = <<>>
    BY <1>1, <1>3 DEF WireInOrder
  <2>4. \A d \in Channels : \A n : Newer(d, n)' <=> Newer(d, n)
    BY <1>1 DEF Newer
  <2>5. \A w \in 1 .. Len(work') : work'[w].tick <= spent'.ticks
    BY <1>1, <1>2, <2>1
  <2>6. \A d \in Channels : \A i \in 1 .. Len(wire'[d]) :
          /\ wire'[d][i] <= spent'.ticks /\ Newer(d, wire'[d][i])
          /\ \A j \in 1 .. Len(wire'[d]) : i < j => wire'[d][i] < wire'[d][j]
    BY <1>2, <2>2
  <2>7. \A d \in Channels : \A i \in 1 .. Len(wire'[d]) : Newer(d, wire[d][i])'
    BY <1>1, <2>6 DEF Newer
  <2>. QED
    BY <2>3, <2>5, <2>6, <2>7 DEF WireInOrder
<1>8. T!WorksOnceInOrder'
  BY <1>1 DEF T!WorksOnceInOrder
<1>9. Rests /\ T!MayListen' = T!MayListen
  BY <1>1 DEF Rests, T!Working, T!Waiting, T!MayListen
<1>10. TicksInHand'
  BY <1>1, <1>2, <1>3, <1>9, RestingTicks DEF OnceMore
<1>. QED
  BY <1>5, <1>6, <1>7, <1>8, <1>10

(* A listener that reads sleeps, ends or reads on.                         *)
LEMMA ListenerRests ==
  ASSUME BusInv, T!Waiting, NEW l \in T!MayListen,
         T!ReadFails(l) \/ T!ReadsOn(l) \/ T!ListenerEnds(l)
  PROVE  BusInv'
<1>. USE DEF BusInv
<1>1. /\ listeners[l].at = "reading"
      /\ \E v \in {T!Asleep, T!Gone, T!Reading(conn)} : listeners' = [listeners EXCEPT ![l] = v]
      /\ spent' = spent \/ T!Spend("breaks")
      /\ UNCHANGED <<conn, known, callbacks, heard, wire, starter, work>>
  BY DEF T!ReadFails, T!ReadsOn, T!ListenerEnds, T!link
<1>2. PICK v \in {T!Asleep, T!Gone, T!Reading(conn)} : listeners' = [listeners EXCEPT ![l] = v]
  BY <1>1
<1>3. v \in Listening /\ v.at # "tick"
  BY DEF Listening, T!Asleep, T!Gone, T!Reading, BusTypes
<1>4. /\ T!MayListen' = T!MayListen /\ listeners'[l] = v
      /\ \A m \in T!MayListen : m # l => listeners'[m] = listeners[m]
      /\ listeners' \in [1 .. MaxBreaks + MaxCalls -> Listening]
  BY <1>2, <1>3, OneListener
<1>5. spent'.ticks = spent.ticks /\ spent' \in [ticks : Nat, breaks : Nat, calls : Nat]
  BY <1>1, SpendIs DEF BusTypes
<1>6. BusTypes'
  BY <1>1, <1>4, <1>5 DEF BusTypes
<1>7. HeardOnce'
  BY <1>1 DEF HeardOnce, Current
<1>8. WireInOrder' /\ T!WorksOnceInOrder'
  BY <1>1, <1>5, OrderStays DEF WireInOrder
<1>9. Rests
  BY <1>3, <1>4 DEF Rests, T!Working, T!Waiting
<1>10. TicksInHand'
  BY <1>1, <1>4, <1>5, <1>9, RestingTicks DEF WireGoesOn, OnceMore
<1>. QED
  BY <1>6, <1>7, <1>8, <1>10

(* What the head and the rest of a wire are.                               *)
LEMMA HeadAndTail ==
  ASSUME NEW q \in Seq(Nat), q # <<>>
  PROVE  /\ Head(q) = q[1] /\ Head(q) \in Nat /\ 1 \in 1 .. Len(q) /\ Tail(q) \in Seq(Nat)
         /\ Len(Tail(q)) = Len(q) - 1
         /\ \A i \in 1 .. Len(Tail(q)) : i + 1 \in 1 .. Len(q) /\ Tail(q)[i] = q[i + 1]
OBVIOUS

LEMMA TakeKeeps ==
  ASSUME BusInv, T!Waiting, NEW l \in T!MayListen, NEW c \in Channels, T!TakeMessage(l, c)
  PROVE  BusInv'
<1>. USE DEF BusInv
<1>0. PICK k : k = [at |-> "tick", on |-> heard[c], symbol |-> c, tick |-> Head(wire[c]),
                    place |-> 0, unsent |-> {}]
  OBVIOUS
<1>1. /\ listeners[l].at = "reading" /\ wire[c] # <<>>
      /\ listeners' = [listeners EXCEPT ![l] = k]
      /\ wire' = [wire EXCEPT ![c] = Tail(@)]
      /\ UNCHANGED <<conn, known, callbacks, heard, starter, spent, work>>
  BY <1>0 DEF T!TakeMessage
<1>2. /\ Head(wire[c]) = wire[c][1] /\ Head(wire[c]) \in Nat /\ 1 \in 1 .. Len(wire[c])
      /\ Tail(wire[c]) \in Seq(Nat) /\ Len(Tail(wire[c])) = Len(wire[c]) - 1
      /\ \A i \in 1 .. Len(Tail(wire[c])) :
           i + 1 \in 1 .. Len(wire[c]) /\ Tail(wire[c])[i] = wire[c][i + 1]
  BY <1>1, HeadAndTail DEF BusTypes
<1>3. k \in Listening /\ k.at = "tick" /\ k.symbol = c /\ k.tick = wire[c][1] /\ k.on = heard[c]
      /\ k.place = 0 /\ k.unsent = {}
  BY <1>0, <1>2 DEF Listening, BusTypes
<1>4. /\ T!MayListen' = T!MayListen /\ listeners'[l] = k
      /\ \A m \in T!MayListen : m # l => listeners'[m] = listeners[m]
      /\ listeners' \in [1 .. MaxBreaks + MaxCalls -> Listening]
  BY <1>1, <1>3, OneListener
<1>5. \A d \in Channels : IF d = c THEN wire'[d] = Tail(wire[c]) ELSE wire'[d] = wire[d]
  BY <1>1 DEF BusTypes
<1>6. BusTypes'
  BY <1>1, <1>2, <1>4 DEF BusTypes
<1>7. HeardOnce'
  BY <1>1 DEF HeardOnce, Current
<1>8. WireInOrder'
  <2>1. \A d \in Channels : heard'[d] = 0 => wire'[d] = <<>>
    BY <1>1, <1>5 DEF WireInOrder
  <2>2. ASSUME NEW d \in Channels, NEW i \in 1 .. Len(wire'[d])
        PROVE  /\ wire'[d][i] <= spent.ticks /\ Newer(d, wire'[d][i])
               /\ \A j \in 1 .. Len(wire'[d]) : i < j => wire'[d][i] < wire'[d][j]
    <3>1. CASE d # c
      BY <1>5, <2>2, <3>1 DEF WireInOrder
    <3>2. CASE d = c
      <4>1. wire'[d] = Tail(wire[c])
        BY <1>5, <3>2
      <4>2. /\ \A j \in 1 .. Len(wire[c]) : wire[c][j] <= spent.ticks /\ Newer(c, wire[c][j])
            /\ \A j, n \in 1 .. Len(wire[c]) : j < n => wire[c][j] < wire[c][n]
        BY DEF WireInOrder
      <4>3. \A j \in 1 .. Len(wire'[d]) : i < j => wire'[d][i] < wire'[d][j]
        BY <1>2, <2>2, <4>1, <4>2
      <4>. QED
        BY <1>2, <2>2, <3>2, <4>1, <4>2, <4>3
    <3>. QED
      BY <3>1, <3>2
  <2>3. \A d \in Channels : \A i \in 1 .. Len(wire'[d]) : Newer(d, wire[d][i])'
    BY <1>1, <2>2 DEF Newer
  <2>. QED
    BY <1>1, <2>1, <2>2, <2>3 DEF WireInOrder
<1>9. T!WorksOnceInOrder'
  BY <1>1 DEF T!WorksOnceInOrder
<1>10. InHand(k)'
  <2>1. k.tick <= spent.ticks /\ Newer(c, k.tick)
    BY <1>2, <1>3 DEF WireInOrder
  <2>2. \A i \in 1 .. Len(wire'[c]) : k.tick < wire'[c][i]
    <3>1. \A j \in 1 .. Len(wire[c]) : 1 < j => wire[c][1] < wire[c][j]
      BY <1>2 DEF WireInOrder
    <3>2. SUFFICES ASSUME NEW i \in 1 .. Len(Tail(wire[c])) PROVE wire[c][1] < Tail(wire[c])[i]
      BY <1>3, <1>5
    <3>3. i + 1 \in 1 .. Len(wire[c]) /\ Tail(wire[c])[i] = wire[c][i + 1] /\ 1 < i + 1
      BY <1>2
    <3>. QED
      BY <3>1, <3>3
  <2>3. k.on # 0 /\ k.on <= conn /\ (k.on = conn => Current(c))
    BY <1>1, <1>3 DEF WireInOrder, HeardOnce, Current, BusTypes
  <2>4. k.on = conn => callbacks[c] <= 1 /\ heard[c] = conn
    BY <2>3 DEF HeardOnce, Current
  <2>. QED
    <3>1. Ahead(c, k.tick)' /\ Newer(c, k.tick)'
      BY <1>1, <2>1, <2>2 DEF Ahead, Newer
    <3>. QED
      BY <1>1, <1>3, <2>1, <2>3, <2>4, <3>1 DEF InHand
<1>11. TicksInHand'
  <2>1. ASSUME NEW m \in T!MayListen, m # l, T!Working(m)' PROVE InHand(listeners[m])'
    <3>1. T!Working(m) /\ listeners'[m] = listeners[m] /\ InHand(listeners[m])
      BY <1>4, <2>1 DEF T!Working, TicksInHand
    <3>2. Ahead(listeners[m].symbol, listeners[m].tick)'
      <4>1. CASE listeners[m].symbol = c
        <5>1. \A i \in 1 .. Len(wire[c]) : listeners[m].tick < wire[c][i]
          BY <3>1, <4>1 DEF InHand, Ahead
        <5>2. ASSUME NEW i \in 1 .. Len(Tail(wire[c])) PROVE listeners[m].tick < Tail(wire[c])[i]
          BY <1>2, <5>1
        <5>. QED
          BY <1>5, <3>1, <4>1, <5>2 DEF Ahead
      <4>2. CASE listeners[m].symbol # c
        <5>1. listeners[m].symbol \in Channels
          BY <3>1, TickFields
        <5>. QED
          BY <1>5, <3>1, <4>2, <5>1 DEF InHand, Ahead
      <4>. QED
        BY <4>1, <4>2
    <3>. QED
      BY <1>1, <3>1, <3>2 DEF InHand, Newer
  <2>2. \A m \in T!MayListen : m # l => ~T!GoesOn(m)'
    BY <1>4 DEF T!Waiting, T!GoesOn, T!Working
  <2>3. InHand(listeners[l])'
    BY <1>4, <1>10 DEF InHand, Ahead, Newer
  <2>4. \A m \in T!MayListen : T!Working(m)' => InHand(listeners[m])'
    BY <2>1, <2>3
  <2>. QED
    BY <1>4, <2>2, <2>4 DEF TicksInHand
<1>. QED
  BY <1>6, <1>7, <1>8, <1>9, <1>11

(* The strategies are handed the tick: the only listener that goes on has  *)
(* not handed it over before, if its connection is the current one.        *)
LEMMA OnTickKeeps ==
  ASSUME BusInv, NEW l \in T!MayListen, T!OnTick(l) PROVE BusInv'
<1>. USE DEF BusInv
<1>0. PICK k : k = listeners[l]
  OBVIOUS
<1>1. T!GoesOn(l) /\ T!Working(l) /\ k.place < callbacks[k.symbol]
      /\ UNCHANGED <<conn, known, callbacks, heard, wire, starter, spent>>
  BY <1>0 DEF T!OnTick, T!GoesOn, T!link
<1>2. /\ k \in [at : {"tick"}, on : Nat, symbol : Channels, tick : Nat,
                place : Nat, unsent : SUBSET Strategies]
      /\ k.on \in Nat /\ k.symbol \in Channels /\ k.tick \in Nat /\ k.place \in Nat
      /\ InHand(k)
  BY <1>0, <1>1, TickFields DEF TicksInHand
<1>3. PICK some \in SUBSET Strategies :
        listeners' = [listeners EXCEPT ![l].place = @ + 1, ![l].unsent = some]
  BY DEF T!OnTick
<1>v. PICK v : v = [k EXCEPT !.place = k.place + 1, !.unsent = some]
  OBVIOUS
<1>4. /\ v \in Listening /\ v.at = "tick" /\ v.on = k.on /\ v.symbol = k.symbol
      /\ v.tick = k.tick /\ v.place = k.place + 1
  <2>0. k.place + 1 \in Nat
    BY <1>2
  <2>1. PICK u : u = [k EXCEPT !.place = k.place + 1]
    OBVIOUS
  <2>2. /\ u \in [at : {"tick"}, on : Nat, symbol : Channels, tick : Nat,
                  place : Nat, unsent : SUBSET Strategies]
        /\ u.on = k.on /\ u.symbol = k.symbol /\ u.tick = k.tick /\ u.place = k.place + 1
    BY <1>2, <2>0, <2>1
  <2>3. v = [u EXCEPT !.unsent = some]
    BY <1>v, <2>1
  <2>4. /\ v \in [at : {"tick"}, on : Nat, symbol : Channels, tick : Nat,
                  place : Nat, unsent : SUBSET Strategies]
        /\ v.on = u.on /\ v.symbol = u.symbol /\ v.tick = u.tick /\ v.place = u.place
    BY <2>2, <2>3
  <2>. QED
    BY <2>2, <2>4 DEF Listening
<1>5. listeners' = [listeners EXCEPT ![l] = v]
  BY <1>0, <1>3, <1>v DEF BusTypes, T!MayListen
<1>6. /\ T!MayListen' = T!MayListen /\ listeners'[l] = v
      /\ \A m \in T!MayListen : m # l => listeners'[m] = listeners[m]
      /\ listeners' \in [1 .. MaxBreaks + MaxCalls -> Listening]
  BY <1>4, <1>5, OneListener
<1>d. PICK done : done = [symbol |-> k.symbol, tick |-> k.tick, current |-> k.on = conn]
  OBVIOUS
<1>7. work' = work \/ work' = Append(work, done)
  BY <1>0, <1>d DEF T!OnTick
<1>8. done \in [symbol : Channels, tick : Nat, current : BOOLEAN] /\ done.symbol = k.symbol
      /\ done.tick = k.tick /\ (done.current <=> k.on = conn)
  BY <1>2, <1>d
<1>9. /\ work' \in Seq([symbol : Channels, tick : Nat, current : BOOLEAN])
      /\ Len(work) \in Nat /\ Len(work') \in {Len(work), Len(work) + 1}
      /\ \A i \in 1 .. Len(work) : work'[i] = work[i] /\ work[i].tick \in Nat
      /\ \A i \in 1 .. Len(work') : i \notin 1 .. Len(work) => i = Len(work) + 1 /\ work'[i] = done
      /\ DOMAIN work = 1 .. Len(work) /\ DOMAIN work' = 1 .. Len(work')
  <2>1. work \in Seq([symbol : Channels, tick : Nat, current : BOOLEAN])
    BY DEF BusTypes
  <2>2. CASE work' = work
    BY <2>1, <2>2, Members, TypesAre
  <2>3. CASE work' = Append(work, done)
    <3>1. done \in [symbol : Channels, tick : Nat, current : BOOLEAN]
      BY <1>8
    <3>2. work' \in Seq([symbol : Channels, tick : Nat, current : BOOLEAN])
          /\ Len(work) \in Nat /\ Len(work') = Len(work) + 1 /\ work'[Len(work) + 1] = done
      BY <2>1, <2>3, <3>1
    <3>3. \A i \in 1 .. Len(work) : work'[i] = work[i] /\ work[i].tick \in Nat
      BY <2>1, <2>3, <3>1, TypesAre
    <3>. QED
      BY <2>1, <3>2, <3>3
  <2>. QED
    BY <1>7, <2>2, <2>3
<1>10. BusTypes'
  BY <1>1, <1>6, <1>9 DEF BusTypes
<1>11. HeardOnce'
  BY <1>1 DEF HeardOnce, Current
<1>12. ASSUME NEW d \in Channels, NEW n \in Nat, Newer(d, n), d = k.symbol => k.tick < n
       PROVE  Newer(d, n)'
  BY <1>2, <1>8, <1>9, <1>12 DEF Newer
<1>13. WireInOrder'
  <2>1. \A w \in 1 .. Len(work') : work'[w].tick <= spent.ticks
    BY <1>2, <1>8, <1>9 DEF WireInOrder, InHand
  <2>2. ASSUME NEW d \in Channels, NEW i \in 1 .. Len(wire[d]) PROVE Newer(d, wire[d][i])'
    <3>1. PICK n \in Nat : n = wire[d][i]
      BY DEF BusTypes
    <3>2. Newer(d, n) /\ (d = k.symbol => k.tick < n)
      BY <1>2, <3>1 DEF InHand, Ahead, WireInOrder
    <3>3. Newer(d, n)'
      BY <1>12, <3>2
    <3>. QED
      BY <1>1, <3>1, <3>3 DEF Newer
  <2>3. \A d \in Channels : \A i \in 1 .. Len(wire[d]) : Newer(d, wire[d][i])'
    BY <2>2
  <2>. QED
    BY <1>1, <2>1, <2>3 DEF WireInOrder
<1>14. T!WorksOnceInOrder'
  <2>1. \A j \in 1 .. Len(work) : \A i \in 1 .. j - 1 :
          work[j].current /\ work[i].symbol = work[j].symbol => work[i].tick < work[j].tick
    BY <1>9 DEF T!WorksOnceInOrder
  <2>2. ASSUME NEW j \in 1 .. Len(work'), NEW i \in 1 .. j - 1,
               work'[j].current, work'[i].symbol = work'[j].symbol
        PROVE  work'[i].tick < work'[j].tick
    <3>1. CASE j \in 1 .. Len(work)
      <4>1. i \in 1 .. j - 1 /\ j \in 1 .. Len(work) /\ Len(work) \in Nat
        BY <1>9, <2>2, <3>1
      <4>2. i \in 1 .. Len(work)
        BY <4>1
      <4>. QED
        BY <1>9, <2>1, <2>2, <3>1, <4>1, <4>2
    <3>2. CASE j \notin 1 .. Len(work)
      <4>1. j = Len(work) + 1 /\ work'[j] = done /\ i \in 1 .. Len(work) /\ work'[i] = work[i]
        <5>1. j \in 1 .. Len(work') /\ i \in 1 .. j - 1
          BY <2>2
        <5>2. j = Len(work) + 1 /\ work'[j] = done
          BY <1>9, <3>2, <5>1
        <5>3. i \in 1 .. Len(work) /\ Len(work) \in Nat
          <6>1. Len(work) \in Nat
            BY TypesAre
          <6>2. j - 1 = Len(work)
            BY <5>2, <6>1
          <6>. QED
            BY <5>1, <6>1, <6>2
        <5>. QED
          BY <1>9, <5>2, <5>3
      <4>2. k.on = conn /\ work[i].symbol = k.symbol /\ work'[j].tick = k.tick
        BY <1>8, <2>2, <4>1
      <4>3. callbacks[k.symbol] <= 1 /\ callbacks[k.symbol] \in Nat
        BY <1>2, <4>2 DEF InHand, BusTypes
      <4>4. k.place = 0
        BY <1>1, <1>2, <4>3
      <4>5. Newer(k.symbol, k.tick)
        BY <1>2, <4>4 DEF InHand
      <4>. QED
        BY <4>1, <4>2, <4>5 DEF Newer
    <3>. QED
      BY <3>1, <3>2
  <2>3. \A j \in 1 .. Len(work') : \A i \in 1 .. j - 1 :
          work'[j].current /\ work'[i].symbol = work'[j].symbol => work'[i].tick < work'[j].tick
    BY <2>2
  <2>. QED
    BY <1>9, <2>3 DEF T!WorksOnceInOrder
<1>15. TicksInHand'
  <2>1. InHand(v)'
    BY <1>1, <1>2, <1>4, TypesAre DEF InHand, Ahead
  <2>2. \A m \in T!MayListen : m # l => ~T!GoesOn(m)
    BY <1>1 DEF TicksInHand
  <2>3. ASSUME NEW m \in T!MayListen, m # l, T!Working(m)' PROVE InHand(listeners[m])'
    <3>1. T!Working(m) /\ listeners'[m] = listeners[m] /\ InHand(listeners[m])
      BY <1>6, <2>3 DEF T!Working, TicksInHand
    <3>2. listeners[m].place # 0
      BY <2>2, <2>3, <3>1 DEF T!GoesOn, InHand
    <3>. QED
      BY <1>1, <3>1, <3>2 DEF InHand, Ahead
  <2>4. \A m \in T!MayListen : m # l => ~T!GoesOn(m)'
    BY <1>6, <2>2 DEF T!GoesOn, T!Working
  <2>5. InHand(listeners[l])'
    BY <1>6, <2>1 DEF InHand, Ahead, Newer
  <2>6. \A m \in T!MayListen : T!Working(m)' => InHand(listeners[m])'
    BY <2>3, <2>5
  <2>. QED
    BY <1>6, <2>4, <2>6 DEF TicksInHand
<1>. QED
  BY <1>10, <1>11, <1>13, <1>14, <1>15

(* A listener that hands nothing over: others keep what they had.          *)
LEMMA HandsNothing ==
  ASSUME BusInv, NEW l \in T!MayListen, NEW v \in Listening,
         listeners' = [listeners EXCEPT ![l] = v],
         UNCHANGED <<conn, known, callbacks, heard, wire, starter, spent, work>>,
         v.at = "tick" => InHand(v),
         \A m \in T!MayListen : m # l => ~T!GoesOn(m)
  PROVE  BusInv'
<1>. USE DEF BusInv
<1>1. /\ T!MayListen' = T!MayListen /\ listeners'[l] = v
      /\ \A m \in T!MayListen : m # l => listeners'[m] = listeners[m]
      /\ listeners' \in [1 .. MaxBreaks + MaxCalls -> Listening]
  BY OneListener
<1>2. BusTypes'
  BY <1>1 DEF BusTypes
<1>3. HeardOnce'
  BY DEF HeardOnce, Current
<1>4. WireInOrder' /\ T!WorksOnceInOrder'
  BY OrderStays DEF WireInOrder
<1>5. \A m \in T!MayListen : m # l => ~T!GoesOn(m)'
  BY <1>1 DEF T!GoesOn, T!Working
<1>6. ASSUME NEW m \in T!MayListen, T!Working(m)' PROVE InHand(listeners[m])'
  <2>1. InHand(listeners'[m])
    BY <1>1, <1>6 DEF T!Working, TicksInHand
  <2>. QED
    BY <2>1 DEF InHand, Ahead, Newer
<1>. QED
  BY <1>1, <1>2, <1>3, <1>4, <1>5, <1>6 DEF TicksInHand

LEMMA PublishSignalKeeps ==
  ASSUME BusInv, T!Waiting, NEW l \in T!MayListen, NEW s \in Strategies, T!PublishSignal(l, s)
  PROVE  BusInv'
<1>. DEFINE k == listeners[l]  v == [k EXCEPT !.unsent = @ \ {s}]
<1>1. T!Working(l) /\ s \in k.unsent
      /\ UNCHANGED <<conn, known, callbacks, heard, wire, starter, spent, work>>
  BY DEF T!PublishSignal, T!link
<1>2. /\ k \in [at : {"tick"}, on : Nat, symbol : Channels, tick : Nat,
                place : Nat, unsent : SUBSET Strategies]
      /\ InHand(k)
  BY <1>1, TickFields DEF BusInv, TicksInHand
<1>3. /\ v \in Listening /\ v.on = k.on /\ v.symbol = k.symbol
      /\ v.tick = k.tick /\ v.place = k.place
  BY <1>2 DEF Listening
<1>4. listeners' = [listeners EXCEPT ![l] = v]
  BY DEF T!PublishSignal, BusInv, BusTypes, T!MayListen
<1>5. InHand(v)
  <2>1. k.place # 0
    BY <1>1, <1>2 DEF InHand
  <2>. QED
    BY <1>2, <1>3, <2>1 DEF InHand, Ahead
<1>. HIDE DEF v
<1>. QED
  BY <1>1, <1>3, <1>4, <1>5, HandsNothing DEF T!Waiting

LEMMA MessageDoneKeeps ==
  ASSUME BusInv, NEW l \in T!MayListen, T!MessageDone(l) PROVE BusInv'
<1>1. /\ T!GoesOn(l) /\ listeners' = [listeners EXCEPT ![l] = T!Reading(conn)]
      /\ UNCHANGED <<conn, known, callbacks, heard, wire, starter, spent, work>>
  BY DEF T!MessageDone, T!link
<1>2. T!Reading(conn) \in Listening /\ T!Reading(conn).at # "tick"
  BY DEF T!Reading, Listening, BusInv, BusTypes
<1>3. \A m \in T!MayListen : m # l => ~T!GoesOn(m)
  BY <1>1 DEF BusInv, TicksInHand
<1>. QED
  BY <1>1, <1>2, <1>3, HandsNothing

LEMMA BusInvInit == ASSUME T!Init PROVE BusInv
<1>. USE DEF T!Init
<1>1. <<>> \in Seq(Nat) /\ <<>> \in Seq([symbol : Channels, tick : Nat, current : BOOLEAN])
  OBVIOUS
<1>2. T!Gone \in Listening /\ T!Gone.at = "gone"
  BY DEF Listening, T!Gone
<1>3. BusTypes
  BY <1>1, <1>2 DEF BusTypes
<1>4. HeardOnce
  BY DEF HeardOnce, Current
<1>5. Len(work) = 0
  OBVIOUS
<1>6. \A c \in Channels : Len(wire[c]) = 0
  OBVIOUS
<1>7. WireInOrder
  BY <1>5, <1>6 DEF WireInOrder
<1>8. T!WorksOnceInOrder
  BY DEF T!WorksOnceInOrder
<1>9. \A l \in T!MayListen : ~T!Working(l)
  BY <1>2 DEF T!Working, T!MayListen
<1>10. TicksInHand
  BY <1>9 DEF TicksInHand, T!GoesOn
<1>. QED
  BY <1>3, <1>4, <1>7, <1>8, <1>10 DEF BusInv

LEMMA BusInvKept == ASSUME BusInv, [T!Next]_(T!vars) PROVE BusInv'
<1>1. CASE UNCHANGED T!vars
  BY <1>1 DEF T!vars, BusInv, BusTypes, HeardOnce, Current, WireInOrder, Newer, Ahead, TicksInHand,
              InHand, T!MayListen, T!Working, T!GoesOn, T!WorksOnceInOrder
<1>2. ASSUME NEW l \in T!MayListen, T!OnTick(l) \/ T!MessageDone(l) PROVE BusInv'
  BY <1>2, OnTickKeeps, MessageDoneKeeps
<1>3. ASSUME T!Waiting, NEW l \in T!MayListen, T!Listen(l) PROVE BusInv'
  BY <1>3, ListenerRests, ReconnectKeeps, TakeKeeps, PublishSignalKeeps DEF T!Listen
<1>4. ASSUME T!Waiting, NEW c \in Channels,
             T!Subscribe(c) \/ T!Subscribed(c) \/ T!SubscribeFails(c) \/ T!Publish(c)
      PROVE  BusInv'
  BY <1>4, SubscribeKeeps, SubscribedKeeps, SubscribeFailsKeeps, PublishKeeps
<1>5. CASE T!Waiting /\ (T!Start \/ T!Stop)
  BY <1>5, StartKeeps, StopKeeps
<1>. QED
  BY <1>1, <1>2, <1>3, <1>4, <1>5 DEF T!Next


-----------------------------------------------------------------------------
(* An instance counts the members of its sets by its own copy of           *)
(* Cardinality.                                                            *)
LEMMA PriceCount == \A X : S!Cardinality(X) = Cardinality(X)
BY Zenon DEF S!Cardinality, S!IsFiniteSet, Cardinality, IsFiniteSet

LEMMA RankIs == \A places, t : S!Rank(places, t) = Cardinality({s \in places : s <= t})
BY PriceCount DEF S!Rank

(* The places of samples that are picked, in their order.                  *)
Places(places) == [i \in 1 .. Cardinality(places) |-> CHOOSE t \in places : S!Rank(places, t) = i]

LEMMA RankFacts ==
  ASSUME NEW places, places \subseteq Nat, IsFiniteSet(places)
  PROVE  /\ Cardinality(places) \in Nat
         /\ \A t \in Int : S!Rank(places, t) \in 0..Cardinality(places)
         /\ \A t \in places : S!Rank(places, t) \in 1..Cardinality(places)
         /\ \A t, u \in places : t < u => S!Rank(places, t) < S!Rank(places, u)
<1>. DEFINE U(t) == {s \in places : s <= t}
<1>1. Cardinality(places) \in Nat
  BY FS_CardinalityType
<1>2. ASSUME NEW t PROVE IsFiniteSet(U(t)) /\ S!Rank(places, t) \in 0..Cardinality(places)
  <2>1. U(t) \in SUBSET places
    OBVIOUS
  <2>2. IsFiniteSet(U(t)) /\ Cardinality(U(t)) <= Cardinality(places)
    BY <2>1, FS_Subset
  <2>3. Cardinality(U(t)) \in Nat
    BY <2>2, FS_CardinalityType
  <2>. QED
    BY <1>1, <2>2, <2>3, RankIs
<1>3. ASSUME NEW t \in places PROVE S!Rank(places, t) # 0
  <2>1. t \in U(t)
    OBVIOUS
  <2>. QED
    BY <1>2, <2>1, FS_EmptySet, RankIs
<1>4. ASSUME NEW t \in places, NEW u \in places, t < u PROVE S!Rank(places, t) < S!Rank(places, u)
  <2>1. U(t) \in SUBSET U(u) /\ u \in U(u) /\ u \notin U(t)
    <3>1. t \in Nat /\ u \in Nat /\ \A s \in places : s \in Nat
      OBVIOUS
    <3>2. \A s \in places : s <= t => s <= u
      BY <1>4, <3>1
    <3>3. u <= u /\ ~(u <= t)
      BY <1>4, <3>1
    <3>. QED
      BY <3>2, <3>3
  <2>2. Cardinality(U(t)) <= Cardinality(U(u)) /\ Cardinality(U(t)) # Cardinality(U(u))
    BY <1>2, <2>1, FS_Subset
  <2>3. Cardinality(U(t)) \in Nat /\ Cardinality(U(u)) \in Nat
    BY <1>2, FS_CardinalityType
  <2>. QED
    BY <2>2, <2>3, RankIs
<1>5. \A t : S!Rank(places, t) \in 0..Cardinality(places)
  BY <1>2
<1>6. \A t \in places : S!Rank(places, t) \in 1..Cardinality(places)
  BY <1>1, <1>3, <1>5
<1>7. \A t, u \in places : t < u => S!Rank(places, t) < S!Rank(places, u)
  BY <1>4
<1>. QED
  BY <1>1, <1>5, <1>6, <1>7

LEMMA PlacesFacts ==
  ASSUME NEW places, places \subseteq Nat, IsFiniteSet(places)
  PROVE  LET rows == Places(places)
         IN /\ rows \in Seq(places) /\ rows \in Seq(Nat) /\ Len(rows) = Cardinality(places) /\ Len(rows) \in Nat
            /\ DOMAIN rows = 1..Len(rows)
            /\ \A i \in 1..Len(rows) : rows[i] \in places /\ S!Rank(places, rows[i]) = i
            /\ \A t \in places : S!Rank(places, t) \in 1..Len(rows) /\ rows[S!Rank(places, t)] = t
            /\ \A i, j \in 1..Len(rows) : i < j <=> rows[i] < rows[j]
            /\ \A i, j \in 1..Len(rows) : rows[i] = rows[j] => i = j
<1>. DEFINE n == Cardinality(places)
            rank == [t \in places |-> S!Rank(places, t)]
            rows == Places(places)
<1>1. n \in Nat
  BY RankFacts
<1>2. rank \in Injection(places, 1..n)
  <2>1. \A t \in places : S!Rank(places, t) \in 1..n
    BY RankFacts
  <2>2. ASSUME NEW t \in places, NEW u \in places, rank[t] = rank[u] PROVE t = u
    <3>1. S!Rank(places, t) = S!Rank(places, u) /\ S!Rank(places, t) \in Int
      BY <1>1, <2>1, <2>2
    <3>2. \A a, b \in places : a < b => S!Rank(places, a) < S!Rank(places, b)
      BY RankFacts
    <3>3. ~(t < u) /\ ~(u < t)
      BY <3>1, <3>2
    <3>. QED
      BY <3>3
  <2>. QED
    BY <2>1, <2>2 DEF Injection, IsInjective
<1>3. IsFiniteSet(1..n) /\ Cardinality(1..n) = n
  BY <1>1, FS_Interval
<1>4. rank \in Surjection(places, 1..n)
  BY <1>2, <1>3, FS_Injection
<1>5. ASSUME NEW i \in 1..n PROVE rows[i] \in places /\ S!Rank(places, rows[i]) = i
  <2>1. \E t \in places : S!Rank(places, t) = i
    BY <1>4 DEF Surjection
  <2>. QED
    BY <2>1 DEF Places
<1>6. rows \in [1..n -> places]
  BY <1>5 DEF Places
<1>7. rows \in Seq(places) /\ rows \in Seq(Nat) /\ Len(rows) = n /\ DOMAIN rows = 1..n
  <2>1. rows \in [1..n -> Nat]
    BY <1>6
  <2>. QED
    BY <1>1, <1>6, <2>1
<1>8. ASSUME NEW t \in places PROVE S!Rank(places, t) \in 1..n /\ rows[S!Rank(places, t)] = t
  <2>1. S!Rank(places, t) \in 1..n
    BY RankFacts
  <2>2. rows[S!Rank(places, t)] \in places /\ rank[rows[S!Rank(places, t)]] = rank[t]
    BY <1>5, <2>1
  <2>. QED
    BY <1>2, <2>1, <2>2 DEF Injection, IsInjective
<1>9. ASSUME NEW i \in 1..n, NEW j \in 1..n
      PROVE  /\ i < j <=> rows[i] < rows[j]
             /\ rows[i] = rows[j] => i = j
  <2>1. rows[i] \in places /\ rows[j] \in places /\ S!Rank(places, rows[i]) = i /\ S!Rank(places, rows[j]) = j
    BY <1>5
  <2>2. (rows[i] < rows[j] => i < j) /\ (rows[j] < rows[i] => j < i)
    BY <2>1, RankFacts
  <2>3. rows[i] = rows[j] => i = j
    BY <2>1
  <2>4. rows[i] \in Nat /\ rows[j] \in Nat
    BY <2>1
  <2>. QED
    BY <1>1, <2>2, <2>3, <2>4
<1>. QED
  BY <1>1, <1>5, <1>7, <1>8, <1>9

Picks(f, q, seq, places) ==
  /\ f \in [1 .. Len(q) -> places]
  /\ \A i \in 1 .. Len(q) : q[i] = seq[f[i]]
  /\ \A i, j \in 1 .. Len(q) : i < j => f[i] < f[j]
  /\ \A p \in places : \E i \in 1 .. Len(q) : f[i] = p

LEMMA AtFacts ==
  ASSUME NEW seq \in Seq(Int), NEW places, places \subseteq DOMAIN seq
  PROVE  LET q == S!At(seq, places)
         IN /\ q \in Seq(Int) /\ Len(q) \in Nat /\ DOMAIN q = 1 .. Len(q)
            /\ \E f : Picks(f, q, seq, places)
<1>. DEFINE q == S!At(seq, places)
            f == Places(places)
<1>1. places \subseteq Nat /\ IsFiniteSet(places)
  <2>1. DOMAIN seq = 1 .. Len(seq) /\ Len(seq) \in Nat
    OBVIOUS
  <2>2. IsFiniteSet(1 .. Len(seq))
    BY <2>1, FS_Interval
  <2>. QED
    BY <2>1, <2>2, FS_Subset
<1>2. /\ f \in Seq(places) /\ Len(f) = Cardinality(places) /\ Len(f) \in Nat
      /\ \A i \in 1 .. Len(f) : f[i] \in places
      /\ \A t \in places : S!Rank(places, t) \in 1 .. Len(f) /\ f[S!Rank(places, t)] = t
      /\ \A i, j \in 1 .. Len(f) : i < j <=> f[i] < f[j]
  BY <1>1, PlacesFacts
<1>3. q = [i \in 1 .. Cardinality(places) |-> seq[f[i]]]
  BY PriceCount DEF S!At, Places
<1>4. q \in [1 .. Cardinality(places) -> Int]
  BY <1>2, <1>3
<1>5. q \in Seq(Int) /\ Len(q) = Cardinality(places) /\ DOMAIN q = 1 .. Len(q)
  <2>1. \A n \in Nat : \A x : x \in [1 .. n -> Int] => x \in Seq(Int) /\ Len(x) = n /\ DOMAIN x = 1 .. Len(x)
    OBVIOUS
  <2>2. Cardinality(places) \in Nat
    BY <1>2
  <2>. HIDE DEF q
  <2>. QED
    BY <1>4, <2>1, <2>2
<1>6. f \in [1 .. Len(q) -> places]
  BY <1>2, <1>5 DEF Places
<1>7. \A i \in 1 .. Len(q) : q[i] = seq[f[i]]
  BY <1>3, <1>5
<1>8. \A i, j \in 1 .. Len(q) : i < j => f[i] < f[j]
  BY <1>2, <1>5
<1>9. \A p \in places : \E i \in 1 .. Len(q) : f[i] = p
  BY <1>2, <1>5
<1>10. Picks(f, q, seq, places)
  BY <1>6, <1>7, <1>8, <1>9 DEF Picks
<1>. HIDE DEF f, q
<1>. QED
  BY <1>2, <1>5, <1>10 DEF q

(* All places give the sequence itself.                                    *)
LEMMA AtAll ==
  ASSUME NEW seq \in Seq(Int)
  PROVE  S!At(seq, DOMAIN seq) = seq
<1>1. DOMAIN seq = 1 .. Len(seq) /\ Len(seq) \in Nat
  OBVIOUS
<1>2. ASSUME NEW p \in 1 .. Len(seq) PROVE S!Rank(1 .. Len(seq), p) = p
  <2>1. {q \in 1 .. Len(seq) : q <= p} = 1 .. p
    BY <1>1
  <2>2. Cardinality(1 .. p) = p
    BY FS_Interval
  <2>. QED
    BY <2>1, <2>2, RankIs
<1>3. Cardinality(1 .. Len(seq)) = Len(seq)
  BY <1>1, FS_Interval
<1>4. ASSUME NEW i \in 1 .. Len(seq)
      PROVE  (CHOOSE p \in 1 .. Len(seq) : S!Rank(1 .. Len(seq), p) = i) = i
  BY <1>2
<1>5. S!At(seq, 1 .. Len(seq)) =
        [i \in 1 .. Len(seq) |-> seq[CHOOSE p \in 1 .. Len(seq) : S!Rank(1 .. Len(seq), p) = i]]
  BY <1>3, PriceCount DEF S!At
<1>6. S!At(seq, 1 .. Len(seq)) = [i \in 1 .. Len(seq) |-> seq[i]]
  BY <1>4, <1>5, Zenon
<1>. QED
  BY <1>1, <1>6

SubOf(q, seq) ==
  \E f \in [1 .. Len(q) -> 1 .. Len(seq)] :
    /\ \A i \in 1 .. Len(q) : q[i] = seq[f[i]]
    /\ \A i, j \in 1 .. Len(q) : i < j => f[i] < f[j]

LEMMA SinceFacts ==
  ASSUME NEW seq \in Seq(Int), NEW c \in Int
  PROVE  LET q == S!Since(seq, c)
         IN /\ q \in Seq(Int) /\ Len(q) \in Nat /\ DOMAIN q = 1 .. Len(q)
            /\ \A i \in 1 .. Len(q) : q[i] >= c
            /\ SubOf(q, seq)
            /\ \A p \in 1 .. Len(seq) : seq[p] >= c => q # <<>>
            /\ (\A p \in 1 .. Len(seq) : seq[p] >= c) => q = seq
<1>. DEFINE q == S!Since(seq, c)
            places == {p \in DOMAIN seq : seq[p] >= c}
<1>1. q = S!At(seq, places) /\ places \subseteq DOMAIN seq /\ DOMAIN seq = 1 .. Len(seq)
  BY DEF S!Since
<1>0. \A p \in places : seq[p] >= c
  OBVIOUS
<1>. HIDE DEF q, places
<1>2. q \in Seq(Int) /\ Len(q) \in Nat /\ DOMAIN q = 1 .. Len(q)
  BY <1>1, AtFacts
<1>3. PICK f : Picks(f, q, seq, places)
  BY <1>1, AtFacts, Zenon
<1>. USE DEF Picks
<1>4. \A i \in 1 .. Len(q) : q[i] >= c
  BY <1>0, <1>3
<1>5. SubOf(q, seq)
  <2>1. f \in [1 .. Len(q) -> 1 .. Len(seq)]
    BY <1>1, <1>3
  <2>. QED
    BY <1>3, <2>1 DEF SubOf
<1>6. ASSUME NEW p \in 1 .. Len(seq), seq[p] >= c PROVE q # <<>>
  <2>1. p \in places
    BY <1>1, <1>6 DEF places
  <2>2. \E i \in 1 .. Len(q) : TRUE
    BY <1>3, <2>1
  <2>3. 1 .. Len(<<>>) = {}
    OBVIOUS
  <2>. QED
    BY <2>2, <2>3
<1>7. ASSUME \A p \in 1 .. Len(seq) : seq[p] >= c PROVE q = seq
  <2>1. places = DOMAIN seq
    BY <1>1, <1>7 DEF places
  <2>. QED
    BY <1>1, <2>1, AtAll
<1>. QED
  BY <1>2, <1>4, <1>5, <1>6, <1>7 DEF q, places

AverageRecord == [last : Int, day : Seq(Int), week : Seq(Int)]

(* What is known of the prices of a symbol, given the candle of the latest *)
(* tick, the latest that was recorded, and the ends of the preload.        *)
Rising(seq) == \A i, j \in 1 .. Len(seq) : i < j => seq[i] < seq[j]

Apart(seq, from, to) ==
  \A i, j \in 1 .. Len(seq) : i < j => seq[i] < seq[j] \/ (from <= seq[j] /\ seq[i] <= to)

UpTo(seq, to, time, may) ==
  \A i \in 1 .. Len(seq) : seq[i] <= to \/ seq[i] < time \/ (seq[i] = time /\ may)

WeekTells(seq, a, to) ==
  a.week # <<>> =>
    \E n \in 1 .. Len(seq) :
      /\ a.day = S!Since(SubSeq(seq, 1, n), seq[n] - Day)
      /\ a.week = SubSeq(seq, 1, n)
      /\ \A k \in (n + 1) .. Len(seq) : seq[k] >= a.last \/ seq[k] <= to

DayTells(seq, a, from, to) ==
  /\ \A i \in 1 .. Len(a.day) : a.day[i] >= a.last - Week
  /\ a.day = <<>> =>
       /\ a.week = <<>>
       /\ \A i \in 1 .. Len(seq) : seq[i] >= a.last \/ (seq[i] >= from /\ a.last <= to)

Fresh(seq, a, time, told, from, to) ==
  /\ a \in AverageRecord /\ seq \in Seq(Int)
  /\ a = S!NotYet => seq = <<>>
  /\ a # S!NotYet =>
       /\ a.last \in Nat /\ (a.last <= time \/ a.last <= to) /\ told < a.last + Hour
       /\ \A i \in 1 .. Len(seq) : seq[i] <= a.last \/ seq[i] <= time
       /\ WeekTells(seq, a, to) /\ DayTells(seq, a, from, to)

(* Averages made of the prices of the last week.                           *)
LEMMA DueFacts ==
  ASSUME NEW seq \in Seq(Int), NEW now \in Nat,
         \A i \in 1 .. Len(seq) : seq[i] <= now
  PROVE  LET q == S!Since(seq, now - Week)
             b == [last |-> now, day |-> S!WindowOf(q, Day), week |-> S!WindowOf(q, Week)]
         IN /\ q \in Seq(Int) /\ Len(q) \in Nat /\ SubOf(q, seq)
            /\ b \in AverageRecord
            /\ b.last = now /\ b.week = q
            /\ \A i \in 1 .. Len(b.day) : b.day[i] >= now - Week
            /\ q = <<>> => b.day = <<>>
            /\ q # <<>> => b.day # <<>> /\ b.day = S!Since(q, q[Len(q)] - Day)
            /\ \A i \in 1 .. Len(q) : q[i] <= now
<1>. DEFINE q == S!Since(seq, now - Week)
            d == S!WindowOf(q, Day)
            w == S!WindowOf(q, Week)
<1>1. Week \in Nat \ {0} /\ Day \in Nat \ {0} /\ now - Week \in Int
  BY SidesAssumption DEF S!StatisticsAssumption
<1>2. /\ q \in Seq(Int) /\ Len(q) \in Nat /\ SubOf(q, seq)
      /\ \A i \in 1 .. Len(q) : q[i] >= now - Week
  BY <1>1, SinceFacts
<1>. HIDE DEF q
<1>3. \A i \in 1 .. Len(q) : q[i] <= now
  BY <1>2 DEF SubOf
<1>4. CASE q = <<>>
  <2>1. d = <<>> /\ w = <<>>
    BY <1>4 DEF S!WindowOf
  <2>2. <<>> \in Seq(Int) /\ Len(<<>>) = 0
    OBVIOUS
  <2>3. [last |-> now, day |-> d, week |-> w] \in AverageRecord
    BY <2>1, <2>2 DEF AverageRecord
  <2>4. \A i \in 1 .. Len(d) : d[i] >= now - Week
    BY <2>1, <2>2
  <2>. QED
    BY <1>2, <1>3, <1>4, <2>1, <2>3, <2>4 DEF q
<1>5. CASE q # <<>>
  <2>1. Len(q) \in 1 .. Len(q) /\ q[Len(q)] \in Int
    BY <1>2, <1>5
  <2>2. d = S!Since(q, q[Len(q)] - Day) /\ w = S!Since(q, q[Len(q)] - Week)
    BY <1>5 DEF S!WindowOf
  <2>3. \A i \in 1 .. Len(q) : q[i] >= q[Len(q)] - Week
    <3>1. q[Len(q)] <= now
      BY <1>3, <2>1
    <3>. QED
      BY <1>1, <1>2, <2>1, <3>1
  <2>4. q[Len(q)] - Week \in Int /\ q[Len(q)] - Day \in Int
    BY <1>1, <2>1
  <2>5. w = q
    BY <1>2, <2>2, <2>3, <2>4, SinceFacts
  <2>6. d \in Seq(Int) /\ SubOf(d, q)
    BY <1>2, <2>2, <2>4, SinceFacts
  <2>7. d # <<>>
    <3>1. q[Len(q)] >= q[Len(q)] - Day
      BY <1>1, <2>1
    <3>. QED
      BY <1>2, <2>1, <2>2, <2>4, <3>1, SinceFacts
  <2>8. \A i \in 1 .. Len(d) : d[i] >= now - Week
    BY <1>2, <2>6 DEF SubOf
  <2>. HIDE DEF d, w
  <2>9. [last |-> now, day |-> d, week |-> w] \in AverageRecord
    BY <1>2, <2>5, <2>6 DEF AverageRecord
  <2>. QED
    BY <1>2, <1>3, <1>5, <2>2, <2>5, <2>7, <2>8, <2>9 DEF q, d, w
<1>. QED
  BY <1>4, <1>5

LEMMA SubKeeps ==
  ASSUME NEW seq \in Seq(Int), NEW q \in Seq(Int), SubOf(q, seq),
         NEW from \in Int, NEW to \in Int, NEW time \in Int, NEW may
  PROVE  /\ Apart(seq, from, to) => Apart(q, from, to)
         /\ UpTo(seq, to, time, may) => UpTo(q, to, time, may)
<1>1. PICK f \in [1 .. Len(q) -> 1 .. Len(seq)] :
        /\ \A i \in 1 .. Len(q) : q[i] = seq[f[i]]
        /\ \A i, j \in 1 .. Len(q) : i < j => f[i] < f[j]
  BY DEF SubOf
<1>2. \A i \in 1 .. Len(q) : f[i] \in 1 .. Len(seq)
  BY <1>1
<1>3. Apart(seq, from, to) => Apart(q, from, to)
  BY <1>1, <1>2 DEF Apart
<1>4. UpTo(seq, to, time, may) => UpTo(q, to, time, may)
  BY <1>1, <1>2 DEF UpTo
<1>. QED
  BY <1>3, <1>4

LEMMA NotYetIsOld ==
  S!NotYet \in AverageRecord /\ S!NotYet.last < 0
<1>1. Week \in Nat \ {0} /\ Hour \in Nat \ {0}
  BY SidesAssumption DEF S!StatisticsAssumption
<1>2. -Week - Hour \in Int /\ -Week - Hour < 0
  BY <1>1
<1>3. <<>> \in Seq(Int)
  OBVIOUS
<1>. QED
  BY <1>2, <1>3 DEF S!NotYet, AverageRecord

LEMMA Computed ==
  ASSUME NEW seq \in Seq(Int), NEW now \in Nat,
         \A i \in 1 .. Len(seq) : seq[i] <= now,
         NEW time \in Nat, NEW told \in Nat, NEW from \in Nat, NEW to \in Nat,
         told <= now, now <= time \/ now <= to
  PROVE  LET q == S!Since(seq, now - Week)
             b == [last |-> now, day |-> S!WindowOf(q, Day), week |-> S!WindowOf(q, Week)]
         IN b # S!NotYet /\ Fresh(q, b, time, told, from, to)
<1>. DEFINE q == S!Since(seq, now - Week)
            b == [last |-> now, day |-> S!WindowOf(q, Day), week |-> S!WindowOf(q, Week)]
<1>0. Hour \in Nat \ {0}
  BY SidesAssumption DEF S!StatisticsAssumption
<1>1. /\ q \in Seq(Int) /\ Len(q) \in Nat
      /\ b \in AverageRecord
      /\ b.last = now /\ b.week = q
      /\ \A i \in 1 .. Len(b.day) : b.day[i] >= now - Week
      /\ q = <<>> => b.day = <<>>
      /\ q # <<>> => b.day # <<>> /\ b.day = S!Since(q, q[Len(q)] - Day)
      /\ \A i \in 1 .. Len(q) : q[i] <= now
  BY DueFacts
<1>. HIDE DEF q, b
<1>2. b # S!NotYet
  BY <1>1, NotYetIsOld
<1>3. b.last \in Nat /\ (b.last <= time \/ b.last <= to) /\ told < b.last + Hour
  BY <1>0, <1>1
<1>4. \A i \in 1 .. Len(q) : q[i] <= b.last \/ q[i] <= time
  BY <1>1
<1>5. WeekTells(q, b, to)
  <2>1. SUFFICES ASSUME q # <<>>
                 PROVE  /\ Len(q) \in 1 .. Len(q)
                        /\ b.day = S!Since(SubSeq(q, 1, Len(q)), q[Len(q)] - Day)
                        /\ b.week = SubSeq(q, 1, Len(q))
                        /\ (Len(q) + 1) .. Len(q) = {}
    BY <1>1 DEF WeekTells
  <2>2. Len(q) \in 1 .. Len(q) /\ SubSeq(q, 1, Len(q)) = q /\ (Len(q) + 1) .. Len(q) = {}
    BY <1>1, <2>1
  <2>. QED
    BY <1>1, <2>1, <2>2
<1>6. DayTells(q, b, from, to)
  <2>1. Len(<<>>) = 0
    OBVIOUS
  <2>. QED
    BY <1>1, <2>1 DEF DayTells
<1>7. b # S!NotYet /\ Fresh(q, b, time, told, from, to)
  BY <1>1, <1>2, <1>3, <1>4, <1>5, <1>6 DEF Fresh
<1>. QED
  BY <1>7 DEF q, b

(* The averages of a symbol a tick passes by.                              *)
LEMMA PassedBy ==
  ASSUME NEW seq, NEW a, NEW time \in Nat, NEW told \in Nat, NEW from \in Nat, NEW to \in Nat,
         NEW may \in BOOLEAN, a # S!NotYet,
         Fresh(seq, a, time, told, from, to), Apart(seq, from, to), UpTo(seq, to, time, may)
  PROVE  LET q == S!Pruned(seq, a, time)
             b == S!Averaged(seq, a, time)
         IN /\ b # S!NotYet /\ Fresh(q, b, time, time, from, to)
            /\ Apart(q, from, to) /\ UpTo(q, to, time, may)
<1>0. Hour \in Nat \ {0} /\ Week \in Nat \ {0}
  BY SidesAssumption DEF S!StatisticsAssumption
<1>1. /\ seq \in Seq(Int) /\ a \in AverageRecord /\ a.last \in Nat
      /\ \A i \in 1 .. Len(seq) : seq[i] <= a.last \/ seq[i] <= time
  BY DEF Fresh
<1>2. CASE S!Due(a, time)
  <2>1. a.last <= time
    BY <1>0, <1>1, <1>2 DEF S!Due
  <2>2. \A i \in 1 .. Len(seq) : seq[i] <= time
    BY <1>1, <2>1
  <2>. DEFINE q == S!Since(seq, time - Week)
              b == [last |-> time, day |-> S!WindowOf(q, Day), week |-> S!WindowOf(q, Week)]
  <2>3. b # S!NotYet /\ Fresh(q, b, time, time, from, to)
    BY <1>1, <2>2, Computed
  <2>4. Apart(q, from, to) /\ UpTo(q, to, time, may)
    <3>1. q \in Seq(Int) /\ SubOf(q, seq)
      BY <1>0, <1>1, SinceFacts
    <3>2. from \in Int /\ to \in Int /\ time \in Int
      OBVIOUS
    <3>. HIDE DEF q
    <3>. QED
      BY <1>1, <3>1, <3>2, SubKeeps, ZenonT(30)
  <2>5. S!Pruned(seq, a, time) = q /\ S!Averaged(seq, a, time) = b
    BY <1>2 DEF S!Pruned, S!Averaged
  <2>. QED
    BY <2>3, <2>4, <2>5
<1>3. CASE ~S!Due(a, time)
  <2>1. S!Pruned(seq, a, time) = seq /\ S!Averaged(seq, a, time) = a
    BY <1>3 DEF S!Pruned, S!Averaged
  <2>2. time < a.last + Hour
    BY <1>0, <1>1, <1>3 DEF S!Due
  <2>3. Fresh(seq, a, time, time, from, to)
    BY <2>2 DEF Fresh
  <2>. QED
    BY <2>1, <2>3
<1>. QED
  BY <1>2, <1>3

(* Those of the symbol that ticks.                                         *)
LEMMA Recorded ==
  ASSUME NEW seq, NEW a, NEW time \in Nat, NEW told \in Nat, NEW from \in Nat, NEW to \in Nat,
         from <= time,
         Fresh(seq, a, time, told, from, to), Apart(seq, from, to), UpTo(seq, to, time, FALSE)
  PROVE  LET q == S!Pruned(Append(seq, time), a, time)
             b == S!Averaged(Append(seq, time), a, time)
         IN /\ b # S!NotYet /\ Fresh(q, b, time, time, from, to)
            /\ Apart(q, from, to) /\ UpTo(q, to, time, TRUE)
<1>0. Hour \in Nat \ {0} /\ Week \in Nat \ {0}
  BY SidesAssumption DEF S!StatisticsAssumption
<1>1. seq \in Seq(Int) /\ a \in AverageRecord
  BY DEF Fresh
<1>. DEFINE more == Append(seq, time)
<1>2. /\ more \in Seq(Int) /\ Len(more) = Len(seq) + 1 /\ Len(seq) \in Nat
      /\ more[Len(seq) + 1] = time
      /\ \A i \in 1 .. Len(seq) : more[i] = seq[i] /\ seq[i] \in Int
      /\ \A n \in 1 .. Len(seq) : SubSeq(more, 1, n) = SubSeq(seq, 1, n)
  <2>1. time \in Int
    OBVIOUS
  <2>. QED
    BY <1>1, <2>1
<1>. HIDE DEF more
<1>3. \A i \in 1 .. Len(more) : i \in 1 .. Len(seq) \/ i = Len(seq) + 1
  BY <1>2
<1>4. Apart(more, from, to)
  <2>1. ASSUME NEW i \in 1 .. Len(more), NEW j \in 1 .. Len(more), i < j
        PROVE  more[i] < more[j] \/ (from <= more[j] /\ more[i] <= to)
    <3>1. i \in 1 .. Len(seq)
      BY <1>2, <1>3, <2>1
    <3>2. CASE j \in 1 .. Len(seq)
      BY <1>2, <2>1, <3>1, <3>2 DEF Apart
    <3>3. CASE j = Len(seq) + 1
      BY <1>2, <3>1, <3>3 DEF UpTo
    <3>. QED
      BY <1>3, <3>2, <3>3
  <2>. QED
    BY <2>1 DEF Apart
<1>5. UpTo(more, to, time, TRUE)
  BY <1>2, <1>3 DEF UpTo
<1>6. CASE S!Due(a, time)
  <2>1. \A i \in 1 .. Len(seq) : seq[i] <= time
    <3>1. CASE a = S!NotYet
      <4>1. seq = <<>>
        BY <3>1 DEF Fresh
      <4>. QED
        BY <4>1
    <3>2. CASE a # S!NotYet
      <4>1. a.last \in Nat /\ \A i \in 1 .. Len(seq) : seq[i] <= a.last \/ seq[i] <= time
        BY <3>2 DEF Fresh
      <4>2. a.last <= time
        BY <1>0, <1>6, <3>2, <4>1 DEF S!Due
      <4>. QED
        BY <1>2, <4>1, <4>2
    <3>. QED
      BY <3>1, <3>2
  <2>2. \A i \in 1 .. Len(more) : more[i] <= time
    BY <1>2, <1>3, <2>1
  <2>. DEFINE q == S!Since(more, time - Week)
              b == [last |-> time, day |-> S!WindowOf(q, Day), week |-> S!WindowOf(q, Week)]
  <2>3. b # S!NotYet /\ Fresh(q, b, time, time, from, to)
    BY <1>2, <2>2, Computed, SMTT(30)
  <2>4. Apart(q, from, to) /\ UpTo(q, to, time, TRUE)
    <3>1. q \in Seq(Int) /\ SubOf(q, more)
      BY <1>0, <1>2, SinceFacts
    <3>2. from \in Int /\ to \in Int /\ time \in Int
      OBVIOUS
    <3>. HIDE DEF q
    <3>. QED
      BY <1>2, <1>4, <1>5, <3>1, <3>2, SubKeeps
  <2>5. S!Pruned(more, a, time) = q /\ S!Averaged(more, a, time) = b
    BY <1>6 DEF S!Pruned, S!Averaged
  <2>. QED
    BY <2>3, <2>4, <2>5 DEF more
<1>7. CASE ~S!Due(a, time)
  <2>1. S!Pruned(more, a, time) = more /\ S!Averaged(more, a, time) = a /\ a # S!NotYet
    BY <1>7 DEF S!Pruned, S!Averaged, S!Due
  <2>2. /\ a.last \in Nat /\ (a.last <= time \/ a.last <= to)
        /\ \A i \in 1 .. Len(seq) : seq[i] <= a.last \/ seq[i] <= time
        /\ WeekTells(seq, a, to) /\ DayTells(seq, a, from, to)
    BY <2>1 DEF Fresh
  <2>3. time < a.last + Hour
    BY <1>0, <1>7, <2>2 DEF S!Due
  <2>4. \A i \in 1 .. Len(more) : more[i] <= a.last \/ more[i] <= time
    BY <1>2, <1>3, <2>2, SMTT(30)
  <2>5. WeekTells(more, a, to)
    <3>1. SUFFICES ASSUME a.week # <<>>
                   PROVE  \E n \in 1 .. Len(more) :
                            /\ a.day = S!Since(SubSeq(more, 1, n), more[n] - Day)
                            /\ a.week = SubSeq(more, 1, n)
                            /\ \A k \in (n + 1) .. Len(more) : more[k] >= a.last \/ more[k] <= to
      BY DEF WeekTells
    <3>2. PICK n \in 1 .. Len(seq) :
            /\ a.day = S!Since(SubSeq(seq, 1, n), seq[n] - Day)
            /\ a.week = SubSeq(seq, 1, n)
            /\ \A k \in (n + 1) .. Len(seq) : seq[k] >= a.last \/ seq[k] <= to
      BY <2>2, <3>1 DEF WeekTells
    <3>3. n \in 1 .. Len(more) /\ SubSeq(more, 1, n) = SubSeq(seq, 1, n) /\ more[n] = seq[n]
      BY <1>2
    <3>4. ASSUME NEW k \in (n + 1) .. Len(more) PROVE more[k] >= a.last \/ more[k] <= to
      <4>1. CASE k = Len(seq) + 1
        BY <1>2, <2>2, <4>1
      <4>2. CASE k # Len(seq) + 1
        <5>1. k \in (n + 1) .. Len(seq) /\ k \in 1 .. Len(seq)
          BY <1>2, <4>2
        <5>. QED
          BY <1>2, <3>2, <5>1
      <4>. QED
        BY <4>1, <4>2
    <3>. QED
      BY <3>2, <3>3, <3>4
  <2>6. DayTells(more, a, from, to)
    <3>1. ASSUME a.day = <<>>, NEW i \in 1 .. Len(more)
          PROVE  more[i] >= a.last \/ (more[i] >= from /\ a.last <= to)
      <4>1. CASE i \in 1 .. Len(seq)
        BY <1>2, <2>2, <3>1, <4>1 DEF DayTells
      <4>2. CASE i = Len(seq) + 1
        BY <1>2, <2>2, <4>2
      <4>. QED
        BY <1>3, <4>1, <4>2
    <3>. QED
      BY <2>2, <3>1 DEF DayTells
  <2>7. Fresh(more, a, time, time, from, to)
    BY <1>1, <1>2, <2>1, <2>2, <2>3, <2>4, <2>5, <2>6 DEF Fresh
  <2>. QED
    BY <1>4, <1>5, <2>1, <2>7 DEF more
<1>. QED
  BY <1>6, <1>7

Told(seq, a, time, told, from, to, may) ==
  Fresh(seq, a, time, told, from, to) /\ Apart(seq, from, to) /\ UpTo(seq, to, time, may)

LEMMA ToldGrows ==
  ASSUME NEW seq, NEW a, NEW time \in Nat, NEW later \in Nat, NEW told \in Nat, NEW from \in Nat,
         NEW to \in Nat, NEW end \in Nat, NEW may, NEW might,
         time <= later, to <= end, time < later \/ (may => might) \/ time <= end,
         Told(seq, a, time, told, from, to, may)
  PROVE  Told(seq, a, later, told, from, end, might)
<1>1. seq \in Seq(Int) /\ a \in AverageRecord
  BY DEF Told, Fresh
<1>2. \A i \in 1 .. Len(seq) : seq[i] \in Int
  BY <1>1
<1>3. Apart(seq, from, end)
  BY <1>2 DEF Told, Apart
<1>4. UpTo(seq, end, later, might)
  BY <1>2 DEF Told, UpTo
<1>5. Fresh(seq, a, later, told, from, end)
  <2>1. CASE a = S!NotYet
    BY <2>1 DEF Told, Fresh
  <2>2. CASE a # S!NotYet
    <3>1. /\ a.last \in Nat /\ (a.last <= time \/ a.last <= to) /\ told < a.last + Hour
          /\ \A i \in 1 .. Len(seq) : seq[i] <= a.last \/ seq[i] <= time
          /\ WeekTells(seq, a, to) /\ DayTells(seq, a, from, to)
      BY <2>2 DEF Told, Fresh
    <3>2. a.last <= later \/ a.last <= end
      BY <3>1
    <3>3. \A i \in 1 .. Len(seq) : seq[i] <= a.last \/ seq[i] <= later
      BY <1>2, <3>1
    <3>4. WeekTells(seq, a, end)
      <4>1. SUFFICES ASSUME a.week # <<>>
                     PROVE  \E n \in 1 .. Len(seq) :
                              /\ a.day = S!Since(SubSeq(seq, 1, n), seq[n] - Day)
                              /\ a.week = SubSeq(seq, 1, n)
                              /\ \A k \in (n + 1) .. Len(seq) : seq[k] >= a.last \/ seq[k] <= end
        BY DEF WeekTells
      <4>2. PICK n \in 1 .. Len(seq) :
              /\ a.day = S!Since(SubSeq(seq, 1, n), seq[n] - Day)
              /\ a.week = SubSeq(seq, 1, n)
              /\ \A k \in (n + 1) .. Len(seq) : seq[k] >= a.last \/ seq[k] <= to
        BY <3>1, <4>1 DEF WeekTells
      <4>3. \A k \in (n + 1) .. Len(seq) : seq[k] >= a.last \/ seq[k] <= end
        <5>1. ASSUME NEW k \in (n + 1) .. Len(seq) PROVE k \in 1 .. Len(seq)
          BY <1>1
        <5>. QED
          BY <1>2, <4>2, <5>1
      <4>. QED
        BY <4>2, <4>3
    <3>5. DayTells(seq, a, from, end)
      BY <1>2, <3>1 DEF DayTells
    <3>. QED
      BY <1>1, <2>2, <3>1, <3>2, <3>3, <3>4, <3>5 DEF Fresh
  <2>. QED
    BY <2>1, <2>2
<1>. QED
  BY <1>3, <1>4, <1>5 DEF Told

LEMMA ToldNothing ==
  ASSUME NEW time, NEW told, NEW from, NEW to, NEW may
  PROVE  Told(<<>>, S!NotYet, time, told, from, to, may)
<1>1. <<>> \in Seq(Int) /\ 1 .. Len(<<>>) = {}
  OBVIOUS
<1>2. Fresh(<<>>, S!NotYet, time, told, from, to)
  BY <1>1, NotYetIsOld DEF Fresh
<1>. QED
  BY <1>1, <1>2 DEF Told, Apart, UpTo

LEMMA ToldLoaded ==
  ASSUME NEW seq \in Seq(Int), Rising(seq), NEW now \in Nat,
         \A i \in 1 .. Len(seq) : seq[i] <= now,
         NEW time \in Nat, NEW told \in Nat, NEW from \in Nat, NEW may, told <= now
  PROVE  /\ S!Averaged(seq, S!NotYet, now) # S!NotYet
         /\ Told(S!Pruned(seq, S!NotYet, now), S!Averaged(seq, S!NotYet, now), time, told, from, now, may)
<1>. DEFINE q == S!Since(seq, now - Week)
            b == [last |-> now, day |-> S!WindowOf(q, Day), week |-> S!WindowOf(q, Week)]
<1>1. S!Pruned(seq, S!NotYet, now) = q /\ S!Averaged(seq, S!NotYet, now) = b
  BY DEF S!Pruned, S!Averaged, S!Due
<1>2. b # S!NotYet /\ Fresh(q, b, time, told, from, now)
  BY Computed
<1>3. q \in Seq(Int) /\ SubOf(q, seq)
  BY DueFacts
<1>4. Apart(seq, from, now)
  BY DEF Rising, Apart
<1>5. UpTo(seq, now, time, may)
  BY DEF UpTo
<1>6. Apart(q, from, now) /\ UpTo(q, now, time, may)
  <2>1. from \in Int /\ now \in Int /\ time \in Int
    OBVIOUS
  <2>. HIDE DEF q
  <2>. QED
    BY <1>3, <1>4, <1>5, <2>1, SubKeeps
<1>. HIDE DEF q, b
<1>. QED
  BY <1>1, <1>2, <1>6 DEF Told

-----------------------------------------------------------------------------
(* The sequences that are loaded.                                          *)
Within(seq, lo, hi) == \A i \in 1 .. Len(seq) : lo <= seq[i] /\ seq[i] <= hi

LEMMA NumbersFacts ==
  ASSUME NEW lo \in Int, NEW hi \in Int
  PROVE  LET n == S!Numbers(lo, hi)
         IN n \in Seq(Int) /\ DOMAIN n = 1 .. Len(n) /\ Rising(n) /\ Within(n, lo, hi)
<1>. DEFINE n == S!Numbers(lo, hi)
<1>1. CASE hi - lo + 1 >= 0
  <2>1. n \in [1 .. (hi - lo + 1) -> Int] /\ hi - lo + 1 \in Nat
    BY <1>1 DEF S!Numbers
  <2>2. n \in Seq(Int) /\ Len(n) = hi - lo + 1 /\ DOMAIN n = 1 .. Len(n)
    <3>. HIDE DEF n
    <3>1. \A m \in Nat : \A x : x \in [1 .. m -> Int] => x \in Seq(Int) /\ Len(x) = m /\ DOMAIN x = 1 .. Len(x)
      OBVIOUS
    <3>. QED
      BY <2>1, <3>1
  <2>3. \A i \in 1 .. Len(n) : n[i] = lo + i - 1
    BY <2>2 DEF S!Numbers
  <2>. HIDE DEF n
  <2>4. Rising(n) /\ Within(n, lo, hi)
    BY <2>2, <2>3 DEF Rising, Within
  <2>. QED
    BY <2>2, <2>4 DEF n
<1>2. CASE hi - lo + 1 < 0
  <2>1. 1 .. (hi - lo + 1) = 1 .. 0 /\ 1 .. 0 = {}
    BY <1>2
  <2>2. n \in [1 .. 0 -> Int]
    BY <2>1 DEF S!Numbers
  <2>3. n \in Seq(Int) /\ Len(n) = 0 /\ DOMAIN n = 1 .. Len(n)
    <3>. HIDE DEF n
    <3>. QED
      BY <2>2
  <2>. HIDE DEF n
  <2>4. Rising(n) /\ Within(n, lo, hi)
    BY <2>1, <2>3 DEF Rising, Within
  <2>. QED
    BY <2>3, <2>4 DEF n
<1>. QED
  BY <1>1, <1>2

LEMMA RisingSub ==
  ASSUME NEW seq \in Seq(Int), NEW q \in Seq(Int), SubOf(q, seq), NEW lo \in Int, NEW hi \in Int
  PROVE  (Rising(seq) => Rising(q)) /\ (Within(seq, lo, hi) => Within(q, lo, hi))
<1>1. PICK f \in [1 .. Len(q) -> 1 .. Len(seq)] :
        /\ \A i \in 1 .. Len(q) : q[i] = seq[f[i]]
        /\ \A i, j \in 1 .. Len(q) : i < j => f[i] < f[j]
  BY DEF SubOf
<1>2. \A i \in 1 .. Len(q) : f[i] \in 1 .. Len(seq)
  BY <1>1
<1>. QED
  BY <1>1, <1>2 DEF Rising, Within

(* Klines that answer a page.                                              *)
LEMMA KlinesFacts ==
  ASSUME NEW start \in Int, wall \in Nat
  PROVE  LET page == S!Klines(start)
         IN page \in Seq(Int) /\ Rising(page) /\ Within(page, start, wall)
<1>. DEFINE seconds == S!Numbers(start, wall)
            places   == {p \in DOMAIN seconds : seconds[p] % Minute = 0}
            all == S!At(seconds, places)
            m   == IF Len(all) < Page THEN Len(all) ELSE Page
<1>1. seconds \in Seq(Int) /\ DOMAIN seconds = 1 .. Len(seconds) /\ Rising(seconds) /\ Within(seconds, start, wall)
  BY NumbersFacts
<1>2. places \subseteq DOMAIN seconds /\ S!Klines(start) = SubSeq(all, 1, m)
  BY DEF S!Klines
<1>. HIDE DEF seconds, places
<1>3. all \in Seq(Int) /\ Len(all) \in Nat /\ \E f : Picks(f, all, seconds, places)
  BY <1>1, <1>2, AtFacts
<1>. HIDE DEF all
<1>4. PICK f : Picks(f, all, seconds, places)
  BY <1>3
<1>5. SubOf(all, seconds)
  <2>1. f \in [1 .. Len(all) -> 1 .. Len(seconds)]
    BY <1>1, <1>2, <1>4 DEF Picks
  <2>. QED
    BY <1>4, <2>1 DEF Picks, SubOf
<1>6. Rising(all) /\ Within(all, start, wall)
  BY <1>1, <1>3, <1>5, RisingSub
<1>7. m \in Nat /\ m <= Len(all)
  BY <1>3, SidesAssumption DEF S!StatisticsAssumption
<1>. HIDE DEF m
<1>8. /\ SubSeq(all, 1, m) \in Seq(Int) /\ Len(SubSeq(all, 1, m)) = m
      /\ \A i \in 1 .. m : SubSeq(all, 1, m)[i] = all[i] /\ i \in 1 .. Len(all)
  BY <1>3, <1>7
<1>9. Rising(SubSeq(all, 1, m)) /\ Within(SubSeq(all, 1, m), start, wall)
  BY <1>6, <1>8 DEF Rising, Within
<1>. QED
  BY <1>2, <1>8, <1>9

PreloadEnd == IF ticker.at \in {"rows", "klines"} THEN wall ELSE first.to

HadIt(s) == s \in ticked /\ ~(ticker.at = "record" /\ ticker.symbol = s)

Tells(s) == Told(samples[s], averages[s], at, latest, first.from, PreloadEnd, HadIt(s))

RowsTicker   == [at : {"rows"}, symbol : Pairs, todo : SUBSET Pairs, now : Nat]
KlinesTicker == [at : {"klines"}, symbol : Pairs, todo : SUBSET Pairs, now : Nat, start : Int,
                 more : BOOLEAN, prices : Seq(Int), errors : Nat]
RecordTicker == [at : {"record"}, symbol : Pairs]

(* The clock, the latest tick and the preload in order.                    *)
Clocks ==
  /\ wall \in Nat /\ at \in Nat /\ latest \in Nat /\ first \in [from : Nat, to : Nat]
  /\ at <= wall /\ latest <= at
  /\ first.from <= at /\ first.from <= first.to /\ first.to <= wall
  /\ preloaded \in BOOLEAN /\ preload \subseteq Pairs
  /\ DOMAIN samples = Pairs /\ \A s \in Pairs : recorded[s] \in Nat

TickerKnown ==
  /\ ticker = S!Resting \/ ticker \in RowsTicker \/ ticker \in KlinesTicker \/ ticker \in RecordTicker
  /\ ticker.at # "idle" => ticker.symbol \in ticked
  /\ ticker.at = "klines" =>
       /\ Rising(ticker.prices)
       /\ \A i \in 1 .. Len(ticker.prices) :
            ticker.prices[i] < ticker.start /\ ticker.prices[i] <= wall

OfThePreload ==
  /\ ~preloaded => ticker = S!Resting /\ preload = {} /\ \A s \in Pairs : averages[s] = S!NotYet
  /\ ticker.at = "rows" => preload = {}
  /\ ticker.at \in {"rows", "klines"} =>
       /\ \A s \in Pairs \ preload : averages[s] = S!NotYet
       /\ \A s \in Pairs : Rising(samples[s])

SInv == Clocks /\ TickerKnown /\ OfThePreload /\ \A s \in Pairs : Tells(s)

(* Where the ticker is, by its kind.                                       *)
LEMMA TickerKinds ==
  ASSUME TickerKnown
  PROVE  /\ ticker.at \in {"idle", "rows", "klines", "record"}
         /\ ticker.at = "idle" <=> ticker = S!Resting
         /\ ticker.at = "rows" <=> ticker \in RowsTicker
         /\ ticker.at = "klines" <=> ticker \in KlinesTicker
         /\ ticker.at = "record" <=> ticker \in RecordTicker
BY DEF TickerKnown, S!Resting, RowsTicker, KlinesTicker, RecordTicker

LEMMA EndIsNat ==
  ASSUME Clocks
  PROVE  PreloadEnd \in Nat /\ first.from \in Nat /\ first.to \in Nat /\ PreloadEnd <= wall
BY DEF Clocks, PreloadEnd

LEMMA Empty ==
  ASSUME NEW s \in Pairs, Tells(s), averages[s] = S!NotYet
  PROVE  samples[s] = <<>>
BY DEF Tells, Told, Fresh

(* A step that leaves prices and averages alone.                           *)
LEMMA TellsStill ==
  ASSUME SInv, Clocks', NEW s \in Pairs,
         samples[s]' = samples[s], averages[s]' = averages[s], UNCHANGED latest,
         first'.from = first.from, at <= at', PreloadEnd <= PreloadEnd',
         at < at' \/ (HadIt(s) => HadIt(s)') \/ at <= PreloadEnd'
  PROVE  Tells(s)'
<1>1. Tells(s) /\ at \in Nat /\ latest \in Nat /\ at' \in Nat /\ latest' = latest
  BY DEF SInv, Clocks
<1>2. PreloadEnd \in Nat /\ first.from \in Nat
  BY EndIsNat DEF SInv
<1>3. PreloadEnd' \in Nat /\ first'.from = first.from
  BY DEF Clocks, PreloadEnd
<1>4. PICK had : had = HadIt(s)
  OBVIOUS
<1>5. PICK has : has = HadIt(s)'
  OBVIOUS
<1>6. PICK q, a : q = samples[s] /\ a = averages[s]
  OBVIOUS
<1>7. PICK end \in Nat : end = PreloadEnd'
  BY <1>3
<1>8. PICK to \in Nat : to = PreloadEnd
  BY <1>2
<1>9. Told(q, a, at, latest, first.from, to, had)
  BY <1>1, <1>4, <1>6, <1>8 DEF Tells
<1>10. PICK from \in Nat : from = first.from /\ from = first'.from
  BY <1>2
<1>11. PICK time \in Nat, later \in Nat : time = at /\ later = at'
  BY <1>1
<1>12. Told(q, a, later, latest, from, end, has)
  <2>1. time <= later /\ to <= end /\ (time < later \/ (had => has) \/ time <= end)
    BY <1>4, <1>5, <1>7, <1>8, <1>11
  <2>2. Told(q, a, time, latest, from, to, had)
    BY <1>9, <1>10, <1>11
  <2>. QED
    BY <1>1, <2>1, <2>2, ToldGrows
<1>. QED
  BY <1>1, <1>5, <1>6, <1>7, <1>10, <1>11, <1>12 DEF Tells

-----------------------------------------------------------------------------
LEMMA SecondKeeps ==
  ASSUME SInv, S!Second
  PROVE  SInv'
<1>. USE DEF S!Second, S!statistics
<1>1. Clocks'
  BY DEF SInv, Clocks
<1>2. TickerKnown'
  <2>1. ticker' = ticker /\ ticked' = ticked /\ wall' = wall + 1 /\ wall \in Nat
    BY DEF SInv, Clocks
  <2>2. TickerKnown
    BY DEF SInv
  <2>3. ASSUME ticker.at = "klines", NEW i \in 1 .. Len(ticker.prices)
        PROVE  ticker.prices[i] < ticker.start /\ ticker.prices[i] <= wall'
    <3>1. ticker \in KlinesTicker
      BY <2>2, <2>3, TickerKinds
    <3>2. ticker.prices[i] \in Int
      BY <2>3, <3>1 DEF KlinesTicker
    <3>. QED
      BY <2>1, <2>2, <2>3, <3>2 DEF TickerKnown
  <2>. QED
    BY <2>1, <2>2, <2>3 DEF TickerKnown
<1>3. OfThePreload'
  BY DEF SInv, OfThePreload
<1>4. ASSUME NEW s \in Pairs PROVE Tells(s)'
  <2>1. PreloadEnd <= PreloadEnd' /\ at <= at' /\ HadIt(s)' = HadIt(s)
    BY DEF SInv, Clocks, PreloadEnd, HadIt
  <2>. QED
    BY <1>1, <2>1, TellsStill
<1>. QED
  BY <1>1, <1>2, <1>3, <1>4 DEF SInv

LEMMA FirstTickKeeps ==
  ASSUME SInv, NEW s \in Pairs, NEW t \in 0 .. Until, S!FirstTick(s, t)
  PROVE  SInv'
<1>. USE DEF S!FirstTick, S!Candle, S!statistics
<1>1. Clocks'
  <2>1. first' = [from |-> t, to |-> wall] /\ t \in Nat /\ wall \in Nat
    BY DEF SInv, Clocks
  <2>2. first' \in [from : Nat, to : Nat] /\ first'.from = t /\ first'.to = wall
    BY <2>1
  <2>3. at' = t /\ at <= t /\ t <= wall /\ latest' = latest /\ wall' = wall /\ preloaded' = TRUE
        /\ preload' = preload /\ samples' = samples
    OBVIOUS
  <2>. QED
    BY <2>1, <2>2, <2>3 DEF SInv, Clocks
<1>2. PICK watched \in SUBSET Pairs :
        ticker' = IF watched = {} THEN [at |-> "record", symbol |-> s]
                  ELSE [at |-> "rows", symbol |-> s, todo |-> watched, now |-> wall]
  OBVIOUS
<1>3. wall \in Nat /\ s \in ticked'
  BY DEF SInv, Clocks
<1>4. TickerKnown'
  <2>1. CASE watched = {}
    <3>1. ticker' = [at |-> "record", symbol |-> s]
      BY <1>2, <2>1
    <3>2. ticker' \in RecordTicker /\ ticker'.at = "record" /\ ticker'.symbol = s
      BY <3>1 DEF RecordTicker
    <3>. QED
      BY <1>3, <3>2 DEF TickerKnown
  <2>2. CASE watched # {}
    <3>1. ticker' = [at |-> "rows", symbol |-> s, todo |-> watched, now |-> wall]
      BY <1>2, <2>2
    <3>2. ticker' \in RowsTicker /\ ticker'.at = "rows" /\ ticker'.symbol = s
      BY <1>3, <3>1 DEF RowsTicker
    <3>. QED
      BY <1>3, <3>2 DEF TickerKnown
  <2>. QED
    BY <2>1, <2>2
<1>5. OfThePreload'
  <2>1. ASSUME NEW x \in Pairs PROVE averages[x] = S!NotYet /\ Rising(samples[x])
    <3>1. averages[x] = S!NotYet /\ Tells(x)
      BY DEF SInv, OfThePreload
    <3>2. samples[x] = <<>> /\ 1 .. Len(<<>>) = {}
      BY <3>1, Empty
    <3>. QED
      BY <3>1, <3>2 DEF Rising
  <2>2. samples' = samples /\ averages' = averages /\ preload' = preload /\ preload = {} /\ preloaded'
    BY DEF SInv, OfThePreload
  <2>. QED
    BY <2>1, <2>2 DEF OfThePreload, Rising
<1>6. ASSUME NEW x \in Pairs PROVE Tells(x)'
  <2>1. averages[x] = S!NotYet /\ Tells(x)
    BY DEF SInv, OfThePreload
  <2>2. samples[x] = <<>>
    BY <2>1, Empty
  <2>3. averages' = averages /\ samples' = samples
    OBVIOUS
  <2>. QED
    BY <2>1, <2>2, <2>3, ToldNothing DEF Tells
<1>. QED
  BY <1>1, <1>4, <1>5, <1>6 DEF SInv

LEMMA TickKeeps ==
  ASSUME SInv, NEW s \in Pairs, NEW t \in 0 .. Until, S!Tick(s, t)
  PROVE  SInv'
<1>. USE DEF S!Tick, S!Candle, S!statistics
<1>1. Clocks'
  BY DEF SInv, Clocks
<1>2. ticker = S!Resting /\ ticker' = [at |-> "record", symbol |-> s] /\ s \in ticked'
  OBVIOUS
<1>3. ticker' \in RecordTicker /\ ticker'.at = "record" /\ ticker'.symbol = s /\ ticker.at = "idle"
  BY <1>2 DEF RecordTicker, S!Resting
<1>4. TickerKnown'
  BY <1>2, <1>3 DEF TickerKnown
<1>5. OfThePreload'
  BY <1>3 DEF SInv, OfThePreload
<1>6. ASSUME NEW x \in Pairs PROVE Tells(x)'
  <2>1. PreloadEnd <= PreloadEnd' /\ at <= at' /\ first' = first
    BY <1>3 DEF SInv, Clocks, PreloadEnd
  <2>2. at < at' \/ (HadIt(x) => HadIt(x)')
    <3>1. at \in Nat /\ t \in Nat /\ at' = t
      BY DEF SInv, Clocks
    <3>2. CASE t = at
      <4>1. s \notin ticked /\ ticked' = ticked \union {s}
        BY <3>2
      <4>. QED
        BY <1>3, <4>1 DEF HadIt
    <3>. QED
      BY <3>1, <3>2
  <2>3. samples' = samples /\ averages' = averages /\ latest' = latest
    OBVIOUS
  <2>. QED
    BY <1>1, <2>1, <2>2, <2>3, TellsStill
<1>. QED
  BY <1>1, <1>4, <1>5, <1>6 DEF SInv

LEMMA NobodyKeeps ==
  ASSUME SInv, S!NobodyListens
  PROVE  SInv'
<1>. USE DEF S!NobodyListens, S!statistics
<1>1. Clocks'
  BY DEF SInv, Clocks
<1>2. ticker.at = "record" /\ ticker' = S!Resting /\ ticker'.at = "idle"
  BY DEF S!Resting
<1>4. TickerKnown' /\ preloaded
  <2>1. preloaded
    BY <1>2 DEF SInv, OfThePreload, S!Resting, Clocks
  <2>. QED
    BY <1>2, <2>1 DEF TickerKnown
<1>5. OfThePreload'
  BY <1>2, <1>4 DEF SInv, OfThePreload
<1>6. ASSUME NEW x \in Pairs PROVE Tells(x)'
  <2>1. PreloadEnd <= PreloadEnd' /\ at <= at' /\ first' = first
    BY <1>2 DEF SInv, Clocks, PreloadEnd
  <2>2. HadIt(x) => HadIt(x)'
    BY <1>2 DEF HadIt
  <2>3. samples' = samples /\ averages' = averages /\ latest' = latest
    OBVIOUS
  <2>. QED
    BY <1>1, <2>1, <2>2, <2>3, TellsStill
<1>. QED
  BY <1>1, <1>4, <1>5, <1>6 DEF SInv

LEMMA RecordKeeps ==
  ASSUME SInv, S!Record
  PROVE  SInv'
<1>. DEFINE s == ticker.symbol
            fed == {s} \union {x \in Pairs : averages[x] # S!NotYet}
            prices == [samples EXCEPT ![s] = Append(@, at)]
<1>1. /\ ticker.at = "record"
      /\ S!Refresh(fed, prices, at)
      /\ ticker' = S!Resting /\ latest' = at
      /\ UNCHANGED <<wall, at, ticked, recorded, preloaded, preload, first>>
  BY DEF S!Record
<1>. HIDE DEF prices, fed
<1>2. ticker \in RecordTicker /\ s \in Pairs /\ s \in ticked
  BY <1>1, TickerKinds DEF SInv, TickerKnown, RecordTicker
<1>3. Clocks'
  <2>1. DOMAIN samples' = Pairs
    BY <1>1 DEF S!Refresh
  <2>. QED
    BY <1>1, <2>1 DEF SInv, Clocks
<1>4. ticker'.at = "idle" /\ TickerKnown' /\ preloaded
  <2>1. ticker'.at = "idle"
    BY <1>1 DEF S!Resting
  <2>2. preloaded
    BY <1>1 DEF SInv, OfThePreload, S!Resting, Clocks
  <2>. QED
    BY <1>1, <2>1, <2>2 DEF TickerKnown
<1>5. OfThePreload'
  BY <1>1, <1>4 DEF SInv, OfThePreload, Clocks
<1>6. /\ at \in Nat /\ latest \in Nat /\ first.from \in Nat /\ first.to \in Nat /\ first.from <= at
      /\ PreloadEnd = first.to /\ PreloadEnd' = first.to /\ at' = at /\ latest' = at /\ first' = first
      /\ DOMAIN samples = Pairs
  BY <1>1, <1>4 DEF SInv, Clocks, PreloadEnd
<1>7. ASSUME NEW x \in Pairs PROVE Tells(x)'
  <2>1. Tells(x)
    BY DEF SInv
  <2>2. CASE x = s
    <3>1. ~HadIt(x) /\ HadIt(x)'
      BY <1>1, <1>2, <1>4, <2>2 DEF HadIt
    <3>2. Told(samples[x], averages[x], at, latest, first.from, first.to, FALSE)
      BY <1>6, <2>1, <3>1 DEF Tells, Told, UpTo
    <3>3. prices[x] = Append(samples[x], at) /\ x \in fed
      BY <1>6, <2>2 DEF prices, fed
    <3>4. /\ samples'[x] = S!Pruned(Append(samples[x], at), averages[x], at)
          /\ averages'[x] = S!Averaged(Append(samples[x], at), averages[x], at)
      BY <1>1, <3>3 DEF S!Refresh
    <3>5. Told(samples'[x], averages'[x], at, at, first.from, first.to, TRUE)
      BY <1>6, <3>2, <3>4, Recorded DEF Told
    <3>. QED
      BY <1>6, <3>1, <3>5 DEF Tells, Told, UpTo
  <2>3. CASE x # s
    <3>1. HadIt(x) = HadIt(x)'
      BY <1>1, <1>4, <2>3 DEF HadIt
    <3>2. CASE averages[x] = S!NotYet
      <4>1. samples[x] = <<>> /\ x \notin fed
        BY <2>1, <2>3, <3>2, Empty DEF fed
      <4>2. samples'[x] = <<>> /\ averages'[x] = S!NotYet
        BY <1>1, <3>2, <4>1 DEF S!Refresh
      <4>. QED
        BY <4>2, ToldNothing DEF Tells
    <3>3. CASE averages[x] # S!NotYet
      <4>1. prices[x] = samples[x] /\ x \in fed
        BY <1>6, <2>3, <3>3 DEF prices, fed
      <4>2. /\ samples'[x] = S!Pruned(samples[x], averages[x], at)
            /\ averages'[x] = S!Averaged(samples[x], averages[x], at)
        BY <1>1, <4>1 DEF S!Refresh
      <4>3. PICK had \in BOOLEAN : had = HadIt(x)
        BY DEF HadIt
      <4>4. Told(samples[x], averages[x], at, latest, first.from, first.to, had)
        BY <1>6, <2>1, <4>3 DEF Tells
      <4>5. Told(samples'[x], averages'[x], at, at, first.from, first.to, had)
        BY <1>6, <3>3, <4>2, <4>4, PassedBy DEF Told
      <4>. QED
        BY <1>6, <3>1, <4>3, <4>5 DEF Tells
    <3>. QED
      BY <3>2, <3>3
  <2>. QED
    BY <2>2, <2>3
<1>. QED
  BY <1>3, <1>4, <1>5, <1>7 DEF SInv

-----------------------------------------------------------------------------
(* Loading what was found of some symbols.                                 *)
LEMMA LoadKeeps ==
  ASSUME SInv, ticker.at \in {"rows", "klines"}, NEW found, S!LoadAll(found), DOMAIN found \subseteq Pairs,
         \A x \in DOMAIN found :
           /\ found[x] \in Seq(Int) /\ Rising(found[x])
           /\ \A i \in 1 .. Len(found[x]) : found[x][i] <= wall,
         ticker'.at = "klines", UNCHANGED first, S!Preloading
  PROVE  Clocks' /\ OfThePreload' /\ \A s \in Pairs : Tells(s)'
<1>. DEFINE fed == DOMAIN found \ preload
<1>1. /\ preload' = preload \union DOMAIN found /\ S!Refresh(fed, found, wall)
      /\ UNCHANGED <<wall, at, ticked, recorded, preloaded, latest, first>>
  BY DEF S!LoadAll, S!Preloading
<1>2. Clocks'
  <2>1. DOMAIN samples' = Pairs
    BY <1>1 DEF S!Refresh
  <2>. QED
    BY <1>1, <2>1 DEF SInv, Clocks
<1>3. preloaded
  BY DEF SInv, OfThePreload, S!Resting, Clocks
<1>4. \A s \in Pairs \ preload : averages[s] = S!NotYet
  BY DEF SInv, OfThePreload
<1>5. \A s \in Pairs \ preload' : averages'[s] = S!NotYet
  BY <1>1, <1>4 DEF S!Refresh
<1>9. ASSUME NEW s \in Pairs PROVE Rising(samples'[s])
  <2>1. CASE s \in fed
    <3>1. averages[s] = S!NotYet /\ s \in DOMAIN found
      BY <1>4, <2>1
    <3>2. samples'[s] = S!Since(found[s], wall - Week)
      BY <1>1, <2>1, <3>1 DEF S!Refresh, S!Pruned, S!Due
    <3>3. wall - Week \in Int
      BY SidesAssumption DEF S!StatisticsAssumption, SInv, Clocks
    <3>4. samples'[s] \in Seq(Int) /\ SubOf(samples'[s], found[s])
      BY <3>1, <3>2, <3>3, SinceFacts
    <3>5. 0 \in Int
      OBVIOUS
    <3>. QED
      BY <3>1, <3>4, <3>5, RisingSub
  <2>2. CASE s \notin fed
    BY <1>1, <2>2 DEF S!Refresh, SInv, OfThePreload
  <2>. QED
    BY <2>1, <2>2
<1>6. OfThePreload'
  BY <1>1, <1>3, <1>5, <1>9 DEF OfThePreload, Rising
<1>7. /\ wall \in Nat /\ at \in Nat /\ latest \in Nat /\ latest <= wall
      /\ first.from \in Nat /\ PreloadEnd = wall /\ PreloadEnd' = wall
  BY <1>1 DEF SInv, Clocks, PreloadEnd
<1>8. ASSUME NEW s \in Pairs PROVE Tells(s)'
  <2>1. CASE s \in fed
    <3>1. averages[s] = S!NotYet /\ s \in DOMAIN found
      BY <1>4, <2>1
    <3>2. samples'[s] = S!Pruned(found[s], S!NotYet, wall) /\ averages'[s] = S!Averaged(found[s], S!NotYet, wall)
      BY <1>1, <2>1, <3>1 DEF S!Refresh
    <3>3. PICK has : has = HadIt(s)'
      OBVIOUS
    <3>4. Told(samples'[s], averages'[s], at, latest, first.from, wall, has)
      BY <1>7, <3>1, <3>2, ToldLoaded
    <3>. QED
      BY <1>1, <1>7, <3>3, <3>4 DEF Tells
  <2>2. CASE s \notin fed
    <3>1. samples'[s] = samples[s] /\ averages'[s] = averages[s]
      BY <1>1, <2>2 DEF S!Refresh
    <3>2. HadIt(s) => HadIt(s)'
      BY <1>1 DEF HadIt
    <3>3. PreloadEnd <= PreloadEnd' /\ at <= at' /\ first'.from = first.from
      BY <1>1, <1>7
    <3>. QED
      BY <1>1, <1>2, <3>1, <3>2, <3>3, TellsStill
  <2>. QED
    BY <2>1, <2>2
<1>. QED
  BY <1>2, <1>6, <1>8

(* Where nothing is loaded.                                                *)
LEMMA LeftAlone ==
  ASSUME SInv, UNCHANGED <<wall, at, ticked, recorded, preloaded, latest, S!statistics>>,
         first' = first \/ first' = [first EXCEPT !.to = wall],
         ticker.at \in {"rows", "klines"}, ticker'.at \in {"klines", "record"},
         ticker'.at = "record" =>
           (\A s \in Pairs : averages[s] = S!NotYet) \/ first' = [first EXCEPT !.to = wall],
         ticker'.at = "record" \/ first' = first
  PROVE  Clocks' /\ OfThePreload' /\ \A s \in Pairs : Tells(s)'
<1>. USE DEF S!statistics
<1>1. wall \in Nat /\ first \in [from : Nat, to : Nat] /\ first.from <= wall /\ first.to <= wall
  BY DEF SInv, Clocks
<1>2. /\ first' \in [from : Nat, to : Nat] /\ first'.from = first.from
      /\ first'.to \in {first.to, wall}
      /\ first' = [first EXCEPT !.to = wall] => first'.to = wall
  BY <1>1
<1>3. Clocks'
  BY <1>1, <1>2 DEF SInv, Clocks
<1>4. preloaded
  BY DEF SInv, OfThePreload, S!Resting, Clocks
<1>5. OfThePreload'
  BY <1>4 DEF SInv, OfThePreload
<1>6. ASSUME NEW s \in Pairs PROVE Tells(s)'
  <2>1. CASE averages[s] = S!NotYet
    <3>1. samples[s] = <<>>
      BY <2>1, Empty DEF SInv
    <3>. QED
      BY <2>1, <3>1, ToldNothing DEF Tells
  <2>2. CASE averages[s] # S!NotYet
    <3>1. PreloadEnd <= PreloadEnd' /\ at <= at' /\ at <= PreloadEnd'
      <4>1. PreloadEnd = wall /\ PreloadEnd' = wall
        BY <1>2, <2>2 DEF PreloadEnd
      <4>. QED
        BY <1>1, <4>1 DEF SInv, Clocks
    <3>2. samples' = samples /\ averages' = averages /\ latest' = latest
      OBVIOUS
    <3>. QED
      BY <1>2, <1>3, <3>1, <3>2, TellsStill
  <2>. QED
    BY <2>1, <2>2
<1>. QED
  BY <1>3, <1>5, <1>6

LEMMA ReadRowsKeeps ==
  ASSUME SInv, S!ReadRows
  PROVE  SInv'
<1>1. ticker.at = "rows" /\ UNCHANGED first /\ S!Preloading /\ ticker \in RowsTicker
  BY TickerKinds DEF S!ReadRows, SInv
<1>2. PICK written \in BOOLEAN :
        LET many == {s \in ticker.todo : Len(S!Rows(s, written)) >= Enough}
        IN /\ S!LoadAll([s \in many |-> S!Rows(s, written)])
           /\ ticker' = S!Unread(ticker.todo \ many)
  BY DEF S!ReadRows
<1>. DEFINE many == {s \in ticker.todo : Len(S!Rows(s, written)) >= Enough}
            found == [s \in many |-> S!Rows(s, written)]
<1>3. S!LoadAll(found) /\ ticker' = S!Unread(ticker.todo \ many)
  BY <1>2
<1>4. many \subseteq Pairs /\ DOMAIN found = many /\ \A s \in many : found[s] = S!Rows(s, written)
  BY <1>1 DEF RowsTicker
<1>. HIDE DEF many, found
<1>5. wall \in Nat /\ at \in Nat /\ at <= wall /\ Week \in Nat \ {0} /\ ticker.now \in Nat
      /\ ticker.symbol \in Pairs /\ ticker.symbol \in ticked /\ ticker.todo \subseteq Pairs
  BY <1>1, SidesAssumption DEF SInv, Clocks, RowsTicker, S!StatisticsAssumption, TickerKnown
<1>6. ASSUME NEW s \in many
      PROVE  /\ found[s] \in Seq(Int) /\ Rising(found[s])
             /\ \A i \in 1 .. Len(found[s]) : found[s][i] <= wall
  <2>. DEFINE lo == -recorded[s]
              hi == IF written THEN at ELSE -1
              n  == S!Numbers(lo, hi)
              c  == ticker.now - Week
  <2>1. found[s] = S!Since(n, c)
    BY <1>4 DEF S!Rows
  <2>2. lo \in Int /\ hi \in Int /\ hi <= wall /\ c \in Int
    <3>1. recorded[s] \in Nat
      BY <1>4 DEF SInv, Clocks
    <3>. QED
      BY <1>4, <1>5, <3>1
  <2>. HIDE DEF lo, hi, c
  <2>3. n \in Seq(Int) /\ Rising(n) /\ Within(n, lo, hi)
    BY <2>2, NumbersFacts
  <2>. HIDE DEF n
  <2>4. found[s] \in Seq(Int) /\ SubOf(found[s], n)
    BY <2>1, <2>2, <2>3, SinceFacts
  <2>5. Rising(found[s]) /\ Within(found[s], lo, hi)
    BY <2>2, <2>3, <2>4, RisingSub
  <2>. QED
    BY <1>5, <2>2, <2>4, <2>5, SMTT(30) DEF Within
<1>7. ticker' = [at |-> "klines", symbol |-> ticker.symbol, todo |-> ticker.todo \ many, now |-> ticker.now,
                 start |-> ticker.now - Week, more |-> TRUE, prices |-> <<>>, errors |-> 0]
  BY <1>3 DEF S!Unread
<1>8. ticker' \in KlinesTicker /\ ticker'.at = "klines" /\ ticker'.symbol = ticker.symbol /\ ticker'.prices = <<>>
  <2>1. <<>> \in Seq(Int) /\ 0 \in Nat /\ ticker.now - Week \in Int /\ ticker.todo \ many \in SUBSET Pairs
    BY <1>5
  <2>. QED
    BY <1>5, <1>7, <2>1 DEF KlinesTicker
<1>9. TickerKnown'
  <2>1. ticked' = ticked /\ 1 .. Len(<<>>) = {}
    BY <1>1 DEF S!Preloading
  <2>. QED
    BY <1>5, <1>8, <2>1 DEF TickerKnown, Rising
<1>10. Clocks' /\ OfThePreload' /\ \A s \in Pairs : Tells(s)'
  BY <1>1, <1>3, <1>4, <1>6, <1>8, LoadKeeps
<1>. QED
  BY <1>9, <1>10 DEF SInv

LEMMA RowsFailKeeps ==
  ASSUME SInv, S!ReadRowsFails
  PROVE  SInv'
<1>1. /\ ticker.at = "rows" /\ ticker' = [at |-> "record", symbol |-> ticker.symbol]
      /\ UNCHANGED <<wall, at, ticked, recorded, preloaded, latest, S!statistics>> /\ first' = first
  BY DEF S!ReadRowsFails, S!Preloading, S!statistics
<1>2. ticker \in RowsTicker /\ ticker.symbol \in Pairs /\ ticker.symbol \in ticked
  BY <1>1, TickerKinds DEF SInv, RowsTicker, TickerKnown
<1>3. ticker' \in RecordTicker /\ ticker'.at = "record" /\ ticker'.symbol = ticker.symbol
  BY <1>1, <1>2 DEF RecordTicker
<1>4. TickerKnown'
  BY <1>1, <1>2, <1>3 DEF TickerKnown
<1>5. \A s \in Pairs : averages[s] = S!NotYet
  BY <1>1 DEF SInv, OfThePreload
<1>6. Clocks' /\ OfThePreload' /\ \A s \in Pairs : Tells(s)'
  BY <1>1, <1>3, <1>5, LeftAlone
<1>. QED
  BY <1>4, <1>6 DEF SInv

LEMMA PreloadedKeeps ==
  ASSUME SInv, S!Preloaded
  PROVE  SInv'
<1>1. /\ ticker.at = "klines" /\ ticker' = [at |-> "record", symbol |-> ticker.symbol]
      /\ UNCHANGED <<wall, at, ticked, recorded, preloaded, latest, S!statistics>>
      /\ first' = [first EXCEPT !.to = wall]
  BY DEF S!Preloaded, S!Preloading, S!statistics
<1>2. ticker \in KlinesTicker /\ ticker.symbol \in Pairs /\ ticker.symbol \in ticked
  BY <1>1, TickerKinds DEF SInv, KlinesTicker, TickerKnown
<1>3. ticker' \in RecordTicker /\ ticker'.at = "record" /\ ticker'.symbol = ticker.symbol
  BY <1>1, <1>2 DEF RecordTicker
<1>4. TickerKnown'
  BY <1>1, <1>2, <1>3 DEF TickerKnown
<1>6. Clocks' /\ OfThePreload' /\ \A s \in Pairs : Tells(s)'
  BY <1>1, <1>3, LeftAlone
<1>. QED
  BY <1>4, <1>6 DEF SInv

(* The reader of klines, with one field of it changed at a time.           *)
LEMMA ReaderFields ==
  ASSUME NEW k \in KlinesTicker, NEW e \in Nat, NEW m \in BOOLEAN
  PROVE  /\ [k EXCEPT !.more = m, !.errors = e] =
               [at |-> "klines", symbol |-> k.symbol, todo |-> k.todo, now |-> k.now, start |-> k.start,
                more |-> m, prices |-> k.prices, errors |-> e]
         /\ [k EXCEPT !.errors = e] =
               [at |-> "klines", symbol |-> k.symbol, todo |-> k.todo, now |-> k.now, start |-> k.start,
                more |-> k.more, prices |-> k.prices, errors |-> e]
<1>. DEFINE K(n1, m1, q1, e1) ==
              [at |-> "klines", symbol |-> k.symbol, todo |-> k.todo, now |-> k.now, start |-> n1,
               more |-> m1, prices |-> q1, errors |-> e1]
<1>1. k = K(k.start, k.more, k.prices, k.errors)
  BY DEF KlinesTicker
<1>2. \A n1, m1, q1, e1, x :
        /\ [K(n1, m1, q1, e1) EXCEPT !.prices = x] = K(n1, m1, x, e1)
        /\ [K(n1, m1, q1, e1) EXCEPT !.start = x] = K(x, m1, q1, e1)
        /\ [K(n1, m1, q1, e1) EXCEPT !.more = x] = K(n1, x, q1, e1)
        /\ [K(n1, m1, q1, e1) EXCEPT !.errors = x] = K(n1, m1, q1, x)
  OBVIOUS
<1>3. [k EXCEPT !.errors = e] = K(k.start, k.more, k.prices, e)
  <2>. HIDE DEF K
  <2>. QED
    BY <1>1, <1>2
<1>4. [k EXCEPT !.more = m, !.errors = e] = K(k.start, m, k.prices, e)
  <2>1. PICK a : a = K(k.start, m, k.prices, k.errors)
    OBVIOUS
  <2>. HIDE DEF K
  <2>2. [k EXCEPT !.more = m] = a
    BY <1>1, <1>2, <2>1
  <2>3. [a EXCEPT !.errors = e] = K(k.start, m, k.prices, e)
    BY <1>2, <2>1
  <2>. QED
    BY <2>2, <2>3
<1>. QED
  BY <1>3, <1>4

Paged(k, q, n) == [k EXCEPT !.prices = q, !.start = n, !.errors = 0]

Reader(k, q, n) ==
  [at |-> "klines", symbol |-> k.symbol, todo |-> k.todo, now |-> k.now, start |-> n,
   more |-> k.more, prices |-> q, errors |-> 0]

LEMMA PagedIsReader ==
  \A k \in KlinesTicker, q \in Seq(Int), n \in Int : Paged(k, q, n) = Reader(k, q, n)
<1>1. ASSUME NEW k \in KlinesTicker, NEW q \in Seq(Int), NEW n \in Int
      PROVE  Paged(k, q, n) = Reader(k, q, n)
  <2>. DEFINE K(q1, n1, e1) ==
                [at |-> "klines", symbol |-> k.symbol, todo |-> k.todo, now |-> k.now, start |-> n1,
                 more |-> k.more, prices |-> q1, errors |-> e1]
  <2>1. PICK a : a = K(q, k.start, k.errors)
    OBVIOUS
  <2>2. PICK b : b = K(q, n, k.errors)
    OBVIOUS
  <2>3. [k EXCEPT !.prices = q] = a
    BY <2>1 DEF KlinesTicker
  <2>4. [a EXCEPT !.start = n] = b
    BY <2>1, <2>2
  <2>5. [b EXCEPT !.errors = 0] = K(q, n, 0)
    BY <2>2
  <2>6. K(q, n, 0) = Reader(k, q, n)
    BY DEF Reader
  <2>7. Paged(k, q, n) = [[[k EXCEPT !.prices = q] EXCEPT !.start = n] EXCEPT !.errors = 0]
    BY DEF Paged
  <2>. HIDE DEF K
  <2>. QED
    BY <2>3, <2>4, <2>5, <2>6, <2>7
<1>. QED
  BY <1>1

LEMMA ReaderGoesOn ==
  ASSUME SInv, ticker.at = "klines", UNCHANGED <<S!statistics, first>>, S!Preloading,
         NEW q \in Seq(Int), NEW n \in Int, NEW e \in Nat, NEW m \in BOOLEAN,
         ticker' = [at |-> "klines", symbol |-> ticker.symbol, todo |-> ticker.todo, now |-> ticker.now,
                    start |-> n, more |-> m, prices |-> q, errors |-> e],
         Rising(q), \A i \in 1 .. Len(q) : q[i] < n /\ q[i] <= wall
  PROVE  SInv'
<1>1. UNCHANGED <<wall, at, ticked, recorded, preloaded, latest, S!statistics>> /\ first' = first
  BY DEF S!Preloading, S!statistics
<1>2. ticker \in KlinesTicker /\ ticker.symbol \in ticked
  BY TickerKinds DEF SInv, TickerKnown
<1>3. /\ ticker' \in KlinesTicker /\ ticker'.at = "klines" /\ ticker'.symbol = ticker.symbol
      /\ ticker'.prices = q /\ ticker'.start = n
  BY <1>2 DEF KlinesTicker
<1>4. TickerKnown'
  BY <1>1, <1>2, <1>3 DEF TickerKnown
<1>5. Clocks' /\ OfThePreload' /\ \A s \in Pairs : Tells(s)'
  BY <1>1, <1>3, LeftAlone
<1>. QED
  BY <1>4, <1>5 DEF SInv

LEMMA PageFailsKeeps ==
  ASSUME SInv, S!PageFails
  PROVE  SInv'
<1>1. PICK errors \in {ticker.errors, 0} : ticker' = [ticker EXCEPT !.errors = errors + 1]
  BY DEF S!PageFails
<1>2. ticker.at = "klines" /\ UNCHANGED <<S!statistics, first>> /\ S!Preloading
  BY DEF S!PageFails, S!Reading
<1>3. /\ ticker \in KlinesTicker /\ ticker.errors \in Nat /\ ticker.prices \in Seq(Int)
      /\ ticker.start \in Int /\ ticker.more \in BOOLEAN
      /\ Rising(ticker.prices)
      /\ \A i \in 1 .. Len(ticker.prices) : ticker.prices[i] < ticker.start /\ ticker.prices[i] <= wall
  BY <1>2, TickerKinds DEF SInv, KlinesTicker, TickerKnown
<1>4. errors + 1 \in Nat
  BY <1>1, <1>3
<1>5. ticker' = [at |-> "klines", symbol |-> ticker.symbol, todo |-> ticker.todo, now |-> ticker.now,
                 start |-> ticker.start, more |-> ticker.more, prices |-> ticker.prices, errors |-> errors + 1]
  BY <1>1, <1>3, <1>4, ReaderFields
<1>. QED
  BY <1>2, <1>3, <1>4, <1>5, ReaderGoesOn

LEMMA ReadPageKeeps ==
  ASSUME SInv, S!ReadPage
  PROVE  SInv'
<1>. DEFINE page == S!Klines(ticker.start)
<1>1. /\ ticker.at = "klines" /\ UNCHANGED <<S!statistics, first>> /\ S!Preloading
      /\ ticker' = IF page = <<>> THEN [ticker EXCEPT !.more = FALSE, !.errors = 0]
                   ELSE [ticker EXCEPT !.prices = @ \o page, !.start = page[Len(page)] + 1,
                                       !.errors = 0]
  BY DEF S!ReadPage, S!Reading
<1>2. /\ ticker \in KlinesTicker /\ ticker.prices \in Seq(Int)
      /\ ticker.start \in Int /\ ticker.more \in BOOLEAN /\ wall \in Nat
      /\ Rising(ticker.prices)
      /\ \A i \in 1 .. Len(ticker.prices) : ticker.prices[i] < ticker.start /\ ticker.prices[i] <= wall
  BY <1>1, TickerKinds DEF SInv, KlinesTicker, TickerKnown, Clocks
<1>3. page \in Seq(Int) /\ Rising(page) /\ Within(page, ticker.start, wall)
  BY <1>2, KlinesFacts
<1>. HIDE DEF page
<1>4. CASE page = <<>>
  <2>1. ticker' = [at |-> "klines", symbol |-> ticker.symbol, todo |-> ticker.todo, now |-> ticker.now,
                   start |-> ticker.start, more |-> FALSE, prices |-> ticker.prices, errors |-> 0]
    BY <1>1, <1>2, <1>4, ReaderFields
  <2>. QED
    BY <1>1, <1>2, <2>1, ReaderGoesOn
<1>5. CASE page # <<>>
  <2>. DEFINE q == ticker.prices \o page
              n == page[Len(page)] + 1
  <2>1. Len(page) \in 1 .. Len(page) /\ page[Len(page)] \in Int /\ Len(ticker.prices) \in Nat /\ Len(page) \in Nat
    BY <1>2, <1>3, <1>5
  <2>. DEFINE w == ticker.prices
  <2>2. /\ q \in Seq(Int) /\ Len(q) = Len(w) + Len(page) /\ n \in Int
        /\ \A i \in 1 .. Len(w) : q[i] = w[i]
        /\ \A i \in 1 .. Len(page) : q[i + Len(w)] = page[i]
    BY <1>2, <1>3, <2>1
  <2>3. ticker' = [at |-> "klines", symbol |-> ticker.symbol, todo |-> ticker.todo, now |-> ticker.now,
                   start |-> n, more |-> ticker.more, prices |-> q, errors |-> 0]
    <3>1. ticker' = [ticker EXCEPT !.prices = q, !.start = n, !.errors = 0]
      BY <1>1, <1>5
    <3>2. ticker' = Paged(ticker, q, n)
      BY <3>1 DEF Paged
    <3>3. q \in Seq(Int) /\ n \in Int
      BY <2>2
    <3>. HIDE DEF q, n
    <3>4. ticker' = Reader(ticker, q, n)
      BY <1>2, <3>2, <3>3, PagedIsReader
    <3>. QED
      BY <3>4 DEF Reader
  <2>4. \A i \in 1 .. Len(page) : page[i] <= page[Len(page)] /\ page[i] \in Int
                              /\ ticker.start <= page[i] /\ page[i] <= wall
    <3>1. ASSUME NEW i \in 1 .. Len(page) PROVE page[i] <= page[Len(page)] /\ page[i] \in Int
      <4>1. page[i] \in Int
        BY <1>3
      <4>2. i = Len(page) \/ i < Len(page)
        BY <2>1
      <4>. QED
        BY <1>3, <2>1, <4>1, <4>2 DEF Rising
    <3>. QED
      BY <1>3, <3>1 DEF Within
  <2>5. PICK x \in Nat, y \in Nat : x = Len(w) /\ y = Len(page)
    BY <2>1
  <2>6. Len(q) = x + y /\ (\A i \in 1 .. x : w[i] \in Int /\ q[i] = w[i])
    BY <1>2, <2>2, <2>5
  <2>7. \A i \in 1 .. Len(q) : q[i] \in Int
    BY <2>2
  <2>8. PICK r : r = q
    OBVIOUS
  <2>9. PICK m \in Int : m = n
    BY <2>2
  <2>10. PICK v : v = w
    OBVIOUS
  <2>11. \A i \in 1 .. y : r[i + x] = page[i]
    BY <2>2, <2>5, <2>8
  <2>12. ASSUME NEW i \in 1 .. x + y, i > x PROVE i - x \in 1 .. y /\ r[i] = page[i - x]
    <3>1. i - x \in 1 .. y /\ (i - x) + x = i
      BY <2>12
    <3>. QED
      BY <2>11, <3>1
  <2>13. /\ \A i \in 1 .. x : r[i] = v[i] /\ v[i] \in Int /\ v[i] < ticker.start /\ v[i] <= wall
         /\ \A i, j \in 1 .. x : i < j => v[i] < v[j]
    BY <1>2, <2>5, <2>6, <2>8, <2>10 DEF Rising
  <2>14. /\ \A i \in 1 .. y : page[i] < m /\ page[i] \in Int /\ ticker.start <= page[i] /\ page[i] <= wall
         /\ \A i, j \in 1 .. y : i < j => page[i] < page[j]
         /\ ticker.start < m
    <3>1. m = page[Len(page)] + 1
      BY <2>9
    <3>. QED
      BY <1>2, <1>3, <2>1, <2>4, <2>5, <3>1 DEF Rising
  <2>15. \A i \in 1 .. x + y : r[i] < m /\ r[i] <= wall /\ r[i] \in Int
    BY <1>2, <2>12, <2>13, <2>14
  <2>16. ASSUME NEW i \in 1 .. x + y, NEW j \in 1 .. x + y, i < j PROVE r[i] < r[j]
    <3>1. CASE j <= x
      BY <2>13, <2>16, <3>1
    <3>2. CASE j > x /\ i <= x
      <4>1. r[i] < ticker.start /\ r[j] = page[j - x] /\ j - x \in 1 .. y /\ r[i] \in Int
        BY <2>12, <2>13, <3>2
      <4>. QED
        BY <1>2, <2>14, <4>1
    <3>3. CASE j > x /\ i > x
      <4>1. r[i] = page[i - x] /\ r[j] = page[j - x] /\ j - x \in 1 .. y /\ i - x \in 1 .. y /\ i - x < j - x
        BY <2>12, <2>16, <3>3
      <4>. QED
        BY <2>14, <4>1
    <3>. QED
      BY <3>1, <3>2, <3>3
  <2>17. q \in Seq(Int) /\ Rising(q) /\ \A i \in 1 .. Len(q) : q[i] < n /\ q[i] <= wall
    BY <2>2, <2>6, <2>8, <2>9, <2>15, <2>16 DEF Rising
  <2>. HIDE DEF n, q
  <2>18. q \in Seq(Int) /\ n \in Int /\ 0 \in Nat
    BY <2>2
  <2>. QED
    BY <1>1, <1>2, <2>3, <2>17, <2>18, ReaderGoesOn
<1>. QED
  BY <1>4, <1>5

LEMMA SymbolReadKeeps ==
  ASSUME SInv, NEW s \in Pairs, S!SymbolRead(s)
  PROVE  SInv'
<1>. DEFINE found == [x \in {y \in {s} : ticker.prices # <<>>} |-> ticker.prices]
<1>1. /\ ticker.at = "klines" /\ S!LoadAll(found) /\ ticker' = S!Unread(ticker.todo \ {s})
      /\ UNCHANGED first /\ S!Preloading
  BY DEF S!SymbolRead
<1>2. /\ ticker \in KlinesTicker /\ ticker.prices \in Seq(Int) /\ Rising(ticker.prices)
      /\ \A i \in 1 .. Len(ticker.prices) : ticker.prices[i] <= wall
  BY <1>1, TickerKinds DEF SInv, KlinesTicker, TickerKnown
<1>3. DOMAIN found \subseteq Pairs /\ \A x \in DOMAIN found : found[x] = ticker.prices
  OBVIOUS
<1>. HIDE DEF found
<1>5. Week \in Nat \ {0} /\ ticker.now \in Nat
      /\ ticker.symbol \in Pairs /\ ticker.symbol \in ticked /\ ticker.todo \subseteq Pairs
  BY <1>1, <1>2, SidesAssumption DEF SInv, KlinesTicker, S!StatisticsAssumption, TickerKnown
<1>7. ticker' = [at |-> "klines", symbol |-> ticker.symbol, todo |-> ticker.todo \ {s}, now |-> ticker.now,
                 start |-> ticker.now - Week, more |-> TRUE, prices |-> <<>>, errors |-> 0]
  BY <1>1 DEF S!Unread
<1>8. ticker' \in KlinesTicker /\ ticker'.at = "klines" /\ ticker'.symbol = ticker.symbol /\ ticker'.prices = <<>>
  <2>1. <<>> \in Seq(Int) /\ 0 \in Nat /\ ticker.now - Week \in Int /\ ticker.todo \ {s} \in SUBSET Pairs
    BY <1>5
  <2>. QED
    BY <1>5, <1>7, <2>1 DEF KlinesTicker
<1>9. TickerKnown'
  <2>1. ticked' = ticked /\ 1 .. Len(<<>>) = {}
    BY <1>1 DEF S!Preloading
  <2>. QED
    BY <1>5, <1>8, <2>1 DEF TickerKnown, Rising
<1>10. Clocks' /\ OfThePreload' /\ \A x \in Pairs : Tells(x)'
  BY <1>1, <1>2, <1>3, <1>8, LoadKeeps
<1>. QED
  BY <1>9, <1>10 DEF SInv

LEMMA PricesInductive == SInv /\ [S!StatisticsNext]_(S!statisticsVars) => SInv'
<1> SUFFICES ASSUME SInv, [S!StatisticsNext]_(S!statisticsVars) PROVE SInv'
  OBVIOUS
<1>1. CASE UNCHANGED S!statisticsVars
  <2>. USE <1>1 DEF S!statisticsVars, S!statistics
  <2>1. Clocks'
    BY DEF SInv, Clocks
  <2>2. TickerKnown' /\ OfThePreload'
    BY DEF SInv, TickerKnown, OfThePreload
  <2>3. ASSUME NEW s \in Pairs PROVE Tells(s)'
    BY DEF SInv, Tells, PreloadEnd, HadIt
  <2>. QED
    BY <2>1, <2>2, <2>3 DEF SInv
<1>2. ASSUME NEW s \in Pairs, NEW t \in 0 .. Until, S!FirstTick(s, t) \/ S!Tick(s, t) PROVE SInv'
  BY <1>2, FirstTickKeeps, TickKeeps
<1>3. ASSUME NEW s \in Pairs, S!SymbolRead(s) PROVE SInv'
  BY <1>3, SymbolReadKeeps
<1>4. CASE S!Second \/ S!Record \/ S!NobodyListens \/ S!ReadRows \/ S!ReadRowsFails \/ S!ReadPage \/ S!PageFails \/ S!Preloaded
  BY <1>4, SecondKeeps, RecordKeeps, NobodyKeeps, ReadRowsKeeps, RowsFailKeeps, ReadPageKeeps,
     PageFailsKeeps, PreloadedKeeps
<1>. QED
  BY <1>1, <1>2, <1>3, <1>4 DEF S!StatisticsNext

LEMMA PricesInitially == S!StatisticsInit => SInv
<1> SUFFICES ASSUME S!StatisticsInit PROVE SInv
  OBVIOUS
<1>. USE DEF S!StatisticsInit
<1>1. Clocks
  <2>1. \A s \in Pairs : recorded[s] \in Nat
    BY SidesAssumption DEF S!StatisticsAssumption
  <2>2. first \in [from : Nat, to : Nat] /\ first.from = 0 /\ first.to = 0 /\ DOMAIN samples = Pairs
    OBVIOUS
  <2>3. wall = 0 /\ at = 0 /\ latest = 0 /\ preloaded = FALSE /\ preload = {}
    OBVIOUS
  <2>4. /\ wall \in Nat /\ at \in Nat /\ latest \in Nat /\ preloaded \in BOOLEAN /\ preload \subseteq Pairs
        /\ at <= wall /\ latest <= at /\ first.from <= at /\ first.from <= first.to /\ first.to <= wall
    <3>1. 0 \in Nat /\ FALSE \in BOOLEAN /\ {} \subseteq Pairs /\ 0 <= 0
      OBVIOUS
    <3>. HIDE DEF S!StatisticsInit
    <3>2. wall \in Nat /\ at \in Nat /\ latest \in Nat /\ preloaded \in BOOLEAN /\ preload \subseteq Pairs
      BY <2>3, <3>1
    <3>3. at <= wall /\ latest <= at /\ first.from <= at /\ first.from <= first.to /\ first.to <= wall
      BY <2>2, <2>3, <3>1
    <3>. QED
      BY <3>2, <3>3
  <2>. HIDE DEF S!StatisticsInit
  <2>. QED
    BY <2>1, <2>2, <2>4 DEF Clocks
<1>2. ticker.at = "idle"
  BY DEF S!Resting
<1>3. TickerKnown /\ OfThePreload
  BY <1>2 DEF TickerKnown, OfThePreload
<1>4. ASSUME NEW s \in Pairs PROVE Tells(s)
  BY ToldNothing DEF Tells
<1>. QED
  BY <1>1, <1>3, <1>4 DEF SInv

LEMMA PricesSound ==
  ASSUME SInv
  PROVE  S!AveragesAreSound
<1>1. S!CountedOnce
  <2>1. SUFFICES ASSUME NEW s \in Pairs, NEW i \in DOMAIN samples[s], NEW j \in DOMAIN samples[s],
                        i < j, samples[s][i] = samples[s][j]
                 PROVE  first.from <= samples[s][i] /\ samples[s][i] <= first.to
    BY DEF S!CountedOnce
  <2>2. Tells(s) /\ samples[s] \in Seq(Int)
    BY DEF SInv, Tells, Told, Fresh
  <2>3. i \in 1 .. Len(samples[s]) /\ j \in 1 .. Len(samples[s]) /\ samples[s][i] \in Int
    BY <2>1, <2>2
  <2>4. ~(samples[s][i] < samples[s][j])
    BY <2>1, <2>3
  <2>5. ticker.at \notin {"rows", "klines"}
    BY <2>1, <2>3, <2>4 DEF SInv, OfThePreload, Rising
  <2>6. PreloadEnd = first.to
    BY <2>5 DEF PreloadEnd
  <2>7. first.from <= samples[s][j] /\ samples[s][i] <= PreloadEnd
    BY <2>1, <2>2, <2>3, <2>4 DEF Tells, Told, Apart
  <2>. QED
    BY <2>1, <2>6, <2>7
<1>2. ASSUME ticker = S!Resting, NEW s \in Pairs
      PROVE  /\ Fresh(samples[s], averages[s], at, latest, first.from, first.to)
             /\ samples[s] \in Seq(Int) /\ averages[s] \in AverageRecord
             /\ latest \in Nat /\ first.from \in Nat /\ first.to \in Nat
             /\ Hour \in Nat \ {0} /\ Week \in Nat \ {0}
  <2>1. PreloadEnd = first.to
    BY <1>2 DEF PreloadEnd, S!Resting
  <2>2. Fresh(samples[s], averages[s], at, latest, first.from, first.to)
    BY <2>1 DEF SInv, Tells, Told
  <2>. QED
    BY <2>2, SidesAssumption DEF Fresh, SInv, Clocks, S!StatisticsAssumption
<1>3. S!AveragesAreFresh
  <2>1. SUFFICES ASSUME ticker = S!Resting, NEW s \in Pairs, averages[s] # S!NotYet
                 PROVE  /\ latest < averages[s].last + Hour
                        /\ averages[s].week # <<>> =>
                             \E n \in DOMAIN samples[s] :
                               /\ averages[s].day = S!Since(SubSeq(samples[s], 1, n), samples[s][n] - Day)
                               /\ averages[s].week = SubSeq(samples[s], 1, n)
                               /\ \A k \in (n + 1) .. Len(samples[s]) :
                                    samples[s][k] >= averages[s].last \/ samples[s][k] <= first.to
    BY DEF S!AveragesAreFresh
  <2>2. latest < averages[s].last + Hour /\ WeekTells(samples[s], averages[s], first.to)
    BY <1>2, <2>1 DEF Fresh
  <2>3. DOMAIN samples[s] = 1 .. Len(samples[s])
    BY <1>2, <2>1
  <2>. QED
    BY <2>2, <2>3 DEF WeekTells
<1>4. S!OfTheLastWeek
  <2>1. SUFFICES ASSUME ticker = S!Resting, first.to <= first.from + Week, NEW s \in Pairs,
                        NEW i \in DOMAIN S!Answer(s)
                 PROVE  S!Answer(s)[i] > latest - Week - Hour
    BY DEF S!OfTheLastWeek
  <2>2. /\ Fresh(samples[s], averages[s], at, latest, first.from, first.to)
        /\ samples[s] \in Seq(Int) /\ averages[s] \in AverageRecord
        /\ latest \in Nat /\ first.from \in Nat /\ first.to \in Nat
        /\ Hour \in Nat \ {0} /\ Week \in Nat \ {0}
    BY <1>2, <2>1
  <2>3. averages[s] # S!NotYet
    <3>1. ASSUME averages[s] = S!NotYet PROVE FALSE
      <4>1. samples[s] = <<>> /\ averages[s].day = <<>>
        BY <2>2, <3>1 DEF Fresh, S!NotYet
      <4>2. S!Answer(s) = <<>>
        BY <4>1 DEF S!Answer
      <4>. QED
        BY <2>1, <4>2
    <3>. QED
      BY <3>1
  <2>4. /\ averages[s].last \in Nat /\ latest < averages[s].last + Hour
        /\ DayTells(samples[s], averages[s], first.from, first.to)
    BY <2>2, <2>3 DEF Fresh
  <2>5. CASE averages[s].day # <<>>
    <3>1. S!Answer(s) = averages[s].day
      BY <2>5 DEF S!Answer
    <3>2. averages[s].day \in Seq(Int)
      BY <2>2 DEF AverageRecord
    <3>3. i \in 1 .. Len(averages[s].day) /\ averages[s].day[i] \in Int
      BY <2>1, <3>1, <3>2
    <3>4. averages[s].day[i] >= averages[s].last - Week
      BY <2>4, <3>3 DEF DayTells
    <3>. QED
      BY <2>2, <2>4, <3>1, <3>3, <3>4
  <2>6. CASE averages[s].day = <<>>
    <3>1. S!Answer(s) = samples[s]
      BY <2>6 DEF S!Answer
    <3>2. i \in 1 .. Len(samples[s]) /\ samples[s][i] \in Int
      BY <2>1, <2>2, <3>1
    <3>3. samples[s][i] >= averages[s].last \/ (samples[s][i] >= first.from /\ averages[s].last <= first.to)
      BY <2>4, <2>6, <3>2 DEF DayTells
    <3>4. samples[s][i] >= averages[s].last - Week
      <4>1. PICK x \in Int, l \in Nat, u \in Nat, v \in Nat :
              x = samples[s][i] /\ l = averages[s].last /\ u = first.from /\ v = first.to
        BY <2>2, <2>4, <3>2
      <4>2. v <= u + Week /\ (x >= l \/ (x >= u /\ l <= v)) /\ Week \in Nat
        BY <2>1, <2>2, <3>3, <4>1
      <4>3. x >= l - Week
        BY <4>1, <4>2
      <4>. QED
        BY <4>1, <4>3
    <3>. QED
      BY <2>2, <2>4, <3>1, <3>2, <3>4
  <2>. QED
    BY <2>5, <2>6
<1>. QED
  BY <1>1, <1>3, <1>4 DEF S!AveragesAreSound
-----------------------------------------------------------------------------
(* The sides share no variable, so what one of them keeps all of them keep.*)
SidesInv == BusInv /\ SInv

LEMMA SidesBegin == SidesInit => SidesInv
BY BusInvInit, PricesInitially DEF SidesInit, SidesInv

LEMMA SidesKeep == SidesInv /\ [SidesNext]_<<side, vars, onBus, statistics>> => SidesInv'
<1> SUFFICES ASSUME SidesInv, [SidesNext]_<<side, vars, onBus, statistics>> PROVE SidesInv'
  OBVIOUS
<1>1. [T!Next]_(T!vars)
  BY DEF SidesNext, onBus, T!vars
<1>2. [S!StatisticsNext]_(S!statisticsVars)
  BY DEF SidesNext, statistics, S!statisticsVars, S!statistics
<1>3. BusInv'
  BY <1>1, BusInvKept DEF SidesInv
<1>4. SInv'
  BY <1>2, PricesInductive DEF SidesInv
<1>. QED
  BY <1>3, <1>4 DEF SidesInv

(* On the message bus strategies work once on each tick of the current     *)
(* connection, in the order of the ticks, over any reconnections, stops and*)
(* starts; the average prices strategies ask for count no price twice, are *)
(* of the last hour, and of no more than a week.                           *)
THEOREM RunnersAlwaysSound == SidesSpec => []RunnersAreSound
<1>1. SidesInv => RunnersAreSound
  BY PricesSound DEF SidesInv, BusInv, RunnersAreSound
<1>. QED
  BY <1>1, SidesBegin, SidesKeep, PTL DEF SidesSpec
=============================================================================
