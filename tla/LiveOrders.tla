------------------------------ MODULE LiveOrders ------------------------------
(***************************************************************************)
(* LiveMarketService (live_market_service.py) over BinanceExchangeClient   *)
(* (binance_exchange_client.py), for one symbol, reached directly or       *)
(* through OrderNormalizer.place_with_retry (order_normalizer.py).         *)
(* Callers are tasks of one event loop: a call runs from one await to the  *)
(* next and other calls run between.  A request to the exchange may fail   *)
(* before it arrives, be refused, or be carried out and its answer lost.   *)
(*                                                                         *)
(* The service keeps its orders in one dictionary under three kinds of key *)
(* (client id, exchange id, own id) whose values are mutable objects: two  *)
(* keys may share an object, and a refresh replaces it under some keys.    *)
(***************************************************************************)
EXTENDS OrderFilters, Sequences, FiniteSets

CONSTANTS
  Tasks,      \* calls that run side by side
  ClientIds,  \* client order ids
  Requests,   \* what place_order is called with
  Rulebooks,  \* trading rules the exchange may have
  MaxRetries, \* LiveMarketService._max_retries
  MaxAdjusts, \* OrderNormalizer.MAX_RETRIES
  MaxOrders,  \* bound: orders at the exchange
  MaxObjects, \* bound: Order objects made
  MaxCalls,   \* bound: calls in all
  None        \* no filters loaded

ASSUME LiveOrdersAssumption ==
  /\ {MaxRetries, MaxAdjusts, MaxOrders, MaxObjects, MaxCalls} \subseteq Nat
  /\ Requests \subseteq [cid : ClientIds, side : Sides, type : Types, qty : Nat,
                        price : 0 .. Huge, normalized : BOOLEAN]
  /\ \A f \in Rulebooks : WellFormed(f)
  /\ None \notin Filters

VARIABLES
  rules,       \* the exchange's rules for the symbol
  market,      \* the exchange's orders, by their number there
  clientRules, \* BinanceExchangeClient._filter_cache, or None
  engineRules, \* BinanceFilterEngine._filter_cache, or None
  orders,      \* LiveMarketService._orders: an object by key
  objects,     \* the Order objects, as they are now
  job,         \* the call each task is in
  calls,       \* history: calls so far
  lost,        \* history: orders whose answer never came
  overlapped,  \* history: client ids two calls were placing at once
  unfetched    \* history: rules could not be fetched once

vars == <<rules, market, clientRules, engineRules, orders, objects, job, calls,
          lost, overlapped, unfetched>>

tables  == <<orders, objects>>
caches  == <<clientRules, engineRules, unfetched>>
history == <<calls, lost, overlapped>>

Keys(cid, number, id) == {<<"cid", cid>>, <<"ext", number>>, <<"id", id>>}

Idle == [at |-> "idle"]

(* A call of place_order: the request, the quantity and price it asks for  *)
(* by now and those last sent, the turns of either loop, and the number    *)
(* and status the exchange answers with.                                   *)
Call(r) ==
  [at |-> "adjust", request |-> r, qty |-> r.qty, price |-> r.price,
   sentQty |-> 0, sentPrice |-> 0, adjusts |-> 0, attempt |-> 0,
   number |-> 0, status |-> "NEW"]

Normalizes == {"adjust", "filters"}
Creates    == {"rules", "sent", "placed", "pause"}

At(t, place)    == job[t].at = place
Goes(t, next)   == job' = [job EXCEPT ![t] = next]
IsPlacing(j)    == j.at \in Normalizes \union Creates
Placing(t, cid) == IsPlacing(job[t]) /\ job[t].request.cid = cid

Init ==
  /\ rules \in Rulebooks
  /\ market = <<>> /\ objects = <<>> /\ orders = <<>>
  /\ clientRules = None /\ engineRules = None
  /\ job = [t \in Tasks |-> Idle]
  /\ calls = 0 /\ lost = {} /\ overlapped = {} /\ unfetched = FALSE

-----------------------------------------------------------------------------
(* place_order.  Every failure of create_order, whatever it is, is tried   *)
(* again after a pause, up to MaxRetries times; then the call raises.      *)
Failing(j) ==
  IF j.attempt < MaxRetries
  THEN [j EXCEPT !.at = "pause", !.attempt = j.attempt + 1] ELSE Idle

(* create_order once the client has rules: rounded, checked, sent.         *)
Sending(j, f) ==
  LET qty   == ClientQty(f, j.qty, j.request.type)
      price == ClientPrice(f, j.price)
  IN  IF /\ ClientAccepts(f, qty, price)
         /\ j.request.type = "LIMIT" => price # NoPrice
      THEN [j EXCEPT !.at = "sent", !.sentQty = qty, !.sentPrice = price]
      ELSE Failing(j)

Creating(j) ==
  IF clientRules = None THEN [j EXCEPT !.at = "rules"] ELSE Sending(j, clientRules)

OfferingAlways(j) == Creating(j)

(* A client id the table knows gets its order back and nothing is sent.    *)
Offering(j) ==
  IF <<"cid", j.request.cid>> \in DOMAIN orders THEN Idle ELSE Creating(j)

(* place_with_retry: normalise and place; a refusal by a filter adjusts    *)
(* the price, then the quantity, and tries again MaxAdjusts times in all.  *)
(* Whatever place_order raises ends the call.                              *)
Adjusting(j, refusal) ==
  IF j.adjusts + 1 >= MaxAdjusts THEN Idle
  ELSE [j EXCEPT
          !.at      = "adjust",
          !.adjusts = j.adjusts + 1,
          !.price   = IF j.adjusts = 0 /\ j.price # NoPrice
                      THEN AdjustPrice(j.price, refusal, j.request.side) ELSE j.price,
          !.qty     = IF j.adjusts = 1 THEN AdjustQty(j.qty, refusal) ELSE j.qty]

Normalized(j, f) ==
  [j EXCEPT !.qty   = EngineQty(f, j.qty, j.request.type),
            !.price = EnginePrice(f, j.price)]

Normalizing(j, f) ==
  LET refusal == EngineRefusal(f, j.qty, j.price, j.request.type)
  IN  IF refusal = "none" THEN Offering(Normalized(j, f)) ELSE Adjusting(j, refusal)

(* The rules load_filters found may have expired when they are read again. *)
Loaded(f) == {f, EngineDefaults}

Begins(t, cid) ==
  /\ At(t, "idle") /\ calls < MaxCalls
  /\ calls' = calls + 1
  /\ overlapped' = IF \E u \in Tasks : Placing(u, cid) THEN overlapped \union {cid}
                   ELSE overlapped

PlaceOrder(t) ==
  \E r \in Requests :
    /\ ~ r.normalized
    /\ Begins(t, r.cid)
    /\ Goes(t, Offering(Call(r)))
    /\ UNCHANGED <<rules, market, tables, caches, lost>>

PlaceWithRetry(t) ==
  \E r \in Requests :
    /\ r.normalized
    /\ Begins(t, r.cid)
    /\ Goes(t, Call(r))
    /\ UNCHANGED <<rules, market, tables, caches, lost>>

(* One turn of place_with_retry's loop: the cached rules serve while their *)
(* time to live lasts, which may be over at any turn.  Without an await in *)
(* load_filters no call runs before it; allowing one only adds behaviours. *)
Normalize(t) ==
  /\ At(t, "adjust")
  /\ \/ Goes(t, [job[t] EXCEPT !.at = "filters"])
     \/ /\ engineRules # None
        /\ \E f \in Loaded(engineRules) : Goes(t, Normalizing(job[t], f))
  /\ UNCHANGED <<rules, market, tables, caches, history>>

(* The engine's exchangeInfo request ends: what it brought, or the         *)
(* defaults, is cached.                                                    *)
FiltersArrive(t) ==
  /\ At(t, "filters")
  /\ \E f \in {AsPrinted(rules), EngineDefaults} :
       /\ engineRules' = f
       /\ \E g \in Loaded(f) : Goes(t, Normalizing(job[t], g))
  /\ UNCHANGED <<rules, market, tables, clientRules, unfetched, history>>

(* The client's exchangeInfo request ends; it caches the defaults, for     *)
(* good, when the request failed or did not name the symbol.               *)
RulesArrive(t) ==
  /\ At(t, "rules")
  /\ \/ /\ clientRules' = ClientReads(rules)
        /\ UNCHANGED unfetched
     \/ /\ clientRules' = ClientDefaults
        /\ unfetched' = TRUE
  /\ Goes(t, Sending(job[t], clientRules'))
  /\ UNCHANGED <<rules, market, tables, engineRules, history>>

Retry(t) ==
  /\ At(t, "pause")
  /\ Goes(t, Creating(job[t]))
  /\ UNCHANGED <<rules, market, tables, caches, history>>

-----------------------------------------------------------------------------
(* The exchange.  It takes an order that keeps its rules, at once filled   *)
(* or open, and may take a client id a second time; it may refuse anything *)
(* and any request or answer may be lost.                                  *)
KeepsRules(type, qty, price) ==
  /\ qty % rules.step[type] = 0
  /\ qty > 0 /\ rules.minQty[type] <= qty /\ qty <= rules.maxQty[type]
  /\ type = "LIMIT" =>
       /\ rules.minPrice <= price /\ price <= rules.maxPrice
       /\ price % rules.tick = 0
       /\ rules.minNotional <= price * qty

Accept(t) ==
  /\ At(t, "sent") /\ Len(market) < MaxOrders
  /\ KeepsRules(job[t].request.type, job[t].sentQty, job[t].sentPrice)
  /\ \E status \in {"NEW", "FILLED"} :
       /\ market' = Append(market, [request |-> job[t].request, status |-> status,
                                    qty |-> job[t].sentQty, price |-> job[t].sentPrice])
       /\ Goes(t, [job[t] EXCEPT !.at = "placed", !.number = Len(market) + 1,
                                 !.status = status])
  /\ UNCHANGED <<rules, tables, caches, history>>

Refuse(t) ==
  /\ At(t, "sent")
  /\ Goes(t, Failing(job[t]))
  /\ UNCHANGED <<rules, market, tables, caches, history>>

AnswerLost(t) ==
  /\ At(t, "placed")
  /\ lost' = lost \union {job[t].number}
  /\ Goes(t, Failing([job[t] EXCEPT !.number = 0, !.status = "NEW"]))
  /\ UNCHANGED <<rules, market, tables, caches, calls, overlapped>>

Fill ==
  \E n \in DOMAIN market :
    /\ market[n].status = "NEW"
    /\ market' = [market EXCEPT ![n].status = "FILLED"]
    /\ UNCHANGED <<rules, tables, caches, history, job>>

(* The order of the answer goes into the table under all its keys.         *)
OrderOf(j) ==
  [cid |-> j.request.cid, number |-> j.number, id |-> Len(objects) + 1,
   status |-> j.status]

Under(keys) ==
  [key \in DOMAIN orders \union keys |->
     IF key \in keys THEN Len(objects) + 1 ELSE orders[key]]

Register(order) == Under(Keys(order.cid, order.number, order.id))

AnswerArrives(t) ==
  /\ At(t, "placed") /\ Len(objects) < MaxObjects
  /\ objects' = Append(objects, OrderOf(job[t]))
  /\ orders' = Register(OrderOf(job[t]))
  /\ Goes(t, Idle)
  /\ UNCHANGED <<rules, market, caches, history>>

-----------------------------------------------------------------------------
BeginCancelMarked(t) ==
  \E key \in DOMAIN orders :
    /\ At(t, "idle") /\ calls < MaxCalls
    /\ calls' = calls + 1
    /\ objects' = [objects EXCEPT ![orders[key]].status = "CANCELED"]
    /\ Goes(t, [at |-> "cancel", object |-> orders[key]])
    /\ UNCHANGED <<rules, market, orders, caches, lost, overlapped>>

(* cancel_order: the object found before the request is marked after it.   *)
BeginCancel(t) ==
  \E key \in DOMAIN orders :
    /\ At(t, "idle") /\ calls < MaxCalls
    /\ calls' = calls + 1
    /\ Goes(t, [at |-> "cancel", object |-> orders[key]])
    /\ UNCHANGED <<rules, market, tables, caches, lost, overlapped>>

CancelAtExchange(t) ==
  LET n == objects[job[t].object].number
  IN  /\ At(t, "cancel")
      /\ market[n].status = "NEW"
      /\ market' = [market EXCEPT ![n].status = "CANCELED"]
      /\ Goes(t, [job[t] EXCEPT !.at = "canceled"])
      /\ UNCHANGED <<rules, tables, caches, history>>

CancelAnswered(t) ==
  /\ At(t, "canceled")
  /\ objects' = [objects EXCEPT ![job[t].object].status = "CANCELED"]
  /\ Goes(t, Idle)
  /\ UNCHANGED <<rules, market, orders, caches, history>>

(* get_order_status: a new object with the old one's id replaces it under  *)
(* the key that was asked for and the exchange's id, and only there.       *)
BeginStatus(t) ==
  \E key \in DOMAIN orders :
    /\ At(t, "idle") /\ calls < MaxCalls
    /\ calls' = calls + 1
    /\ Goes(t, [at |-> "ask", key |-> key, object |-> orders[key], status |-> "NEW"])
    /\ UNCHANGED <<rules, market, tables, caches, lost, overlapped>>

StatusAtExchange(t) ==
  /\ At(t, "ask")
  /\ Goes(t, [job[t] EXCEPT !.at = "told",
                            !.status = market[objects[job[t].object].number].status])
  /\ UNCHANGED <<rules, market, tables, caches, history>>

Refreshed(key, object) == Under({key, <<"ext", objects[object].number>>})

StatusArrives(t) ==
  /\ At(t, "told") /\ Len(objects) < MaxObjects
  /\ objects' = Append(objects, [objects[job[t].object] EXCEPT !.status = job[t].status])
  /\ orders' = Refreshed(job[t].key, job[t].object)
  /\ Goes(t, Idle)
  /\ UNCHANGED <<rules, market, caches, history>>

(* Either request fails, or its answer is lost: the call raises.           *)
RequestFails(t) ==
  /\ job[t].at \in {"cancel", "canceled", "ask", "told"}
  /\ Goes(t, Idle)
  /\ UNCHANGED <<rules, market, tables, caches, history>>

Next ==
  \/ \E t \in Tasks :
       \/ PlaceOrder(t) \/ PlaceWithRetry(t) \/ Normalize(t) \/ FiltersArrive(t)
       \/ RulesArrive(t) \/ Retry(t) \/ Accept(t) \/ Refuse(t)
       \/ AnswerLost(t) \/ AnswerArrives(t)
       \/ BeginCancel(t) \/ CancelAtExchange(t) \/ CancelAnswered(t)
       \/ BeginStatus(t) \/ StatusAtExchange(t) \/ StatusArrives(t)
       \/ RequestFails(t)
  \/ Fill

Spec == Init /\ [][Next]_vars

-----------------------------------------------------------------------------
TypeOK ==
  /\ rules \in Rulebooks
  /\ \A n \in DOMAIN market : market[n].status \in {"NEW", "FILLED", "CANCELED"}
  /\ \A key \in DOMAIN orders : orders[key] \in DOMAIN objects
  /\ lost \subseteq DOMAIN market

(* Every order the exchange holds can be found, shown and cancelled        *)
(* through the table, unless its answer was lost or is still under way;    *)
(* and it holds two orders of one client id only when an answer was lost,  *)
(* so that the order was sent again, or two calls placed it side by side,  *)
(* both having looked before either was told (live_market_service.py:45).  *)
OrdersAccountedFor ==
  /\ \A n \in DOMAIN market :
       \/ <<"ext", n>> \in DOMAIN orders
       \/ n \in lost
       \/ \E t \in Tasks : At(t, "placed") /\ job[t].number = n
  /\ \A m, n \in DOMAIN market :
       (m # n /\ market[m].request.cid = market[n].request.cid) =>
         {m, n} \intersect lost # {} \/ market[n].request.cid \in overlapped

(* However placing, cancelling and asking overlap, the table under any key *)
(* leads to the order the key names, and calls an order filled or          *)
(* cancelled only when it is so at the exchange.  (The reverse fails: an   *)
(* answer read before and stored after a cancel calls the order open.)     *)
TableTellsTheExchange ==
  \A key \in DOMAIN orders :
    LET order == objects[orders[key]]
    IN  /\ key \in Keys(order.cid, order.number, order.id)
        /\ market[order.number].request.cid = order.cid
        /\ order.status # "NEW" => market[order.number].status = order.status

(* An order of quantity q and price p is what request r asked for, up to   *)
(* the rounding.                                                           *)
QtyOf(r, q) ==
  IF r.normalized
  THEN q <= rules.minQty[r.type] \/ q <= Up(r.qty)
  ELSE /\ q <= r.qty
       /\ r.qty - q < rules.lot[r.type] \/ (unfetched /\ r.qty - q < DefaultUnit)

PriceOf(r, p) ==
  LET slack == DefaultUnit + rules.tick
  IN  IF r.normalized
      THEN /\ p <= Up(r.price) + slack \/ p <= rules.minPrice + slack
           /\ p >= Down(r.price) - slack \/ p >= rules.maxPrice - slack
      ELSE p <= r.price + slack /\ p >= r.price - slack

(* What stands at the exchange is what was asked for, rounded: a quantity  *)
(* only rounded down by less than one lot, or by one default unit when the *)
(* rules could not be fetched, unless the normaliser raised it to the      *)
(* minimum or by its half percent; a price off by at most the two ticks it *)
(* is rounded to and the half percent, unless the normaliser moved it to a *)
(* limit of the exchange; and worth the minimum, when the rules were       *)
(* fetched, state it as MIN_NOTIONAL, and a price was known: of a minimum  *)
(* stated as NOTIONAL the client knows nothing, and sends what is worth    *)
(* less (binance_exchange_client.py:119).                                  *)
WithinTheRequest ==
  \A n \in DOMAIN market :
    LET r == market[n].request
        q == market[n].qty
        p == market[n].price
    IN  /\ QtyOf(r, q)
        /\ r.price # NoPrice => PriceOf(r, p)
        /\ (~ unfetched /\ rules.minimumIn = "MIN_NOTIONAL" /\ p # NoPrice) =>
             p * q >= rules.minNotional
=============================================================================
