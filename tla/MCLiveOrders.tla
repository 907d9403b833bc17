----------------------------- MODULE MCLiveOrders -----------------------------
(* LiveOrders on a small instance: two calls side by side, an order of     *)
(* each kind, rules whose step is and is not a power of ten and whose     *)
(* least worth is stated in the one filter and in the other.               *)
EXTENDS LiveOrders, TLC

PerType(x) == [type \in Types |-> x]

Rulebook(step, lot, minimumIn) ==
  [step |-> PerType(step), lot |-> PerType(lot), tick |-> 20,
   minQty |-> PerType(100), maxQty |-> PerType(1000),
   minPrice |-> 20, maxPrice |-> 100000,
   minNotional |-> 400000, maxNotional |-> 900000, minimumIn |-> minimumIn]

SomeRulebooks == {Rulebook(100, 100, "MIN_NOTIONAL"), Rulebook(50, 10, "NOTIONAL")}

Order(cid, type, side, qty, price, normalized) ==
  [cid |-> cid, type |-> type, side |-> side, qty |-> qty, price |-> price,
   normalized |-> normalized]

SomeRequests ==
  {Order("a", "MARKET", "BUY", 250, 1500, FALSE),
   Order("a", "LIMIT", "BUY", 200, 2010, FALSE),
   Order("b", "LIMIT", "BUY", 199, 2000, TRUE),
   Order("b", "LIMIT", "SELL", 40, 5000, TRUE)}

Symmetry == Permutations(Tasks)
=============================================================================
