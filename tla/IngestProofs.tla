---------------------------- MODULE IngestProofs ----------------------------
(***************************************************************************)
(* What the two halves of run ingest guarantee.  TradeAggregator: for any  *)
(* number of trades, in any order, and any sequence of ticks and flushes,  *)
(* no trade is lost or in two candles, and with timely delivery every      *)
(* candle tells its second.  RecoveryManager: whatever is lost on the way  *)
(* has a cause the code knows of, and what it hands on is a trade feed.    *)
(***************************************************************************)
EXTENDS TradeAggregator, RecoveryManager, TLAPS

(* The types of the sequences and of NoCandle used throughout.             *)
LEMMA AppendFacts ==
  ASSUME NEW S, NEW s \in Seq(S), NEW e \in S
  PROVE  /\ Append(s, e) \in Seq(S)
         /\ Len(Append(s, e)) = Len(s) + 1
         /\ DOMAIN Append(s, e) = 1 .. Len(s) + 1
         /\ DOMAIN s = 1 .. Len(s)
         /\ \A i \in 1 .. Len(s) : Append(s, e)[i] = s[i]
         /\ Append(s, e)[Len(s) + 1] = e
  OBVIOUS

LEMMA TailFacts ==
  ASSUME NEW S, NEW s \in Seq(S), s # <<>>
  PROVE  /\ Tail(s) \in Seq(S)
         /\ Head(s) \in S
         /\ Head(s) = s[1]
         /\ 1 \in DOMAIN s
         /\ Len(s) \in Nat \ {0}
         /\ DOMAIN s = 1 .. Len(s)
         /\ DOMAIN Tail(s) = 1 .. Len(s) - 1
         /\ \A i \in 1 .. Len(s) - 1 : Tail(s)[i] = s[i + 1]
  OBVIOUS
-----------------------------------------------------------------------------
(* Type correctness.                                                       *)
LEMMA InitTypeOK == Init => TypeOK
  BY DEF Init, TypeOK, CandleType, NoCandle, NoTime, NoClose, Seed

LEMMA EmitType ==
  ASSUME TypeOK, NEW c \in CandleType, Emit(c)
  PROVE  /\ lastClose' \in Nat \union {NoClose}
         /\ lastEmitted' \in Nat \union {NoTime}
         /\ emitted' \in Seq(CandleType)
  BY DEF TypeOK, Emit, CandleType

LEMMA AddTradeType ==
  ASSUME TypeOK, NEW t \in Nat \ {0}, NEW w \in Nat, AddTrade(t, w)
  PROVE  /\ current' \in CandleType \union {NoCandle}
         /\ pending' \in Seq(CandleType)
         /\ lastClose' \in Nat \union {NoClose}
         /\ lastEmitted' \in Nat \union {NoTime}
<1>1. OpenCandle(t, w) \in CandleType
  BY DEF OpenCandle, CandleType
<1>2. current # NoCandle => UpdateCandle(current, t) \in CandleType
  BY DEF TypeOK, UpdateCandle, CandleType
<1>3. Rolls(w) => /\ current \in CandleType
                  /\ current.close \in Nat
                  /\ Append(pending, current) \in Seq(CandleType)
  BY DEF TypeOK, Rolls, CandleType
<1>4. /\ pending \in Seq(CandleType)
      /\ lastClose \in Nat \union {NoClose}
      /\ lastEmitted \in Nat \union {NoTime}
  BY DEF TypeOK
<1>5. CASE Rolls(w)
  BY <1>1, <1>3, <1>4, <1>5 DEF AddTrade
<1>6. CASE ~Rolls(w)
  BY <1>1, <1>2, <1>4, <1>6 DEF AddTrade
<1> QED
  BY <1>5, <1>6

LEMMA NextTypeOK == TypeOK /\ [Next]_vars => TypeOK'
<1> SUFFICES ASSUME TypeOK, [Next]_vars
             PROVE  TypeOK'
  OBVIOUS
<1>1. CASE ReceiveTrade
  <2> PICK w \in Windows :
         /\ orderly' = (orderly /\ Timely(w))
         /\ tape' = Append(tape, w)
         /\ AddTrade(Len(tape) + 1, w)
    BY <1>1 DEF ReceiveTrade
  <2>1. w \in Nat /\ Len(tape) + 1 \in Nat \ {0}
    BY MaxClockAssumption DEF Windows, TypeOK
  <2>2. /\ current' \in CandleType \union {NoCandle}
        /\ pending' \in Seq(CandleType)
        /\ lastClose' \in Nat \union {NoClose}
        /\ lastEmitted' \in Nat \union {NoTime}
    BY <2>1, AddTradeType
  <2>3. tape' \in Seq(Nat)
    BY <2>1 DEF TypeOK
  <2>4. emitted' = emitted /\ clock' = clock
    BY <1>1 DEF ReceiveTrade
  <2>5. orderly' \in BOOLEAN
    OBVIOUS
  <2> QED
    BY <2>2, <2>3, <2>4, <2>5 DEF TypeOK
<1>2. CASE TickSecond
  <2> PICK now \in 1 .. MaxClock : TickAt(now)
    BY <1>2 DEF TickSecond
  <2>1. /\ now \in Nat /\ now - 1 \in Nat
        /\ clock' \in Nat /\ tape' \in Seq(Nat) /\ orderly' \in BOOLEAN
    BY MaxClockAssumption DEF TickAt, TypeOK
  <2>2. CASE TickPending
    BY <2>1, <2>2, TailFacts, EmitType DEF TickPending, TypeOK
  <2>3. CASE TickCurrent(now)
    <3>1. current \in CandleType
      BY <2>3 DEF TickCurrent, TypeOK
    <3> QED
      BY <2>1, <2>3, <3>1, EmitType DEF TickCurrent, TypeOK
  <2>4. CASE TickFlat(now)
    <3>1. FlatCandle(now - 1) \in CandleType
      BY <2>1, <2>4 DEF TickFlat, FlatCandle, CandleType, TypeOK
    <3> QED
      BY <2>1, <2>4, <3>1, EmitType DEF TickFlat, TypeOK
  <2>5. CASE TickNothing(now)
    BY <2>1, <2>5 DEF TickNothing, TypeOK, aggVars
  <2> QED
    BY <2>2, <2>3, <2>4, <2>5 DEF TickAt, Tick
<1>3. CASE FlushAll
  <2>1. current \in CandleType
    BY <1>3 DEF FlushAll, Flush, TypeOK
  <2>2. orderly' \in BOOLEAN
    BY <1>3 DEF FlushAll
  <2> QED
    BY <1>3, <2>1, <2>2, EmitType DEF FlushAll, Flush, TypeOK
<1>4. CASE UNCHANGED vars
  BY <1>4 DEF vars, aggVars, TypeOK
<1> QED
  BY <1>1, <1>2, <1>3, <1>4 DEF Next

(* Every variable keeps its type in every behaviour.                       *)
THEOREM TypeCorrect == Spec => []TypeOK
  BY InitTypeOK, NextTypeOK, PTL DEF Spec
-----------------------------------------------------------------------------
(* What a step does to the places a trade can be in, whatever its prices.  *)
Received(t, w) ==
  /\ t = Len(tape) + 1
  /\ tape' = Append(tape, w)
  /\ AddTrade(t, w)
  /\ emitted' = emitted

EmitsPending ==
  /\ pending # <<>>
  /\ emitted' = Append(emitted, Head(pending))
  /\ pending' = Tail(pending)
  /\ current' = current
  /\ tape' = tape

EmitsCurrent ==
  /\ current # NoCandle
  /\ emitted' = Append(emitted, current)
  /\ current' = NoCandle
  /\ pending' = pending
  /\ tape' = tape

EmitsFlat(c) ==
  /\ c.ids = {}
  /\ emitted' = Append(emitted, c)
  /\ UNCHANGED <<current, pending, tape>>

EmitsNothing == UNCHANGED <<current, pending, tape, emitted>>

LEMMA StepKinds ==
  ASSUME TypeOK, [Next]_vars
  PROVE  \/ \E t \in Nat \ {0}, w \in Nat : Received(t, w)
         \/ EmitsPending
         \/ EmitsCurrent
         \/ \E c \in CandleType : EmitsFlat(c)
         \/ EmitsNothing
<1>1. CASE ReceiveTrade
  <2> PICK w \in Windows : tape' = Append(tape, w) /\ AddTrade(Len(tape) + 1, w)
    BY <1>1 DEF ReceiveTrade
  <2>1. w \in Nat /\ Len(tape) + 1 \in Nat \ {0}
    BY MaxClockAssumption DEF Windows, TypeOK
  <2>2. emitted' = emitted
    BY <1>1 DEF ReceiveTrade
  <2>3. Received(Len(tape) + 1, w)
    BY <2>2 DEF Received
  <2> QED
    BY <2>1, <2>3
<1>2. CASE TickSecond
  <2> PICK now \in 1 .. MaxClock : TickAt(now)
    BY <1>2 DEF TickSecond
  <2>1. now - 1 \in Nat /\ tape' = tape
    BY MaxClockAssumption DEF TickAt
  <2>2. CASE TickPending
    BY <2>1, <2>2 DEF TickPending, Emit, EmitsPending
  <2>3. CASE TickCurrent(now)
    BY <2>1, <2>3 DEF TickCurrent, Emit, EmitsCurrent
  <2>4. CASE TickFlat(now)
    <3>1. FlatCandle(now - 1) \in CandleType /\ FlatCandle(now - 1).ids = {}
      BY <2>1, <2>4 DEF TickFlat, FlatCandle, CandleType, TypeOK
    <3>2. EmitsFlat(FlatCandle(now - 1))
      BY <2>1, <2>4, <3>1 DEF TickFlat, Emit, EmitsFlat
    <3> QED
      BY <3>1, <3>2
  <2>5. CASE TickNothing(now)
    BY <2>1, <2>5 DEF TickNothing, aggVars, EmitsNothing
  <2> QED
    BY <2>2, <2>3, <2>4, <2>5 DEF TickAt, Tick
<1>3. CASE FlushAll
  BY <1>3 DEF FlushAll, Flush, Emit, EmitsCurrent
<1>4. CASE UNCHANGED vars
  BY <1>4 DEF vars, aggVars, EmitsNothing
<1> QED
  BY <1>1, <1>2, <1>3, <1>4 DEF Next
-----------------------------------------------------------------------------
(* A candle never holds a trade of another second.  PureOn(c, s) says of   *)
(* candle c and history s what PureCandle(c) says of c and tape.           *)
PureOn(c, s) == \A t \in c.ids : t \in DOMAIN s /\ s[t] = c.time

LEMMA PurityNow ==
  WindowPurity <=> /\ \A i \in DOMAIN emitted : PureOn(emitted[i], tape)
                   /\ \A i \in DOMAIN pending : PureOn(pending[i], tape)
                   /\ PureOn(current, tape)
  BY DEF WindowPurity, PureCandle, PureOn, Trades

LEMMA PurityNext ==
  WindowPurity' <=> /\ \A i \in DOMAIN emitted' : PureOn(emitted'[i], tape')
                    /\ \A i \in DOMAIN pending' : PureOn(pending'[i], tape')
                    /\ PureOn(current', tape')
  BY DEF WindowPurity, PureCandle, PureOn, Trades

LEMMA PureLater ==
  ASSUME NEW s \in Seq(Nat), NEW w \in Nat, NEW c, PureOn(c, s)
  PROVE  PureOn(c, Append(s, w))
  BY AppendFacts DEF PureOn

LEMMA PureReceived ==
  ASSUME TypeOK, WindowPurity,
         NEW t \in Nat \ {0}, NEW w \in Nat, Received(t, w)
  PROVE  WindowPurity'
<1>1. /\ tape' = Append(tape, w)
      /\ tape \in Seq(Nat)
      /\ pending \in Seq(CandleType)
      /\ t = Len(tape) + 1
      /\ emitted' = emitted
      /\ AddTrade(t, w)
  BY DEF Received, TypeOK
<1>2. t \in DOMAIN tape' /\ tape'[t] = w
  BY <1>1, AppendFacts
<1>3. ASSUME NEW c, PureOn(c, tape) PROVE PureOn(c, tape')
  BY <1>1, <1>3, PureLater
<1>4. \A i \in DOMAIN emitted' : PureOn(emitted'[i], tape')
  BY <1>1, <1>3, PurityNow
<1>5. PureOn(OpenCandle(t, w), tape')
  BY <1>2 DEF OpenCandle, PureOn
<1>6. CASE Rolls(w)
  <2>1. current \in CandleType
    BY <1>6 DEF Rolls, TypeOK
  <2>2. pending' = Append(pending, current) /\ current' = OpenCandle(t, w)
    BY <1>1, <1>6 DEF AddTrade
  <2>3. \A i \in DOMAIN pending' : PureOn(pending'[i], tape')
    BY <1>1, <1>3, <2>1, <2>2, PurityNow, AppendFacts
  <2> QED
    BY <1>4, <1>5, <2>2, <2>3, PurityNext
<1>7. CASE ~Rolls(w)
  <2>1. pending' = pending
    BY <1>1, <1>7 DEF AddTrade
  <2>2. \A i \in DOMAIN pending' : PureOn(pending'[i], tape')
    BY <1>3, <2>1, PurityNow
  <2>3. CASE current = NoCandle
    BY <1>1, <1>4, <1>5, <1>7, <2>2, <2>3, PurityNext DEF AddTrade
  <2>4. CASE current # NoCandle
    <3>1. current \in CandleType /\ w = current.time
      BY <1>7, <2>4 DEF Rolls, TypeOK
    <3>2. current' = UpdateCandle(current, t)
      BY <1>1, <1>7, <2>4 DEF AddTrade
    <3>3. current'.ids = current.ids \union {t} /\ current'.time = w
      BY <3>1, <3>2 DEF UpdateCandle, CandleType
    <3>4. PureOn(current', tape')
      BY <1>2, <1>3, <3>1, <3>3, PurityNow DEF PureOn
    <3> QED
      BY <1>4, <2>2, <3>4, PurityNext
  <2> QED
    BY <2>3, <2>4
<1> QED
  BY <1>6, <1>7

LEMMA PureStep ==
  ASSUME TypeOK, WindowPurity, [Next]_vars
  PROVE  WindowPurity'
<1> USE PurityNow, PurityNext
<1>1. CASE \E t \in Nat \ {0}, w \in Nat : Received(t, w)
  BY <1>1, PureReceived
<1>2. CASE EmitsPending
  BY <1>2, AppendFacts, TailFacts DEF EmitsPending, TypeOK
<1>3. CASE EmitsCurrent
  <2>1. current \in CandleType /\ PureOn(NoCandle, tape)
    BY <1>3 DEF EmitsCurrent, TypeOK, PureOn, NoCandle
  <2> QED
    BY <1>3, <2>1, AppendFacts DEF EmitsCurrent, TypeOK
<1>4. CASE \E c \in CandleType : EmitsFlat(c)
  <2> PICK c \in CandleType : EmitsFlat(c)
    BY <1>4
  <2>1. PureOn(c, tape)
    BY DEF EmitsFlat, PureOn
  <2> QED
    BY <2>1, AppendFacts DEF EmitsFlat, TypeOK
<1>5. CASE EmitsNothing
  BY <1>5 DEF EmitsNothing
<1> QED
  BY <1>1, <1>2, <1>3, <1>4, <1>5, StepKinds

LEMMA InitPure == Init => WindowPurity
  BY DEF Init, WindowPurity, PureCandle, NoCandle

(* A candle holds trades of its own second only, however late they came.   *)
THEOREM Purity == Spec => []WindowPurity
  BY InitTypeOK, NextTypeOK, InitPure, PureStep, PTL DEF Spec
-----------------------------------------------------------------------------
(* No trade is lost.  Held(t, e, p, c): candle sequences e and p or candle *)
(* c hold trade t.                                                         *)
Held(t, e, p, c) ==
  \/ \E i \in DOMAIN e : t \in e[i].ids
  \/ \E i \in DOMAIN p : t \in p[i].ids
  \/ t \in c.ids

LEMMA LostNow ==
  NoTradeLost <=> \A t \in DOMAIN tape : Held(t, emitted, pending, current)
  BY DEF NoTradeLost, InEmitted, InPending, InCurrent, Trades, Held

LEMMA LostNext ==
  NoTradeLost' <=> \A t \in DOMAIN tape' : Held(t, emitted', pending', current')
  BY DEF NoTradeLost, InEmitted, InPending, InCurrent, Trades, Held

LEMMA LostReceived ==
  ASSUME TypeOK, NoTradeLost,
         NEW t \in Nat \ {0}, NEW w \in Nat, Received(t, w)
  PROVE  NoTradeLost'
<1>1. /\ tape' = Append(tape, w)
      /\ tape \in Seq(Nat)
      /\ pending \in Seq(CandleType)
      /\ t = Len(tape) + 1
      /\ emitted' = emitted
      /\ AddTrade(t, w)
  BY DEF Received, TypeOK
<1>2. DOMAIN tape' = DOMAIN tape \union {t}
  BY <1>1, AppendFacts
<1>3. t \in current'.ids
  <2>1. CASE Rolls(w) \/ current = NoCandle
    BY <1>1, <2>1 DEF AddTrade, OpenCandle
  <2>2. CASE ~(Rolls(w) \/ current = NoCandle)
    BY <1>1, <2>2 DEF AddTrade, UpdateCandle, TypeOK, CandleType
  <2> QED
    BY <2>1, <2>2
<1>4. ASSUME NEW u, Held(u, emitted, pending, current)
      PROVE  Held(u, emitted', pending', current')
  <2>1. CASE Rolls(w)
    <3>1. current \in CandleType /\ pending' = Append(pending, current)
      BY <1>1, <2>1 DEF AddTrade, Rolls, TypeOK
    <3>2. /\ \A i \in DOMAIN pending : i \in DOMAIN pending' /\ pending'[i] = pending[i]
          /\ \E i \in DOMAIN pending' : pending'[i] = current
      BY SMTT(30), <1>1, <3>1, AppendFacts
    <3> QED
      BY <1>1, <1>4, <3>2 DEF Held
  <2>2. CASE ~Rolls(w)
    <3>1. pending' = pending
      BY <1>1, <2>2 DEF AddTrade
    <3>2. current.ids \subseteq current'.ids
      BY <1>1, <2>2 DEF AddTrade, UpdateCandle, NoCandle, TypeOK, CandleType
    <3> QED
      BY <1>1, <1>4, <3>1, <3>2 DEF Held
  <2> QED
    BY <2>1, <2>2
<1>5. Held(t, emitted', pending', current')
  BY <1>3 DEF Held
<1> QED
  BY <1>2, <1>4, <1>5, LostNow, LostNext

LEMMA LostStep ==
  ASSUME TypeOK, NoTradeLost, [Next]_vars
  PROVE  NoTradeLost'
<1>1. CASE \E t \in Nat \ {0}, w \in Nat : Received(t, w)
  BY <1>1, LostReceived
<1> SUFFICES ASSUME tape' = tape,
                    NEW u \in DOMAIN tape, Held(u, emitted, pending, current)
             PROVE  Held(u, emitted', pending', current')
  BY <1>1, StepKinds, LostNow, LostNext
     DEF EmitsPending, EmitsCurrent, EmitsFlat, EmitsNothing
<1>0. emitted \in Seq(CandleType) /\ pending \in Seq(CandleType)
  BY DEF TypeOK
<1>2. ASSUME NEW c \in CandleType, emitted' = Append(emitted, c)
      PROVE  /\ \A i \in DOMAIN emitted : i \in DOMAIN emitted' /\ emitted'[i] = emitted[i]
             /\ \E i \in DOMAIN emitted' : emitted'[i] = c
  BY <1>0, <1>2, AppendFacts
<1>3. CASE EmitsPending
  <2>1. /\ Head(pending) \in CandleType
        /\ \A i \in DOMAIN pending :
             \/ pending[i] = Head(pending)
             \/ i - 1 \in DOMAIN pending' /\ pending'[i - 1] = pending[i]
    BY <1>0, <1>3, TailFacts DEF EmitsPending
  <2> QED
    BY ZenonT(30), <1>2, <1>3, <2>1 DEF EmitsPending, Held
<1>4. CASE EmitsCurrent
  <2>1. current \in CandleType
    BY <1>4 DEF EmitsCurrent, TypeOK
  <2> QED
    BY <1>2, <1>4, <2>1 DEF EmitsCurrent, Held
<1>5. CASE \E c \in CandleType : EmitsFlat(c)
  BY <1>2, <1>5 DEF EmitsFlat, Held
<1>6. CASE EmitsNothing
  BY <1>6 DEF EmitsNothing
<1> QED
  BY <1>1, <1>3, <1>4, <1>5, <1>6, StepKinds, LostNow, LostNext

LEMMA InitLost == Init => NoTradeLost
  BY DEF Init, NoTradeLost, Trades

(* Every trade given to the aggregator is in an emitted candle, a queued   *)
(* one or the open one.                                                    *)
THEOREM Lossless == Spec => []NoTradeLost
  BY InitTypeOK, NextTypeOK, InitLost, LostStep, PTL DEF Spec
-----------------------------------------------------------------------------
(* No trade is in two candles.  The parts of NoTradeTwice, as operators of *)
(* the sequences they speak of.                                            *)
Apart(c, d)      == c.ids \intersect d.ids = {}
ApartWithin(s)   == \A i, j \in DOMAIN s : i # j => Apart(s[i], s[j])
ApartFrom(s, c)  == \A i \in DOMAIN s : Apart(s[i], c)
ApartSeqs(s, r)  == \A i \in DOMAIN s, j \in DOMAIN r : Apart(s[i], r[j])

LEMMA TwiceNow ==
  NoTradeTwice <=> /\ ApartWithin(emitted)
                   /\ ApartWithin(pending)
                   /\ ApartSeqs(emitted, pending)
                   /\ ApartFrom(emitted, current)
                   /\ ApartFrom(pending, current)
  BY DEF NoTradeTwice, ApartWithin, ApartSeqs, ApartFrom, Apart

LEMMA TwiceNext ==
  NoTradeTwice' <=> /\ ApartWithin(emitted')
                    /\ ApartWithin(pending')
                    /\ ApartSeqs(emitted', pending')
                    /\ ApartFrom(emitted', current')
                    /\ ApartFrom(pending', current')
  BY DEF NoTradeTwice, ApartWithin, ApartSeqs, ApartFrom, Apart

LEMMA ApartAppend ==
  ASSUME NEW s \in Seq(CandleType), NEW c \in CandleType,
         ApartWithin(s), ApartFrom(s, c)
  PROVE  ApartWithin(Append(s, c))
<1> SUFFICES ASSUME NEW i \in 1 .. Len(s) + 1, NEW j \in 1 .. Len(s) + 1, i # j
             PROVE  Apart(Append(s, c)[i], Append(s, c)[j])
  BY AppendFacts DEF ApartWithin
<1>1. CASE i \in 1 .. Len(s) /\ j \in 1 .. Len(s)
  BY <1>1, AppendFacts DEF ApartWithin
<1>2. CASE i = Len(s) + 1 /\ j \in 1 .. Len(s)
  BY <1>2, AppendFacts DEF ApartFrom, Apart
<1>3. CASE i \in 1 .. Len(s) /\ j = Len(s) + 1
  BY <1>3, AppendFacts DEF ApartFrom, Apart
<1> QED
  BY <1>1, <1>2, <1>3

LEMMA ApartAppendFrom ==
  ASSUME NEW s \in Seq(CandleType), NEW c \in CandleType, NEW d,
         ApartFrom(s, d), Apart(c, d)
  PROVE  ApartFrom(Append(s, c), d)
  BY AppendFacts DEF ApartFrom

LEMMA ApartAppendSeqs ==
  ASSUME NEW s \in Seq(CandleType), NEW r \in Seq(CandleType), NEW c \in CandleType,
         ApartSeqs(s, r)
  PROVE  /\ ApartFrom(r, c) => ApartSeqs(Append(s, c), r)
         /\ ApartFrom(s, c) => ApartSeqs(s, Append(r, c))
<1>1. ASSUME ApartFrom(r, c) PROVE ApartSeqs(Append(s, c), r)
  <2> SUFFICES ASSUME NEW i \in 1 .. Len(s) + 1, NEW j \in DOMAIN r
               PROVE  Apart(Append(s, c)[i], r[j])
    BY AppendFacts DEF ApartSeqs
  <2>1. CASE i \in 1 .. Len(s)
    BY <2>1, AppendFacts DEF ApartSeqs
  <2>2. CASE i = Len(s) + 1
    BY <1>1, <2>2, AppendFacts DEF ApartFrom, Apart
  <2> QED
    BY <2>1, <2>2
<1>2. ASSUME ApartFrom(s, c) PROVE ApartSeqs(s, Append(r, c))
  <2> SUFFICES ASSUME NEW i \in DOMAIN s, NEW j \in 1 .. Len(r) + 1
               PROVE  Apart(s[i], Append(r, c)[j])
    BY AppendFacts DEF ApartSeqs
  <2>1. CASE j \in 1 .. Len(r)
    BY <2>1, AppendFacts DEF ApartSeqs
  <2>2. CASE j = Len(r) + 1
    BY <1>2, <2>2, AppendFacts DEF ApartFrom
  <2> QED
    BY <2>1, <2>2
<1> QED
  BY <1>1, <1>2

LEMMA TwiceReceived ==
  ASSUME TypeOK, WindowPurity, NoTradeTwice,
         NEW t \in Nat \ {0}, NEW w \in Nat, Received(t, w)
  PROVE  NoTradeTwice'
<1>1. /\ emitted \in Seq(CandleType)
      /\ pending \in Seq(CandleType)
      /\ t \notin DOMAIN tape
      /\ emitted' = emitted
      /\ AddTrade(t, w)
  BY DEF Received, TypeOK
<1>2. /\ \A i \in DOMAIN emitted : t \notin emitted[i].ids
      /\ \A i \in DOMAIN pending : t \notin pending[i].ids
      /\ t \notin current.ids
  BY <1>1, PurityNow DEF PureOn
<1>3. /\ ApartFrom(emitted, OpenCandle(t, w))
      /\ ApartFrom(pending, OpenCandle(t, w))
      /\ Apart(current, OpenCandle(t, w))
  BY <1>2 DEF ApartFrom, Apart, OpenCandle
<1>4. CASE Rolls(w)
  <2>1. /\ current \in CandleType
        /\ pending' = Append(pending, current)
        /\ current' = OpenCandle(t, w)
    BY <1>1, <1>4 DEF AddTrade, Rolls, TypeOK
  <2>2. ApartWithin(pending') /\ ApartSeqs(emitted', pending')
    BY <1>1, <2>1, TwiceNow, ApartAppend, ApartAppendSeqs
  <2>3. ApartFrom(pending', current')
    BY <1>1, <1>3, <2>1, ApartAppendFrom
  <2> QED
    BY <1>1, <1>3, <2>1, <2>2, <2>3, TwiceNow, TwiceNext
<1>5. CASE ~Rolls(w)
  <2>1. pending' = pending
    BY <1>1, <1>5 DEF AddTrade
  <2>2. current'.ids \subseteq current.ids \union {t}
    BY <1>1, <1>5 DEF AddTrade, OpenCandle, UpdateCandle, NoCandle, TypeOK, CandleType
  <2>3. ApartFrom(emitted', current') /\ ApartFrom(pending', current')
    BY <1>1, <1>2, <2>1, <2>2, TwiceNow DEF ApartFrom, Apart
  <2> QED
    BY <1>1, <2>1, <2>3, TwiceNow, TwiceNext
<1> QED
  BY <1>4, <1>5

LEMMA TwiceStep ==
  ASSUME TypeOK, WindowPurity, NoTradeTwice, [Next]_vars
  PROVE  NoTradeTwice'
<1>0. emitted \in Seq(CandleType) /\ pending \in Seq(CandleType)
  BY DEF TypeOK
<1>1. CASE \E t \in Nat \ {0}, w \in Nat : Received(t, w)
  BY <1>1, TwiceReceived
<1>2. CASE EmitsPending
  <2>1. /\ Head(pending) \in CandleType
        /\ emitted' = Append(emitted, Head(pending))
        /\ pending' = Tail(pending)
        /\ current' = current
    BY <1>0, <1>2, TailFacts DEF EmitsPending
  <2>2. ApartFrom(emitted, Head(pending)) /\ Apart(Head(pending), current)
    BY <1>0, <1>2, TailFacts, TwiceNow DEF EmitsPending, ApartSeqs, ApartFrom
  <2>3. /\ ApartWithin(pending')
        /\ ApartFrom(pending', Head(pending))
        /\ ApartFrom(pending', current)
        /\ ApartSeqs(emitted, pending')
    <3>1. /\ \A i \in DOMAIN pending' : i + 1 \in DOMAIN pending /\ pending'[i] = pending[i + 1]
          /\ 1 \in DOMAIN pending /\ Head(pending) = pending[1]
          /\ \A i \in DOMAIN pending' : i \in Nat /\ i + 1 # 1
      BY <1>0, <1>2, TailFacts DEF EmitsPending
    <3> QED
      BY <3>1, TwiceNow DEF ApartWithin, ApartFrom, ApartSeqs
  <2>4. pending' \in Seq(CandleType)
    BY <1>0, <1>2, TailFacts DEF EmitsPending
  <2>5. ApartWithin(emitted') /\ ApartSeqs(emitted', pending')
    BY <1>0, <2>1, <2>2, <2>3, <2>4, TwiceNow, ApartAppend, ApartAppendSeqs
  <2>6. ApartFrom(emitted', current)
    BY <1>0, <2>1, <2>2, TwiceNow, ApartAppendFrom
  <2> QED
    BY <2>1, <2>3, <2>5, <2>6, TwiceNext
<1>3. CASE EmitsCurrent
  <2>1. /\ current \in CandleType
        /\ emitted' = Append(emitted, current)
        /\ pending' = pending
        /\ current' = NoCandle
    BY <1>3 DEF EmitsCurrent, TypeOK
  <2>2. ApartWithin(emitted') /\ ApartSeqs(emitted', pending')
    BY <1>0, <2>1, TwiceNow, ApartAppend, ApartAppendSeqs
  <2>3. ApartFrom(emitted', current') /\ ApartFrom(pending', current')
    BY <2>1 DEF ApartFrom, Apart, NoCandle
  <2> QED
    BY <2>1, <2>2, <2>3, TwiceNow, TwiceNext
<1>4. CASE \E c \in CandleType : EmitsFlat(c)
  <2> PICK c \in CandleType : EmitsFlat(c)
    BY <1>4
  <2>1. /\ ApartFrom(emitted, c)
        /\ ApartFrom(pending, c)
        /\ Apart(c, current)
    BY DEF EmitsFlat, ApartFrom, Apart
  <2>2. ApartWithin(emitted') /\ ApartSeqs(emitted', pending)
    BY <1>0, <2>1, TwiceNow, ApartAppend, ApartAppendSeqs DEF EmitsFlat
  <2>3. ApartFrom(emitted', current)
    BY <1>0, <2>1, TwiceNow, ApartAppendFrom DEF EmitsFlat
  <2> QED
    BY <2>2, <2>3, TwiceNow, TwiceNext DEF EmitsFlat
<1>5. CASE EmitsNothing
  BY <1>5, TwiceNow, TwiceNext DEF EmitsNothing
<1> QED
  BY <1>1, <1>2, <1>3, <1>4, <1>5, StepKinds

LEMMA InitTwice == Init => NoTradeTwice
  BY DEF Init, NoTradeTwice, NoCandle

(* No trade is in two candles, so volume and trade_count never repeat it.  *)
THEOREM NoDuplicates == Spec => []NoTradeTwice
  BY InitTypeOK, NextTypeOK, InitPure, PureStep, InitTwice, TwiceStep, PTL DEF Spec

(* The candles handed out, queued and open partition the trades that came. *)
THEOREM Partition == Spec => []EveryTradeOnce
<1>1. NoTradeLost /\ NoTradeTwice => EveryTradeOnce
  BY DEF EveryTradeOnce
<1> QED
  BY <1>1, Lossless, NoDuplicates, PTL
-----------------------------------------------------------------------------
(* CandleTellsItsSecond.  While every trade comes no earlier than the last *)
(* tick and than the trades before it, windows open, roll and are handed   *)
(* out in the order of their seconds (InOrder), no trade can still come for*)
(* one that is handed out or queued (Closed), every candle holds all the   *)
(* trades of its second (Contents), and the last price is that of the      *)
(* newest trade outside the open window once the queue is empty (LastPrice)*)

Rising(s)        == \A i, j \in DOMAIN s : i < j => s[i].time < s[j].time
Before(s, w)     == \A i \in DOMAIN s : s[i].time < w
AllBefore(s, r)  == \A j \in DOMAIN r : Before(s, r[j].time)
Later(w, tp)     == \E t \in DOMAIN tp : tp[t] > w
Complete(c, tp)  == c.ids = {t \in DOMAIN tp : tp[t] = c.time}
Newest(n, T)     == n \in T /\ \A u \in T : u <= n
NewestOr(n, T, none) == IF T = {} THEN n \in none ELSE Newest(n, T)

InOrder(e, p, c) ==
  /\ Rising(e) /\ Rising(p) /\ AllBefore(e, p)
  /\ c # NoCandle => Before(e, c.time) /\ Before(p, c.time)

(* No timely trade can come for a candle handed out or queued.             *)
Closed(e, p, last, now, tp) ==
  /\ \A t, u \in DOMAIN tp : t < u => tp[t] <= tp[u]
  /\ \A i \in DOMAIN e :
       (e[i].time < now \/ Later(e[i].time, tp)) /\ e[i].time <= last
  /\ \A j \in DOMAIN p : Later(p[j].time, tp)

Contents(e, p, c, tp) ==
  /\ \A i \in DOMAIN e : Complete(e[i], tp)
  /\ \A j \in DOMAIN p : Complete(p[j], tp) /\ Newest(p[j].close, p[j].ids)
  /\ c # NoCandle => Complete(c, tp) /\ Newest(c.close, c.ids)

(* The last price known is that of the newest trade outside the open       *)
(* window, as soon as the queue is empty.                                  *)
LastPrice(p, c, close, tp) ==
  p = <<>> => NewestOr(close, (DOMAIN tp) \ c.ids, {NoClose, Seed})

FlatPrices(e, tp) ==
  \A i \in DOMAIN e : e[i].ids = {} =>
    NewestOr(e[i].close, {t \in DOMAIN tp : tp[t] < e[i].time}, {Seed})

Timeliness ==
  /\ InOrder(emitted, pending, current)
  /\ Closed(emitted, pending, lastEmitted, clock, tape)
  /\ Contents(emitted, pending, current, tape)
  /\ LastPrice(pending, current, lastClose, tape)
  /\ FlatPrices(emitted, tape)

TimelinessNext ==
  /\ InOrder(emitted', pending', current')
  /\ Closed(emitted', pending', lastEmitted', clock', tape')
  /\ Contents(emitted', pending', current', tape')
  /\ LastPrice(pending', current', lastClose', tape')
  /\ FlatPrices(emitted', tape')

LEMMA TimelinessPrimed == Timeliness' <=> TimelinessNext
BY DEF Timeliness, TimelinessNext, InOrder, Rising, Before, AllBefore, Closed, Later, Contents,
       Complete, Newest, LastPrice, NewestOr, FlatPrices

(* What is known of the aggregator in every state, timely or not.          *)
Basics == TypeOK /\ NoTradeLost /\ WindowPurity

(* In the initial state there is nothing that could be late.               *)
LEMMA TimelyInit == Init => Timeliness
BY DEF Init, Timeliness, InOrder, Rising, Before, AllBefore, Closed, Contents, LastPrice,
       NewestOr, FlatPrices, NoCandle

(* Where a trade is, and in which second.                                  *)
LEMMA TradeIsSomewhere ==
  ASSUME Basics, NEW t \in DOMAIN tape
  PROVE  \/ \E i \in DOMAIN emitted : t \in emitted[i].ids /\ emitted[i].time = tape[t]
         \/ \E j \in DOMAIN pending : t \in pending[j].ids /\ pending[j].time = tape[t]
         \/ t \in current.ids /\ current # NoCandle /\ current.time = tape[t]
<1>1. Held(t, emitted, pending, current)
  BY LostNow DEF Basics
<1>2. NoCandle.ids = {}
  BY DEF NoCandle
<1> QED
  BY <1>1, <1>2, PurityNow DEF Held, PureOn, Basics

(* A timely trade opens, updates or rolls a window and leaves the others.  *)
LEMMA ReceivedTimely ==
  ASSUME Basics, Timeliness, NEW w \in Nat, Timely(w), NEW t \in Nat \ {0},
         t = Len(tape) + 1, tape' = Append(tape, w), AddTrade(t, w),
         emitted' = emitted, clock' = clock
  PROVE  TimelinessNext
<1>1. /\ emitted \in Seq(CandleType) /\ pending \in Seq(CandleType) /\ tape \in Seq(Nat)
      /\ current \in CandleType \union {NoCandle} /\ clock \in Nat
      /\ lastEmitted' = lastEmitted
  BY DEF Basics, TypeOK, AddTrade
<1>2. /\ DOMAIN tape' = DOMAIN tape \union {t} /\ t \notin DOMAIN tape
      /\ \A u \in DOMAIN tape : u \in Nat /\ u < t /\ tape'[u] = tape[u] /\ tape[u] \in Nat
      /\ tape'[t] = w
  BY <1>1, AppendFacts
<1>3. w >= clock /\ \A u \in DOMAIN tape : tape[u] <= w
  BY DEF Timely, Trades
<1>4. \A i \in DOMAIN emitted : emitted[i] \in CandleType
  BY <1>1
<1>5. \A j \in DOMAIN pending : pending[j] \in CandleType
  BY <1>1
<1>6. ASSUME NEW v \in Nat, Later(v, tape)
      PROVE  v < w /\ Later(v, tape')
  <2>1. PICK u \in DOMAIN tape : tape[u] > v
    BY <1>6 DEF Later
  <2> QED
    BY <1>2, <1>3, <2>1 DEF Later
<1>7. Before(emitted, w)
  <2>1. SUFFICES ASSUME NEW i \in DOMAIN emitted PROVE emitted[i].time < w
    BY DEF Before
  <2>2. emitted[i].time \in Nat
    BY <1>4 DEF CandleType
  <2>3. emitted[i].time < clock \/ Later(emitted[i].time, tape)
    BY DEF Timeliness, Closed
  <2> QED
    BY <1>1, <1>3, <1>6, <2>2, <2>3
<1>8. Before(pending, w)
  BY <1>5, <1>6 DEF Before, Timeliness, Closed, CandleType
<1>9. ASSUME NEW c \in CandleType, c.time # w, Complete(c, tape)
      PROVE  Complete(c, tape')
  BY <1>2, <1>9 DEF Complete
<1>10. \A i \in DOMAIN emitted' : Complete(emitted'[i], tape')
  BY <1>4, <1>7, <1>9 DEF Before, Timeliness, Contents, CandleType
<1>11. \A j \in DOMAIN pending : Complete(pending[j], tape') /\ Newest(pending[j].close, pending[j].ids)
  BY <1>5, <1>8, <1>9 DEF Before, Timeliness, Contents, CandleType
<1>12. current # NoCandle => current \in CandleType /\ current.time <= w /\ current.ids \subseteq DOMAIN tape
  <2>1. SUFFICES ASSUME current # NoCandle
                 PROVE  current \in CandleType /\ current.time <= w /\ current.ids \subseteq DOMAIN tape
    OBVIOUS
  <2>2. Complete(current, tape) /\ Newest(current.close, current.ids)
    BY <2>1 DEF Timeliness, Contents
  <2>3. current.close \in DOMAIN tape /\ tape[current.close] = current.time
    BY <2>2 DEF Complete, Newest
  <2> QED
    BY <1>1, <1>3, <2>1, <2>2, <2>3 DEF Complete
<1>13. FlatPrices(emitted', tape')
  <2>1. SUFFICES ASSUME NEW i \in DOMAIN emitted, emitted[i].ids = {}
                 PROVE  NewestOr(emitted[i].close, {u \in DOMAIN tape' : tape'[u] < emitted[i].time}, {Seed})
    BY DEF FlatPrices
  <2>2. emitted[i].time < w /\ emitted[i].time \in Nat
    BY <1>4, <1>7 DEF Before, CandleType
  <2>3. {u \in DOMAIN tape' : tape'[u] < emitted[i].time} = {u \in DOMAIN tape : tape[u] < emitted[i].time}
    BY <1>2, <2>2
  <2> QED
    BY <2>1, <2>3 DEF Timeliness, FlatPrices
<1>14. \A u, v \in DOMAIN tape' : u < v => tape'[u] <= tape'[v]
  BY <1>2, <1>3 DEF Timeliness, Closed
<1>15. ASSUME \A j \in DOMAIN pending' : Later(pending'[j].time, tape')
       PROVE  Closed(emitted', pending', lastEmitted', clock', tape')
  <2>1. ASSUME NEW i \in DOMAIN emitted
        PROVE  (emitted[i].time < clock \/ Later(emitted[i].time, tape')) /\ emitted[i].time <= lastEmitted
    BY <1>4, <1>6 DEF Timeliness, Closed, CandleType
  <2> QED
    BY <1>1, <1>14, <1>15, <2>1 DEF Closed
<1>16. \A j \in DOMAIN pending : Later(pending[j].time, tape')
  BY <1>5, <1>6 DEF Timeliness, Closed, CandleType
<1>0. ASSUME NEW u \in DOMAIN tape, tape[u] = w
      PROVE  current # NoCandle /\ current.time = w
  <2>1. ASSUME NEW i \in DOMAIN emitted, emitted[i].time = tape[u] PROVE FALSE
    <3>1. emitted[i].time < w /\ emitted[i].time \in Nat
      BY <1>4, <1>7 DEF Before, CandleType
    <3> QED
      BY <1>0, <2>1, <3>1
  <2>2. ASSUME NEW j \in DOMAIN pending, pending[j].time = tape[u] PROVE FALSE
    <3>1. pending[j].time < w /\ pending[j].time \in Nat
      BY <1>5, <1>8 DEF Before, CandleType
    <3> QED
      BY <1>0, <2>2, <3>1
  <2> QED
    BY <1>0, <2>1, <2>2, TradeIsSomewhere
<1>17. CASE Rolls(w)
  <2>1. /\ current # NoCandle /\ current \in CandleType /\ current.time < w
        /\ pending' = Append(pending, current) /\ current' = OpenCandle(t, w)
    BY <1>12, <1>17 DEF Rolls, AddTrade, CandleType
  <2>2. current'.time = w /\ current'.ids = {t} /\ current'.close = t
    BY <2>1 DEF OpenCandle
  <2>3. /\ DOMAIN pending' = 1 .. Len(pending) + 1
        /\ DOMAIN pending = 1 .. Len(pending) /\ Len(pending) \in Nat
        /\ \A j \in 1 .. Len(pending) : pending'[j] = pending[j]
        /\ pending'[Len(pending) + 1] = current
    BY <1>1, <2>1, AppendFacts
  <2>4. \A j \in DOMAIN pending' : \/ j \in DOMAIN pending /\ pending'[j] = pending[j]
                                   \/ j = Len(pending) + 1 /\ pending'[j] = current
    BY <2>3
  <2>5. InOrder(emitted', pending', current')
    <3>1. Rising(pending')
      <4>1. SUFFICES ASSUME NEW i \in DOMAIN pending', NEW j \in DOMAIN pending', i < j
                     PROVE  pending'[i].time < pending'[j].time
        BY DEF Rising
      <4>2. i \in DOMAIN pending /\ pending'[i] = pending[i]
        BY <2>3, <4>1
      <4>3. CASE j \in DOMAIN pending
        BY <2>3, <4>1, <4>2, <4>3 DEF Timeliness, InOrder, Rising
      <4>4. CASE pending'[j] = current
        BY <2>1, <4>2, <4>4 DEF Timeliness, InOrder, Before
      <4> QED
        BY <2>4, <4>3, <4>4
    <3>2. AllBefore(emitted', pending')
      BY <2>1, <2>4 DEF AllBefore, Timeliness, InOrder
    <3>3. Before(pending', current'.time)
      BY <1>8, <2>1, <2>2, <2>4 DEF Before
    <3> QED
      BY <1>7, <2>2, <3>1, <3>2, <3>3 DEF Timeliness, InOrder
  <2>6. Later(current.time, tape')
    BY <1>2, <2>1 DEF Later
  <2>7. Closed(emitted', pending', lastEmitted', clock', tape')
    BY <1>15, <1>16, <2>4, <2>6
  <2>8. \A u \in DOMAIN tape : tape[u] # w
    <3>1. SUFFICES ASSUME NEW u \in DOMAIN tape, tape[u] = w PROVE FALSE
      OBVIOUS
    <3> QED
      BY <1>0, <2>1, <3>1 DEF CandleType
  <2>9. Complete(current', tape') /\ Newest(current'.close, current'.ids)
    BY <1>2, <2>2, <2>8 DEF Complete, Newest
  <2>10. Complete(current, tape') /\ Newest(current.close, current.ids)
    BY <1>9, <2>1 DEF Timeliness, Contents, CandleType
  <2>11. Contents(emitted', pending', current', tape')
    BY <1>10, <1>11, <2>4, <2>9, <2>10 DEF Contents
  <2>12. pending' # <<>>
    BY SMTT(30), <1>1, <2>1
  <2> QED
    BY <1>13, <2>5, <2>7, <2>11, <2>12 DEF TimelinessNext, LastPrice
<1>18. CASE ~Rolls(w)
  <2>1. pending' = pending /\ lastClose' = lastClose
    BY <1>18 DEF AddTrade
  <2>2. Closed(emitted', pending', lastEmitted', clock', tape')
    BY <1>15, <1>16, <2>1
  <2>3. /\ current'.time = w /\ current'.close = t
        /\ current'.ids = current.ids \union {t} /\ current' # NoCandle
        /\ current # NoCandle => current.time = w
    <3>1. CASE current = NoCandle
      BY <1>18, <3>1 DEF AddTrade, OpenCandle, NoCandle, NoTime
    <3>2. CASE current # NoCandle
      <4>1. current' = UpdateCandle(current, t) /\ current.time = w /\ current \in CandleType
        BY <1>12, <1>18, <3>2 DEF AddTrade, Rolls
      <4>2. current'.time = w /\ current'.close = t /\ current'.ids = current.ids \union {t}
        BY <4>1 DEF UpdateCandle, CandleType
      <4>3. NoCandle.ids = {}
        BY DEF NoCandle
      <4> QED
        BY <4>1, <4>2, <4>3
    <3> QED
      BY <3>1, <3>2
  <2>4. InOrder(emitted', pending', current')
    BY <1>7, <1>8, <2>1, <2>3 DEF Timeliness, InOrder
  <2>5. ASSUME NEW u \in DOMAIN tape PROVE tape[u] = w <=> u \in current.ids
    <3>1. CASE current = NoCandle
      <4>1. tape[u] # w
        BY <1>0, <3>1
      <4> QED
        BY <3>1, <4>1 DEF NoCandle
    <3>2. CASE current # NoCandle
      BY <2>3, <3>2 DEF Timeliness, Contents, Complete
    <3> QED
      BY <3>1, <3>2
  <2>6. current.ids \subseteq DOMAIN tape
    BY <1>12 DEF NoCandle
  <2>7. Complete(current', tape')
    BY <1>2, <2>3, <2>5, <2>6 DEF Complete
  <2>8. Newest(current'.close, current'.ids)
    BY <1>2, <2>3, <2>6 DEF Newest
  <2>9. Contents(emitted', pending', current', tape')
    BY <1>10, <1>11, <2>1, <2>7, <2>8 DEF Contents
  <2>10. (DOMAIN tape') \ current'.ids = (DOMAIN tape) \ current.ids
    BY <1>2, <2>3
  <2>11. LastPrice(pending', current', lastClose', tape')
    BY <2>1, <2>10 DEF Timeliness, LastPrice
  <2> QED
    BY <1>13, <2>2, <2>4, <2>9, <2>11 DEF TimelinessNext
<1> QED
  BY <1>17, <1>18

(* A later clock closes no candle less.                                    *)
LEMMA ClosedStays ==
  ASSUME Basics, Timeliness, clock' \in Nat, clock' >= clock
  PROVE  \A i \in DOMAIN emitted :
           /\ emitted[i] \in CandleType
           /\ emitted[i].time < clock' \/ Later(emitted[i].time, tape)
           /\ emitted[i].time <= lastEmitted
<1> SUFFICES ASSUME NEW i \in DOMAIN emitted
             PROVE  /\ emitted[i] \in CandleType
                    /\ emitted[i].time < clock' \/ Later(emitted[i].time, tape)
                    /\ emitted[i].time <= lastEmitted
  OBVIOUS
<1>1. emitted[i] \in CandleType /\ clock \in Nat
  BY DEF Basics, TypeOK
<1>2. /\ emitted[i].time < clock \/ Later(emitted[i].time, tape)
      /\ emitted[i].time <= lastEmitted
  BY DEF Timeliness, Closed
<1>3. emitted[i].time \in Nat
  BY <1>1 DEF CandleType
<1> QED
  BY <1>1, <1>2, <1>3

(* What a candle handed out must be for the rest to stay timely.           *)
LEMMA EmittedTimely ==
  ASSUME Basics, Timeliness, clock' \in Nat, clock' >= clock, UNCHANGED tape,
         NEW c \in CandleType, emitted' = Append(emitted, c), lastEmitted' = c.time,
         Before(emitted, c.time), c.time < clock' \/ Later(c.time, tape),
         Complete(c, tape),
         c.ids = {} => NewestOr(c.close, {t \in DOMAIN tape : tape[t] < c.time}, {Seed}),
         \A j \in DOMAIN pending' : pending'[j] \in CandleType /\ Later(pending'[j].time, tape)
  PROVE  /\ Rising(emitted')
         /\ Closed(emitted', pending', lastEmitted', clock', tape')
         /\ \A i \in DOMAIN emitted' : Complete(emitted'[i], tape')
         /\ FlatPrices(emitted', tape')
         /\ \A w \in Nat : Before(emitted, w) /\ c.time < w => Before(emitted', w)
<1>1. emitted \in Seq(CandleType)
  BY DEF Basics, TypeOK
<1>2. /\ DOMAIN emitted' = 1 .. Len(emitted) + 1
      /\ DOMAIN emitted = 1 .. Len(emitted) /\ Len(emitted) \in Nat
      /\ \A i \in 1 .. Len(emitted) : emitted'[i] = emitted[i]
      /\ emitted'[Len(emitted) + 1] = c
  BY <1>1, AppendFacts
<1>3. \A i \in DOMAIN emitted' : \/ i \in DOMAIN emitted /\ emitted'[i] = emitted[i]
                                 \/ i = Len(emitted) + 1 /\ emitted'[i] = c
  BY <1>2
<1>4. Rising(emitted')
  <2>1. SUFFICES ASSUME NEW i \in DOMAIN emitted', NEW j \in DOMAIN emitted', i < j
                 PROVE  emitted'[i].time < emitted'[j].time
    BY DEF Rising
  <2>2. i \in DOMAIN emitted /\ emitted'[i] = emitted[i]
    BY <1>2, <2>1
  <2>3. CASE j \in DOMAIN emitted
    BY <1>2, <2>1, <2>2, <2>3 DEF Timeliness, InOrder, Rising
  <2>4. CASE emitted'[j] = c
    BY <2>2, <2>4 DEF Before
  <2> QED
    BY <1>3, <2>3, <2>4
<1>5. \A i \in DOMAIN emitted' :
        (emitted'[i].time < clock' \/ Later(emitted'[i].time, tape)) /\ emitted'[i].time <= lastEmitted'
  <2>1. SUFFICES ASSUME NEW i \in DOMAIN emitted'
                 PROVE  /\ emitted'[i].time < clock' \/ Later(emitted'[i].time, tape)
                        /\ emitted'[i].time <= lastEmitted'
    OBVIOUS
  <2>2. CASE i \in DOMAIN emitted /\ emitted'[i] = emitted[i]
    <3>1. emitted[i].time < c.time /\ emitted[i].time \in Nat /\ c.time \in Nat
      BY <2>2, ClosedStays DEF Before, CandleType
    <3> QED
      BY <2>2, <3>1, ClosedStays
  <2>3. CASE emitted'[i] = c
    BY <2>3 DEF CandleType
  <2> QED
    BY <1>3, <2>2, <2>3
<1>6. Closed(emitted', pending', lastEmitted', clock', tape')
  BY <1>5 DEF Closed, Timeliness
<1>7. \A i \in DOMAIN emitted' : Complete(emitted'[i], tape')
  BY <1>3 DEF Timeliness, Contents
<1>8. FlatPrices(emitted', tape')
  BY <1>3 DEF Timeliness, FlatPrices
<1>9. \A w \in Nat : Before(emitted, w) /\ c.time < w => Before(emitted', w)
  BY <1>3 DEF Before
<1> QED
  BY <1>4, <1>6, <1>7, <1>8, <1>9

(* The tick of a queued candle.                                            *)
LEMMA PendingTimely ==
  ASSUME Basics, Timeliness, clock' \in Nat, clock' >= clock, UNCHANGED tape, TickPending
  PROVE  TimelinessNext
<1> DEFINE c == Head(pending)
<1>1. /\ pending \in Seq(CandleType) /\ pending # <<>> /\ pending' = Tail(pending)
      /\ current' = current /\ lastClose' = c.close /\ lastEmitted' = c.time
      /\ emitted' = Append(emitted, c)
      /\ current \in CandleType \union {NoCandle}
  BY DEF TickPending, Emit, Basics, TypeOK
<1>2. /\ c \in CandleType /\ c = pending[1] /\ 1 \in DOMAIN pending
      /\ Len(pending) \in Nat /\ DOMAIN pending = 1 .. Len(pending)
      /\ pending' \in Seq(CandleType) /\ DOMAIN pending' = 1 .. Len(pending) - 1
      /\ \A j \in 1 .. Len(pending) - 1 : pending'[j] = pending[j + 1]
  BY <1>1, TailFacts
<1>3. \A j \in DOMAIN pending' : j + 1 \in DOMAIN pending /\ pending'[j] = pending[j + 1] /\ 1 < j + 1
  BY <1>2
<1> HIDE DEF c
<1>4. /\ Before(emitted, c.time) /\ Later(c.time, tape) /\ Complete(c, tape)
      /\ Newest(c.close, c.ids)
  BY <1>2 DEF Timeliness, InOrder, AllBefore, Closed, Contents
<1>5. c.ids # {}
  BY <1>4 DEF Newest
<1>6. \A j \in DOMAIN pending' : pending'[j] \in CandleType /\ Later(pending'[j].time, tape)
  BY <1>2, <1>3 DEF Timeliness, Closed
<1>7. /\ Rising(emitted')
      /\ Closed(emitted', pending', lastEmitted', clock', tape')
      /\ \A i \in DOMAIN emitted' : Complete(emitted'[i], tape')
      /\ FlatPrices(emitted', tape')
      /\ \A w \in Nat : Before(emitted, w) /\ c.time < w => Before(emitted', w)
  BY <1>1, <1>2, <1>4, <1>5, <1>6, EmittedTimely
<1>8. Rising(pending')
  <2>1. SUFFICES ASSUME NEW i \in DOMAIN pending', NEW j \in DOMAIN pending', i < j
                 PROVE  pending'[i].time < pending'[j].time
    BY DEF Rising
  <2>2. i + 1 < j + 1
    BY <1>2, <2>1
  <2> QED
    BY <1>3, <2>2 DEF Timeliness, InOrder, Rising
<1>9. ASSUME NEW j \in DOMAIN pending' PROVE Before(emitted', pending'[j].time)
  <2>1. c.time < pending'[j].time
    BY <1>2, <1>3 DEF Timeliness, InOrder, Rising
  <2>2. Before(emitted, pending'[j].time)
    BY <1>3 DEF Timeliness, InOrder, AllBefore
  <2>3. pending'[j].time \in Nat
    BY <1>6 DEF CandleType
  <2> QED
    BY <1>7, <2>1, <2>2, <2>3
<1>10. current # NoCandle => Before(emitted', current.time) /\ Before(pending', current.time)
  <2>1. SUFFICES ASSUME current # NoCandle
                 PROVE  Before(emitted', current.time) /\ Before(pending', current.time)
    OBVIOUS
  <2>2. Before(emitted, current.time) /\ Before(pending, current.time)
    BY <2>1 DEF Timeliness, InOrder
  <2>3. c.time < current.time /\ current.time \in Nat
    BY <1>1, <1>2, <2>1, <2>2 DEF Before, CandleType
  <2>4. Before(pending', current.time)
    BY <1>3, <2>2 DEF Before
  <2> QED
    BY <1>7, <2>2, <2>3, <2>4
<1>11. InOrder(emitted', pending', current')
  BY <1>1, <1>7, <1>8, <1>9, <1>10 DEF InOrder, AllBefore
<1>12. Contents(emitted', pending', current', tape')
  BY <1>1, <1>3, <1>7 DEF Timeliness, Contents
<1>13. LastPrice(pending', current', lastClose', tape')
  <2>1. SUFFICES ASSUME pending' = <<>>
                 PROVE  Newest(c.close, (DOMAIN tape) \ current.ids)
    <3>1. (DOMAIN tape) \ current.ids # {} \/ ~Newest(c.close, (DOMAIN tape) \ current.ids)
      BY DEF Newest
    <3> QED
      BY <1>1, <3>1 DEF LastPrice, NewestOr
  <2>2. Len(pending) = 1
    <3>1. DOMAIN pending' = {}
      BY <2>1
    <3>2. 1 \notin 1 .. Len(pending) - 1
      BY <1>2, <3>1
    <3>3. 1 \in 1 .. Len(pending) /\ Len(pending) \in Nat
      BY <1>2
    <3> DEFINE n == Len(pending)
    <3>4. n \in Nat /\ 1 \in 1 .. n /\ 1 \notin 1 .. n - 1
      BY <3>2, <3>3
    <3> HIDE DEF n
    <3>5. n = 1
      BY <3>4
    <3> QED
      BY <3>5 DEF n
  <2>3. \A j \in DOMAIN pending : pending[j] = c
    BY <1>2, <2>2
  <2>4. c.close \in DOMAIN tape /\ tape[c.close] = c.time
    BY <1>4 DEF Complete, Newest
  <2>5. c.close \notin current.ids
    <3>1. SUFFICES ASSUME c.close \in current.ids PROVE FALSE
      OBVIOUS
    <3>2. current # NoCandle
      BY <3>1 DEF NoCandle
    <3>3. c.time < current.time /\ c.time \in Nat /\ tape[c.close] = current.time
      BY <1>1, <1>2, <3>1, <3>2 DEF Timeliness, InOrder, Before, Contents, Complete, CandleType
    <3> QED
      BY <2>4, <3>3
  <2>6. ASSUME NEW u \in (DOMAIN tape) \ current.ids PROVE u <= c.close
    <3>1. \/ \E i \in DOMAIN emitted : u \in emitted[i].ids /\ emitted[i].time = tape[u]
          \/ u \in c.ids
      BY <2>3, TradeIsSomewhere
    <3>2. CASE u \in c.ids
      BY <1>4, <3>2 DEF Newest
    <3>3. ASSUME NEW i \in DOMAIN emitted, emitted[i].time = tape[u] PROVE u <= c.close
      <4>1. tape[u] < tape[c.close]
        BY <1>4, <2>4, <3>3 DEF Before
      <4>2. u \in Nat /\ c.close \in Nat /\ tape[u] \in Nat /\ tape[c.close] \in Nat
        BY <2>4 DEF Basics, TypeOK
      <4>3. ~(c.close < u)
        BY <2>4, <4>1, <4>2 DEF Timeliness, Closed
      <4> QED
        BY <4>2, <4>3
    <3> QED
      BY <3>1, <3>2, <3>3
  <2> QED
    BY <2>4, <2>5, <2>6 DEF Newest
<1> QED
  BY <1>7, <1>11, <1>12, <1>13 DEF TimelinessNext

(* The tick that closes the open window.                                   *)
LEMMA CurrentTimely ==
  ASSUME Basics, Timeliness, NEW now \in Nat, clock' = now, now >= clock, UNCHANGED tape,
         TickCurrent(now)
  PROVE  TimelinessNext
<1>1. /\ pending = <<>> /\ pending' = <<>> /\ current # NoCandle /\ current' = NoCandle
      /\ lastClose' = current.close /\ lastEmitted' = current.time
      /\ emitted' = Append(emitted, current) /\ current.time <= now - 1
      /\ current \in CandleType
  BY DEF TickCurrent, Emit, Basics, TypeOK
<1>2. /\ Before(emitted, current.time) /\ Complete(current, tape)
      /\ Newest(current.close, current.ids) /\ current.time < now
  BY <1>1 DEF Timeliness, InOrder, Contents, CandleType
<1>3. current.ids # {}
  BY <1>2 DEF Newest
<1>4. /\ Rising(emitted')
      /\ Closed(emitted', pending', lastEmitted', clock', tape')
      /\ \A i \in DOMAIN emitted' : Complete(emitted'[i], tape')
      /\ FlatPrices(emitted', tape')
  <2>1. /\ \A j \in DOMAIN pending' : pending'[j] \in CandleType /\ Later(pending'[j].time, tape)
        /\ current.time \in Nat /\ clock' \in Nat /\ clock' >= clock
    BY <1>1 DEF CandleType
  <2>2. current.time < clock' \/ Later(current.time, tape)
    BY <1>2
  <2>3. current.ids = {} => NewestOr(current.close, {t \in DOMAIN tape : tape[t] < current.time}, {Seed})
    BY <1>3
  <2>4. Complete(current, tape) /\ Before(emitted, current.time)
    BY <1>2
  <2> QED
    BY <1>1, <2>1, <2>2, <2>3, <2>4, EmittedTimely
<1>5. InOrder(emitted', pending', current')
  BY <1>1, <1>4 DEF InOrder, Rising, AllBefore
<1>6. Contents(emitted', pending', current', tape')
  BY <1>1, <1>4 DEF Contents
<1>7. Newest(current.close, DOMAIN tape)
  <2>1. current.close \in DOMAIN tape /\ tape[current.close] = current.time
    BY <1>2 DEF Complete, Newest
  <2>2. ASSUME NEW u \in DOMAIN tape PROVE u <= current.close
    <3>1. \/ \E i \in DOMAIN emitted : u \in emitted[i].ids /\ emitted[i].time = tape[u]
          \/ u \in current.ids
      BY <1>1, TradeIsSomewhere
    <3>2. CASE u \in current.ids
      BY <1>2, <3>2 DEF Newest
    <3>3. ASSUME NEW i \in DOMAIN emitted, emitted[i].time = tape[u] PROVE u <= current.close
      <4>1. tape[u] < tape[current.close]
        BY <1>2, <2>1, <3>3 DEF Before
      <4>2. /\ u \in Nat /\ current.close \in Nat
            /\ tape[u] \in Nat /\ tape[current.close] \in Nat
        BY <2>1 DEF Basics, TypeOK
      <4>3. ~(current.close < u)
        BY <2>1, <4>1, <4>2 DEF Timeliness, Closed
      <4> QED
        BY <4>2, <4>3
    <3> QED
      BY <3>1, <3>2, <3>3
  <2> QED
    BY <2>1, <2>2 DEF Newest
<1>8. LastPrice(pending', current', lastClose', tape')
  <2>1. current'.ids = {}
    BY <1>1 DEF NoCandle
  <2>2. DOMAIN tape # {}
    BY <1>7 DEF Newest
  <2> QED
    BY <1>1, <1>7, <2>1, <2>2 DEF LastPrice, NewestOr
<1> QED
  BY <1>4, <1>5, <1>6, <1>8 DEF TimelinessNext

(* The tick of a second without a trade.                                   *)
LEMMA FlatTimely ==
  ASSUME Basics, Timeliness, NEW now \in Nat \ {0}, clock' = now, now >= clock, UNCHANGED tape,
         TickFlat(now)
  PROVE  TimelinessNext
<1> DEFINE w == now - 1
           c == FlatCandle(w)
<1>1. /\ pending = <<>> /\ pending' = <<>> /\ current' = current
      /\ current = NoCandle \/ current.time > w
      /\ lastClose # NoClose /\ lastClose \in Nat
      /\ lastClose' = c.close /\ lastEmitted' = c.time /\ emitted' = Append(emitted, c)
      /\ ~AlreadyEmitted(now)
  BY DEF TickFlat, Emit, Basics, TypeOK
<1>2. w \in Nat /\ w < now
  OBVIOUS
<1>3. c.time = w /\ c.ids = {} /\ c.close = lastClose /\ c \in CandleType
  BY <1>1, <1>2 DEF FlatCandle, CandleType
<1>4. lastEmitted = NoTime \/ lastEmitted < w
  BY <1>1 DEF AlreadyEmitted, Basics, TypeOK, NoTime
<1>5. ASSUME NEW i \in DOMAIN emitted PROVE emitted[i].time < w /\ emitted[i].time \in Nat
  <2>1. emitted[i].time \in Nat /\ emitted[i].time <= lastEmitted
    BY ClosedStays, <1>2 DEF CandleType
  <2> QED
    BY <1>2, <1>4, <2>1 DEF NoTime, Basics, TypeOK
<1> HIDE DEF c, w
<1>6. \A u \in DOMAIN tape : tape[u] \in Nat
  BY DEF Basics, TypeOK
<1>7. current # NoCandle =>
        /\ current \in CandleType /\ current.time > w
        /\ Complete(current, tape)
  BY <1>1 DEF Basics, TypeOK, Timeliness, Contents
<1>8. ASSUME NEW u \in DOMAIN tape
      PROVE  /\ u \notin current.ids <=> tape[u] < w
             /\ tape[u] # w
  <2>1. \/ \E i \in DOMAIN emitted : u \in emitted[i].ids /\ emitted[i].time = tape[u]
        \/ u \in current.ids /\ current # NoCandle /\ current.time = tape[u]
    BY <1>1, TradeIsSomewhere
  <2>2. CASE u \in current.ids /\ current # NoCandle /\ current.time = tape[u]
    BY <1>2, <1>6, <1>7, <2>2 DEF CandleType
  <2>3. ASSUME NEW i \in DOMAIN emitted, emitted[i].time = tape[u]
        PROVE  u \notin current.ids /\ tape[u] < w /\ tape[u] # w
    <3>1. tape[u] < w /\ tape[u] # w
      BY <1>2, <1>5, <2>3
    <3>2. u \notin current.ids
      <4>1. CASE current = NoCandle
        BY <4>1 DEF NoCandle
      <4>2. CASE current # NoCandle
        BY <1>2, <1>6, <1>7, <3>1, <4>2 DEF Complete, CandleType
      <4> QED
        BY <4>1, <4>2
    <3> QED
      BY <3>1, <3>2
  <2> QED
    BY <2>1, <2>2, <2>3
<1>9. Complete(c, tape)
  BY <1>3, <1>8 DEF Complete
<1>10. {t \in DOMAIN tape : tape[t] < w} = (DOMAIN tape) \ current.ids
  BY <1>8
<1>11. NewestOr(lastClose, (DOMAIN tape) \ current.ids, {NoClose, Seed})
  BY <1>1 DEF Timeliness, LastPrice
<1>12. NewestOr(c.close, {t \in DOMAIN tape : tape[t] < c.time}, {Seed})
  BY <1>1, <1>3, <1>10, <1>11 DEF NewestOr
<1>13. Before(emitted, c.time)
  BY <1>3, <1>5 DEF Before
<1>14. /\ Rising(emitted')
       /\ Closed(emitted', pending', lastEmitted', clock', tape')
       /\ \A i \in DOMAIN emitted' : Complete(emitted'[i], tape')
       /\ FlatPrices(emitted', tape')
       /\ \A v \in Nat : Before(emitted, v) /\ c.time < v => Before(emitted', v)
  <2>1. \A j \in DOMAIN pending' : pending'[j] \in CandleType /\ Later(pending'[j].time, tape)
    BY <1>1
  <2>2. c.time < clock' \/ Later(c.time, tape)
    BY <1>2, <1>3
  <2> QED
    BY <1>1, <1>3, <1>9, <1>12, <1>13, <2>1, <2>2, EmittedTimely
<1>15. current # NoCandle => Before(emitted', current.time)
  BY <1>3, <1>7, <1>14 DEF Timeliness, InOrder, CandleType
<1>16. InOrder(emitted', pending', current')
  BY <1>1, <1>14, <1>15 DEF InOrder, Rising, AllBefore, Before
<1>17. Contents(emitted', pending', current', tape')
  BY <1>1, <1>14 DEF Contents, Timeliness
<1>18. LastPrice(pending', current', lastClose', tape')
  BY <1>1, <1>3, <1>11 DEF LastPrice
<1> QED
  BY <1>14, <1>16, <1>17, <1>18 DEF TimelinessNext

(* A tick that hands nothing out.                                          *)
LEMMA NothingTimely ==
  ASSUME Basics, Timeliness, clock' \in Nat, clock' >= clock,
         UNCHANGED <<aggVars, emitted, tape>>
  PROVE  TimelinessNext
<1>1. Closed(emitted, pending, lastEmitted, clock', tape)
  BY ClosedStays DEF Closed, Timeliness
<1> QED
  BY <1>1 DEF TimelinessNext, Timeliness, aggVars

(* Every step that stays orderly keeps the invariant.                      *)
LEMMA TimelyStep ==
  ASSUME Basics, [Next]_vars, orderly', orderly => Timeliness
  PROVE  Timeliness'
<1>1. CASE ReceiveTrade
  <2> PICK w \in Windows :
         /\ orderly' = (orderly /\ Timely(w))
         /\ tape' = Append(tape, w)
         /\ AddTrade(Len(tape) + 1, w)
    BY <1>1 DEF ReceiveTrade
  <2>0. orderly /\ Timely(w)
    BY Zenon
  <2>3. tape \in Seq(Nat)
    BY DEF Basics, TypeOK
  <2>1. w \in Nat /\ Len(tape) + 1 \in Nat \ {0} /\ Timely(w) /\ Timeliness
    BY <2>0, <2>3, MaxClockAssumption DEF Windows
  <2>2. emitted' = emitted /\ clock' = clock
    BY <1>1 DEF ReceiveTrade
  <2> QED
    BY <2>1, <2>2, ReceivedTimely, TimelinessPrimed
<1>2. CASE TickSecond
  <2> PICK now \in 1 .. MaxClock : TickAt(now)
    BY <1>2 DEF TickSecond
  <2>1. /\ now \in Nat \ {0} /\ now \in Nat /\ clock' = now /\ now >= clock /\ tape' = tape
        /\ Timeliness /\ clock' \in Nat /\ clock' >= clock
    BY MaxClockAssumption DEF TickAt
  <2> QED
    BY <2>1, PendingTimely, CurrentTimely, FlatTimely, NothingTimely, TimelinessPrimed
       DEF TickAt, Tick, TickNothing
<1>3. CASE FlushAll
  BY <1>3 DEF FlushAll
<1>4. CASE UNCHANGED vars
  BY <1>4 DEF vars, aggVars, Timeliness, InOrder, Rising, Before, AllBefore, Closed, Later, Contents,
       Complete, Newest, LastPrice, NewestOr, FlatPrices
<1> QED
  BY <1>1, <1>2, <1>3, <1>4 DEF Next

(* What the invariant says of the candles handed out.                      *)
LEMMA TimelyTells ==
  ASSUME Basics, orderly => Timeliness
  PROVE  CandleTellsItsSecond
<1>1. CandleComplete
  BY DEF CandleComplete, Timeliness, Contents, Complete, Trades
<1>2. StrictlyLater
  BY DEF StrictlyLater, Timeliness, InOrder, Rising
<1>3. FlatCarriesLastPrice
  <2>1. SUFFICES ASSUME orderly, NEW i \in DOMAIN emitted, emitted[i].ids = {}
                 PROVE  emitted[i].close = LastBefore(emitted[i].time)
    BY DEF FlatCarriesLastPrice
  <2> DEFINE earlier == {t \in DOMAIN tape : tape[t] < emitted[i].time}
  <2>2. NewestOr(emitted[i].close, earlier, {Seed})
    BY <2>1 DEF Timeliness, FlatPrices
  <2>3. earlier \subseteq Nat
    BY DEF Basics, TypeOK
  <2>4. LastBefore(emitted[i].time) =
          IF earlier = {} THEN Seed ELSE CHOOSE t \in earlier : \A u \in earlier : u <= t
    BY DEF LastBefore, Trades
  <2> HIDE DEF earlier
  <2>5. CASE earlier = {}
    BY <2>2, <2>4, <2>5 DEF NewestOr
  <2>6. CASE earlier # {}
    <3>1. Newest(emitted[i].close, earlier)
      BY <2>2, <2>6 DEF NewestOr
    <3> DEFINE last == CHOOSE t \in earlier : \A u \in earlier : u <= t
    <3>2. last \in earlier /\ \A u \in earlier : u <= last
      BY <3>1 DEF Newest
    <3> HIDE DEF last
    <3>3. emitted[i].close <= last /\ last <= emitted[i].close
      BY <3>1, <3>2 DEF Newest
    <3>4. emitted[i].close \in Nat /\ last \in Nat
      BY <2>3, <3>1, <3>2 DEF Newest
    <3>5. emitted[i].close = last
      BY <3>3, <3>4
    <3> QED
      BY <2>4, <2>6, <3>5 DEF last
  <2> QED
    BY <2>5, <2>6
<1> QED
  BY <1>1, <1>2, <1>3 DEF CandleTellsItsSecond

(* With timely delivery a candle handed out holds every trade of its       *)
(* second, candles come in the order of their seconds, and a flat one      *)
(* carries the last price before it: for any number of trades and seconds, *)
(* however late the ticker is.                                             *)
THEOREM CandlesAlwaysTell == Spec => []CandleTellsItsSecond
<1>1. Init => (orderly => Timeliness)
  BY TimelyInit
<1>2. Basics /\ (orderly => Timeliness) /\ [Next]_vars => (orderly => Timeliness)'
  BY TimelyStep
<1>3. TypeOK /\ NoTradeLost /\ WindowPurity => Basics
  BY DEF Basics
<1>4. Basics /\ (orderly => Timeliness) => CandleTellsItsSecond
  BY TimelyTells
<1> QED
  BY <1>1, <1>2, <1>3, <1>4, TypeCorrect, Lossless, Purity, PTL DEF Spec

-----------------------------------------------------------------------------
(* The recovery manager.  Its invariant follows the recovery of a gap from *)
(* the await it is suspended at: which id comes next, how far the batch    *)
(* and the gap reach, and that every message still unread on the WebSocket *)
(* lies beyond both.                                                       *)
Busy == job # NoJob

(* What the task holds at each await.                                      *)
Holdings ==
  /\ pc \in {"down", "snapshot", "listen"} => ~Busy
  /\ pc \in {"fetch", "batch", "finish"} => Busy
  /\ (pc \in {"fetch", "finish"} \/ ~Busy) => batch = NoBatch
  /\ pc = "down" => lastId = cursor
  /\ pc \in {"down", "snapshot"} => ~connected /\ wire = <<>>
  /\ pc = "persist" => lastId > 0 /\ lastId % PersistEvery = 0

(* The ids, from the persisted one, and that which close() is about to     *)
(* persist, to the exchange's latest.                                      *)
Bounds == cursor <= lastId /\ lastId <= latest /\ latest <= MaxId /\ closeId <= lastId

(* A gap is worked off from its lower end without leaving out an id.       *)
GapWorkedOff ==
  Busy =>
    /\ job.to > 0 /\ job.to <= latest
    /\ job.outer # 0 => job.outer = job.to + 1 /\ job.outer <= latest
    /\ pc = "fetch" => job.from = lastId + 1 /\ lastId < job.to
    /\ pc \in {"batch", "persist"} =>
         /\ batch.next = lastId + 1
         /\ batch.next <= batch.last + 1 /\ batch.next <= job.to + 1
    /\ pc = "finish" =>
         /\ job.outer # 0 /\ lastId <= job.to
         /\ lastId + 1 .. job.to \subseteq abandoned
         /\ ~faulty => lastId = job.to

(* Messages not read yet are in the order of their ids and beyond whatever *)
(* was processed or is being recovered.                                    *)
Unread ==
  /\ \A i \in 1 .. Len(wire) :
       wire[i] > lastId /\ wire[i] > job.to /\ wire[i] > job.outer /\ wire[i] <= latest
  /\ \A i, j \in 1 .. Len(wire) : i < j => wire[i] < wire[j]

(* The aggregator was given the trades up to the last one.                 *)
Fed ==
  pc # "down" /\ log # <<>> =>
    /\ log[Len(log)] <= lastId
    /\ pc = "persist" => log[Len(log)] < lastId
    /\ ~faulty /\ pc = "persist" => lastId = log[Len(log)] + 1
    /\ ~faulty /\ pc # "persist" => lastId = log[Len(log)]

IInv ==
  /\ RecoveryTypeOK /\ Holdings /\ Bounds /\ GapWorkedOff /\ Unread /\ Fed
  /\ LossesAreExplained

(* The two updates of a record in place, one field and the others.         *)
LEMMA NextOfBatch ==
  ASSUME NEW b \in [next : Nat \ {0}, last : Nat]
  PROVE  /\ [b EXCEPT !.next = @ + 1] \in [next : Nat \ {0}, last : Nat]
         /\ [b EXCEPT !.next = @ + 1].next = b.next + 1
         /\ [b EXCEPT !.next = @ + 1].last = b.last
<1> DEFINE n == b.next + 1
<1>1. n \in Nat \ {0}
  OBVIOUS
<1>2. [b EXCEPT !.next = @ + 1] = [b EXCEPT !.next = n]
  OBVIOUS
<1> HIDE DEF n
<1>3. [b EXCEPT !.next = n] \in [next : Nat \ {0}, last : Nat] /\ [b EXCEPT !.next = n].next = n /\ [b EXCEPT !.next = n].last = b.last
  BY <1>1
<1>. QED
  BY <1>2, <1>3 DEF n

LEMMA FromOfJob ==
  ASSUME NEW j \in [from : Nat \ {0}, to : Nat, outer : Nat], NEW n \in Nat \ {0}
  PROVE  LET k == [j EXCEPT !.from = n]
         IN  /\ k \in [from : Nat \ {0}, to : Nat, outer : Nat]
             /\ k.from = n /\ k.to = j.to /\ k.outer = j.outer
OBVIOUS


LEMMA NothingInHand ==
  /\ NoJob \in [from : Nat \ {0}, to : Nat, outer : Nat]
  /\ NoBatch \in [next : Nat \ {0}, last : Nat]
  /\ NoJob.to = 0 /\ NoJob.outer = 0 /\ NoBatch.next = 1 /\ NoBatch.last = 0
BY DEF NoJob, NoBatch

(* What accepting a trade does, as two cases.                              *)
LEMMA AcceptEffect ==
  ASSUME NEW id, NEW resume, Accept(id, resume)
  PROVE  /\ lastId' = id
         /\ lastId = 0 => base' = id - 1
         /\ lastId # 0 => base' = base
         /\ id % PersistEvery = 0 => pc' = "persist" /\ log' = log /\ done' = done
         /\ id % PersistEvery # 0 =>
              pc' = resume /\ log' = Append(log, id) /\ done' = done \union {id}
BY DEF Accept, Aggregate

LEMMA GapFound ==
  ASSUME NEW last \in Nat, NEW id \in Nat \ {0}
  PROVE  LET j == [from |-> last + 1, to |-> id - 1, outer |-> id]
         IN  /\ j \in [from : Nat \ {0}, to : Nat, outer : Nat]
             /\ j.from = last + 1 /\ j.to = id - 1 /\ j.outer = id
<1>1. last + 1 \in Nat \ {0} /\ id - 1 \in Nat
  OBVIOUS
<1>. QED
  BY <1>1

LEMMA AcceptTypes ==
  ASSUME RecoveryTypeOK, NEW id \in Nat \ {0}, NEW resume \in Awaits, Accept(id, resume)
  PROVE  /\ lastId' \in Nat /\ base' \in Nat /\ pc' \in Awaits
         /\ log' \in Seq(Nat \ {0}) /\ done' \subseteq Nat \ {0}
<1>1. lastId' \in Nat
  BY AcceptEffect
<1>2. base' \in Nat
  BY SMTT(30), AcceptEffect DEF RecoveryTypeOK
<1>3. pc' \in Awaits
  BY AcceptEffect DEF Awaits
<1>4. log' \in Seq(Nat \ {0})
  <2>1. log \in Seq(Nat \ {0}) /\ Append(log, id) \in Seq(Nat \ {0})
    BY DEF RecoveryTypeOK
  <2>. QED
    BY <2>1, AcceptEffect
<1>5. done' \subseteq Nat \ {0}
  <2>1. done' = done \/ done' = done \union {id}
    BY AcceptEffect
  <2>. QED
    BY <2>1 DEF RecoveryTypeOK
<1>. QED
  BY <1>1, <1>2, <1>3, <1>4, <1>5

LEMMA HandOverEffect ==
  ASSUME RecoveryTypeOK, HandOver
  PROVE  /\ pc = "batch" /\ batch.next <= batch.last /\ batch.next <= job.to
         /\ Accept(batch.next, "batch") /\ lastId' = batch.next
         /\ pc' \in {"persist", "batch"}
         /\ pc' = "persist" => batch.next % PersistEvery = 0
         /\ batch' \in [next : Nat \ {0}, last : Nat]
         /\ batch'.next = batch.next + 1 /\ batch'.last = batch.last
         /\ UNCHANGED <<latest, connected, wire, cursor, job, starts, abandoned, faulty,
                        socket, closing, closeId>>
        /\ UNCHANGED stopping
<1>1. batch \in [next : Nat \ {0}, last : Nat]
  BY DEF RecoveryTypeOK
<1>2. batch' = [batch EXCEPT !.next = @ + 1]
  BY DEF HandOver
<1>3. Accept(batch.next, "batch")
  BY DEF HandOver
<1>. QED
  BY <1>1, <1>2, <1>3, NextOfBatch, AcceptEffect DEF HandOver, market, stopping

LEMMA EndBatchEffect ==
  ASSUME RecoveryTypeOK, EndBatch
  PROVE  /\ pc = "batch" /\ (batch.next > batch.last \/ batch.next > job.to)
         /\ batch' = NoBatch
         /\ \/ /\ batch.last < job.to /\ pc' = "fetch"
               /\ job' \in [from : Nat \ {0}, to : Nat, outer : Nat]
               /\ job'.from = batch.last + 1 /\ job'.to = job.to /\ job'.outer = job.outer
            \/ /\ batch.last >= job.to /\ pc' = "listen"
               /\ Initial /\ job' = NoJob
            \/ /\ batch.last >= job.to /\ pc' = "finish"
               /\ ~Initial /\ job' = job
         /\ UNCHANGED <<latest, connected, wire, lastId, cursor, starts, log, done, base,
                        abandoned, faulty, socket, closing, closeId>>
<1>1. /\ job \in [from : Nat \ {0}, to : Nat, outer : Nat]
      /\ batch.next \in Nat /\ batch.last + 1 \in Nat \ {0} /\ batch.last \in Nat /\ job.to \in Nat
  BY DEF RecoveryTypeOK
<1>2. CASE batch.last < job.to
  <2>1. job' = [job EXCEPT !.from = batch.last + 1] /\ pc' = "fetch"
    BY <1>2 DEF EndBatch
  <2>2. /\ job' \in [from : Nat \ {0}, to : Nat, outer : Nat]
        /\ job'.from = batch.last + 1 /\ job'.to = job.to /\ job'.outer = job.outer
    BY <1>1, <2>1, FromOfJob
  <2>3. batch.next > batch.last
    BY <1>1, <1>2 DEF EndBatch, Least
  <2>. QED
    BY <1>2, <2>1, <2>2, <2>3 DEF EndBatch, market, history, stopping
<1>3. CASE ~(batch.last < job.to)
  <2>1. batch.next > job.to
    <3>1. batch.next > Least(batch.last, job.to)
      BY DEF EndBatch
    <3>. QED
      BY <1>1, <1>3, <3>1 DEF Least
  <2>2. \/ pc' = "listen" /\ Initial /\ job' = NoJob
        \/ pc' = "finish" /\ ~Initial /\ job' = job
    BY <1>3 DEF EndBatch
  <2>. QED
    BY <1>1, <1>3, <2>1, <2>2 DEF EndBatch, market, history, stopping
<1>. QED
  BY <1>2, <1>3

LEMMA GoneTypes ==
  ASSUME RecoveryTypeOK, Crash \/ Stop \/ Interrupt
  PROVE  \E persisted \in {lastId, cursor} : Gone(persisted)
BY DEF Crash, Stop, Interrupt, Cancelled

LEMMA TypeStep ==
  ASSUME RecoveryTypeOK, Holdings, GapWorkedOff, Unread, [RecoveryNext]_recVars
  PROVE  RecoveryTypeOK'
<1> USE BoundsAssumption, PersistEveryAssumption, BatchLimitAssumption
<1> USE DEF RecoveryTypeOK, Holdings, GapWorkedOff, Busy, Awaits, recVars, market, history, stopping, NoJob, NoBatch
<1>1. CASE ExchangeTrade
  <2>1. latest + 1 \in Nat \ {0}
    OBVIOUS
  <2>2. wire' \in Seq(Nat \ {0})
    BY <1>1, <2>1 DEF ExchangeTrade
  <2>. QED
    BY <1>1, <2>1, <2>2 DEF ExchangeTrade
<1>2. CASE Connect
  BY <1>2 DEF Connect
<1>3. CASE Disconnect
  BY <1>3 DEF Disconnect
<1>4. CASE Start
  BY <1>4 DEF Start
<1>5. CASE SnapshotLatest
  BY <1>5 DEF SnapshotLatest
<1>6. CASE SnapshotFails
  BY <1>6 DEF SnapshotFails
<1>7. CASE FetchBatch
  BY <1>7 DEF FetchBatch, Initial, Least
<1>8. CASE FetchFails
  <2>1. abandoned' \subseteq Nat \ {0}
    <3>1. abandoned' = abandoned \/ abandoned' = abandoned \union (job.from .. job.to)
      BY <1>8 DEF FetchFails
    <3>2. job.from .. job.to \subseteq Nat \ {0}
      OBVIOUS
    <3>. QED
      BY <3>1, <3>2
  <2>2. job' \in [from : Nat \ {0}, to : Nat, outer : Nat] /\ pc' \in Awaits
    BY <1>8 DEF FetchFails
  <2>. QED
    BY <1>8, <2>1, <2>2 DEF FetchFails
<1>9. CASE HandOver
  <2>1. batch.next \in Nat \ {0} /\ "batch" \in Awaits
    OBVIOUS
  <2>. QED
    BY <1>9, <2>1, HandOverEffect, AcceptTypes
<1>10. CASE EndBatch
  <2>1. batch' \in [next : Nat \ {0}, last : Nat]
    BY <1>10, EndBatchEffect, NothingInHand
  <2>2. job' \in [from : Nat \ {0}, to : Nat, outer : Nat]
    BY <1>10, EndBatchEffect, NothingInHand
  <2>3. pc' \in Awaits
    BY <1>10, EndBatchEffect
  <2>. QED
    BY <1>10, <2>1, <2>2, <2>3, EndBatchEffect
<1>11. CASE FinishGap
  <2>1. job.outer \in Nat \ {0} /\ "listen" \in Awaits
    BY <1>11 DEF FinishGap
  <2>. QED
    BY <1>11, <2>1, AcceptTypes DEF FinishGap
<1>12. CASE FinishGapFails
  BY <1>12 DEF FinishGapFails
<1>13. CASE PersistTrade
  BY <1>13 DEF PersistTrade, Aggregate, Resume
<1>14. CASE PersistTradeFails
  BY <1>14 DEF PersistTradeFails, Resume
<1>15. CASE Receive
  <2>1. Head(wire) \in Nat \ {0} /\ wire' \in Seq(Nat \ {0})
    BY <1>15 DEF Receive
  <2>2. CASE IsGap(Head(wire))
    <3>1. /\ job' = [from |-> lastId + 1, to |-> Head(wire) - 1, outer |-> Head(wire)]
          /\ pc' = "fetch" /\ lastId' = lastId /\ log' = log /\ done' = done /\ base' = base
      BY <1>15, <2>2 DEF Receive
    <3>2. lastId \in Nat
      OBVIOUS
    <3>3. job' \in [from : Nat \ {0}, to : Nat, outer : Nat]
      BY <2>1, <3>1, <3>2, GapFound
    <3>. QED
      BY <1>15, <2>1, <3>1, <3>3 DEF Receive
  <2>3. CASE ~IsGap(Head(wire))
    <3>1. Accept(Head(wire), "listen") /\ job' = job
      BY <1>15, <2>3 DEF Receive
    <3>. QED
      BY <1>15, <2>1, <3>1, AcceptTypes DEF Receive
  <2>. QED
    BY <2>2, <2>3
<1>16. CASE Crash
  <2>1. PICK persisted \in {lastId, cursor} : Gone(persisted)
    BY <1>16, GoneTypes
  <2>2. <<>> \in Seq(Nat \ {0}) /\ persisted \in Nat
    BY <2>1
  <2>3. job' = NoJob /\ batch' = NoBatch
    BY <2>1 DEF Gone
  <2>4. /\ job' \in [from : Nat \ {0}, to : Nat, outer : Nat]
        /\ batch' \in [next : Nat \ {0}, last : Nat]
    BY <2>3, NothingInHand
  <2>. QED
    BY <2>1, <2>2, <2>4 DEF Gone
<1>17. CASE Stop
  <2>1. PICK persisted \in {lastId, cursor} : Gone(persisted)
    BY <1>17, GoneTypes
  <2>2. <<>> \in Seq(Nat \ {0}) /\ persisted \in Nat
    BY <2>1
  <2>3. job' = NoJob /\ batch' = NoBatch
    BY <2>1 DEF Gone
  <2>4. /\ job' \in [from : Nat \ {0}, to : Nat, outer : Nat]
        /\ batch' \in [next : Nat \ {0}, last : Nat]
    BY <2>3, NothingInHand
  <2>. QED
    BY <2>1, <2>2, <2>4 DEF Gone
<1>18. CASE UNCHANGED recVars
  BY <1>18
<1>19. CASE OpenSocket
  BY <1>19 DEF OpenSocket
<1>20. CASE StopBegins
  <2>1. <<>> \in Seq(Nat \ {0})
    OBVIOUS
  <2>2. \/ UNCHANGED <<socket, connected, wire>>
        \/ socket' = "off" /\ connected' = FALSE /\ wire' = <<>>
    BY <1>20 DEF StopBegins
  <2>3. wire' \in Seq(Nat \ {0}) /\ connected' \in BOOLEAN
    BY <2>1, <2>2
  <2>4. socket' \in {"none", "on", "off"}
    BY <2>2
  <2>. QED
    BY <1>20, <2>3, <2>4 DEF StopBegins
<1>21. CASE CloseReads
  BY <1>21 DEF CloseReads
<1>22. CASE CloseWrites
  BY <1>22 DEF CloseWrites
<1>23. CASE CloseFails
  BY <1>23 DEF CloseFails
<1>24. CASE Interrupt
  <2>1. PICK persisted \in {lastId, cursor} : Gone(persisted)
    BY <1>24, GoneTypes
  <2>2. <<>> \in Seq(Nat \ {0}) /\ persisted \in Nat
    BY <2>1
  <2>3. job' = NoJob /\ batch' = NoBatch
    BY <2>1 DEF Gone
  <2>4. /\ job' \in [from : Nat \ {0}, to : Nat, outer : Nat]
        /\ batch' \in [next : Nat \ {0}, last : Nat]
    BY <2>3, NothingInHand
  <2>. QED
    BY <2>1, <2>2, <2>4 DEF Gone
<1>. QED
  BY <1>1, <1>2, <1>3, <1>4, <1>5, <1>6, <1>7, <1>8, <1>9, <1>10, <1>11, <1>12, <1>13, <1>14, <1>15, <1>16, <1>17, <1>18, <1>19, <1>20, <1>21,
     <1>22, <1>23, <1>24 DEF RecoveryNext, Recover

LEMMA HoldingsStep ==
  ASSUME IInv, [RecoveryNext]_recVars
  PROVE  Holdings'
<1> USE BoundsAssumption, PersistEveryAssumption, BatchLimitAssumption
<1> USE DEF IInv, RecoveryTypeOK, Holdings, Bounds, GapWorkedOff, Busy, recVars, market, history, stopping, NoJob, NoBatch
<1>1. CASE ExchangeTrade
  BY <1>1 DEF ExchangeTrade
<1>2. CASE Connect
  BY <1>2 DEF Connect
<1>3. CASE Disconnect
  BY <1>3 DEF Disconnect
<1>4. CASE Start
  BY <1>4 DEF Start
<1>5. CASE SnapshotLatest
  BY <1>5 DEF SnapshotLatest
<1>6. CASE SnapshotFails
  BY <1>6 DEF SnapshotFails
<1>7. CASE FetchBatch
  BY <1>7 DEF FetchBatch, Initial, Least
<1>8. CASE FetchFails
  BY <1>8 DEF FetchFails, Initial
<1>9. CASE HandOver
  BY SMTT(30), <1>9, HandOverEffect
<1>10. CASE EndBatch
  <2>. /\ batch' = NoBatch /\ pc' \in {"fetch", "listen", "finish"}
       /\ pc' = "listen" => ~Busy'
       /\ pc' \in {"fetch", "finish"} => job'.to = job.to
    BY <1>10, EndBatchEffect
  <2>1. job.to > 0 /\ NoJob.to = 0
    BY <1>10, EndBatchEffect
  <2>. QED
    BY <2>1
<1>11. CASE FinishGap
  BY <1>11 DEF FinishGap, Accept, Aggregate
<1>12. CASE FinishGapFails
  BY <1>12 DEF FinishGapFails
<1>13. CASE PersistTrade
  BY <1>13 DEF PersistTrade, Aggregate, Resume
<1>14. CASE PersistTradeFails
  BY <1>14 DEF PersistTradeFails, Resume
<1>15. CASE Receive
  BY SMTT(30), <1>15 DEF Receive, Accept, Aggregate, IsGap
<1>16. CASE Crash
  BY <1>16 DEF Crash, Gone
<1>17. CASE Stop
  <2>1. PICK persisted \in {lastId, cursor} : Gone(persisted)
    BY <1>17, GoneTypes
  <2>. QED
    BY SMTT(30), <2>1 DEF Gone
<1>18. CASE UNCHANGED recVars
  BY <1>18
<1>19. CASE OpenSocket
  BY <1>19 DEF OpenSocket
<1>20. CASE StopBegins
  BY <1>20 DEF StopBegins
<1>21. CASE CloseReads
  BY <1>21 DEF CloseReads
<1>22. CASE CloseWrites
  BY <1>22 DEF CloseWrites
<1>23. CASE CloseFails
  BY <1>23 DEF CloseFails
<1>24. CASE Interrupt
  <2>1. PICK persisted \in {lastId, cursor} : Gone(persisted)
    BY <1>24, GoneTypes
  <2>. QED
    BY SMTT(30), <2>1 DEF Gone
<1>. QED
  BY <1>1, <1>2, <1>3, <1>4, <1>5, <1>6, <1>7, <1>8, <1>9, <1>10, <1>11, <1>12, <1>13, <1>14, <1>15, <1>16, <1>17, <1>18, <1>19, <1>20, <1>21,
     <1>22, <1>23, <1>24 DEF RecoveryNext, Recover

LEMMA BoundsStep ==
  ASSUME IInv, [RecoveryNext]_recVars
  PROVE  Bounds'
<1> USE BoundsAssumption, PersistEveryAssumption, BatchLimitAssumption
<1> USE DEF IInv, RecoveryTypeOK, Holdings, Bounds, GapWorkedOff, Unread, Busy, recVars, market, history, stopping, NoJob, NoBatch
<1>1. CASE ExchangeTrade
  BY <1>1 DEF ExchangeTrade
<1>2. CASE Connect
  BY <1>2 DEF Connect
<1>3. CASE Disconnect
  BY <1>3 DEF Disconnect
<1>4. CASE Start
  BY <1>4 DEF Start
<1>5. CASE SnapshotLatest
  BY <1>5 DEF SnapshotLatest
<1>6. CASE SnapshotFails
  BY <1>6 DEF SnapshotFails
<1>7. CASE FetchBatch
  BY <1>7 DEF FetchBatch, Initial, Least
<1>8. CASE FetchFails
  BY <1>8 DEF FetchFails, Initial
<1>9. CASE HandOver
  BY SMTT(30), <1>9, HandOverEffect
<1>10. CASE EndBatch
  BY <1>10, EndBatchEffect
<1>11. CASE FinishGap
  BY <1>11 DEF FinishGap, Accept, Aggregate
<1>12. CASE FinishGapFails
  BY <1>12 DEF FinishGapFails
<1>13. CASE PersistTrade
  BY <1>13 DEF PersistTrade, Aggregate, Resume
<1>14. CASE PersistTradeFails
  BY <1>14 DEF PersistTradeFails, Resume
<1>15. CASE Receive
  BY SMTT(30), <1>15 DEF Receive, Accept, Aggregate, IsGap
<1>16. CASE Crash
  BY <1>16 DEF Crash, Gone
<1>17. CASE Stop
  <2>1. PICK persisted \in {lastId, cursor} : Gone(persisted)
    BY <1>17, GoneTypes
  <2>. QED
    BY <2>1 DEF Gone
<1>18. CASE UNCHANGED recVars
  BY <1>18
<1>19. CASE OpenSocket
  BY <1>19 DEF OpenSocket
<1>20. CASE StopBegins
  BY <1>20 DEF StopBegins
<1>21. CASE CloseReads
  BY <1>21 DEF CloseReads
<1>22. CASE CloseWrites
  BY <1>22 DEF CloseWrites
<1>23. CASE CloseFails
  BY <1>23 DEF CloseFails
<1>24. CASE Interrupt
  <2>1. PICK persisted \in {lastId, cursor} : Gone(persisted)
    BY <1>24, GoneTypes
  <2>. QED
    BY <2>1 DEF Gone
<1>. QED
  BY <1>1, <1>2, <1>3, <1>4, <1>5, <1>6, <1>7, <1>8, <1>9, <1>10, <1>11, <1>12, <1>13, <1>14, <1>15, <1>16, <1>17, <1>18, <1>19, <1>20, <1>21,
     <1>22, <1>23, <1>24 DEF RecoveryNext, Recover

LEMMA GapStep ==
  ASSUME IInv, [RecoveryNext]_recVars
  PROVE  GapWorkedOff'
<1> USE BoundsAssumption, PersistEveryAssumption, BatchLimitAssumption
<1> USE DEF IInv, RecoveryTypeOK, Holdings, Bounds, GapWorkedOff, Unread, Busy, recVars, market, history, stopping, NoJob, NoBatch
<1>1. CASE ExchangeTrade
  BY <1>1 DEF ExchangeTrade
<1>2. CASE Connect
  BY <1>2 DEF Connect
<1>3. CASE Disconnect
  BY <1>3 DEF Disconnect
<1>4. CASE Start
  BY <1>4 DEF Start
<1>5. CASE SnapshotLatest
  BY <1>5 DEF SnapshotLatest
<1>6. CASE SnapshotFails
  BY <1>6 DEF SnapshotFails
<1>7. CASE FetchBatch
  BY <1>7 DEF FetchBatch, Initial, Least
<1>8. CASE FetchFails
  BY <1>8 DEF FetchFails, Initial
<1>9. CASE HandOver
  <2>1. /\ job' = job /\ latest' = latest /\ pc' \in {"persist", "batch"}
        /\ lastId' = batch.next /\ batch'.next = batch.next + 1 /\ batch'.last = batch.last
        /\ batch.next <= batch.last /\ batch.next <= job.to
    BY <1>9, HandOverEffect
  <2>2. batch.next \in Nat /\ batch.last \in Nat /\ job.to \in Nat
    OBVIOUS
  <2>. QED
    BY <1>9, <2>1, <2>2
<1>10. CASE EndBatch
  <2>. USE EndBatchEffect
  <2>1. CASE pc' = "fetch"
    <3>1. /\ batch.last < job.to /\ job'.from = batch.last + 1 /\ job'.to = job.to
          /\ job'.outer = job.outer /\ lastId' = lastId /\ latest' = latest
      BY <1>10, <2>1
    <3>2. batch.next = lastId + 1 /\ batch.next = batch.last + 1
      BY SMTT(30), <1>10, <3>1
    <3>. QED
      BY <1>10, <2>1, <3>1, <3>2
  <2>2. CASE pc' = "listen"
    BY <1>10, <2>2
  <2>3. CASE pc' = "finish"
    <3>1. job' = job /\ ~Initial /\ batch.last >= job.to /\ lastId' = lastId /\ latest' = latest
      BY <1>10, <2>3
    <3>2. batch.next = job.to + 1 /\ lastId = job.to
      BY SMTT(30), <1>10, <3>1
    <3>. QED
      BY <1>10, <2>3, <3>1, <3>2 DEF Initial
  <2>. QED
    BY <1>10, <2>1, <2>2, <2>3
<1>11. CASE FinishGap
  BY <1>11 DEF FinishGap, Accept, Aggregate
<1>12. CASE FinishGapFails
  BY <1>12 DEF FinishGapFails
<1>13. CASE PersistTrade
  BY <1>13 DEF PersistTrade, Aggregate, Resume
<1>14. CASE PersistTradeFails
  BY <1>14 DEF PersistTradeFails, Resume
<1>15. CASE Receive
  <2>. DEFINE id == Head(wire)
  <2>1. id = wire[1] /\ id \in Nat \ {0} /\ id > lastId /\ id <= latest
    BY <1>15 DEF Receive
  <2>2. CASE IsGap(id)
    <3>1. job' = [from |-> lastId + 1, to |-> id - 1, outer |-> id] /\ pc' = "fetch" /\ lastId' = lastId
      BY <1>15, <2>2 DEF Receive
    <3>2. job'.from = lastId + 1 /\ job'.to = id - 1 /\ job'.outer = id
      BY <3>1
    <3>. QED
      BY SMTT(30), <1>15, <2>1, <2>2, <3>1, <3>2 DEF Receive, IsGap
  <2>3. CASE ~IsGap(id)
    BY <1>15, <2>3 DEF Receive
  <2>. QED
    BY <2>2, <2>3
<1>16. CASE Crash
  BY <1>16 DEF Crash, Gone
<1>17. CASE Stop
  <2>1. PICK persisted \in {lastId, cursor} : Gone(persisted)
    BY <1>17, GoneTypes
  <2>. QED
    BY SMTT(30), <2>1 DEF Gone
<1>18. CASE UNCHANGED recVars
  BY <1>18
<1>19. CASE OpenSocket
  BY <1>19 DEF OpenSocket
<1>20. CASE StopBegins
  BY <1>20 DEF StopBegins
<1>21. CASE CloseReads
  BY <1>21 DEF CloseReads
<1>22. CASE CloseWrites
  BY <1>22 DEF CloseWrites
<1>23. CASE CloseFails
  BY <1>23 DEF CloseFails
<1>24. CASE Interrupt
  <2>1. PICK persisted \in {lastId, cursor} : Gone(persisted)
    BY <1>24, GoneTypes
  <2>. QED
    BY SMTT(30), <2>1 DEF Gone
<1>. QED
  BY <1>1, <1>2, <1>3, <1>4, <1>5, <1>6, <1>7, <1>8, <1>9, <1>10, <1>11, <1>12, <1>13, <1>14, <1>15, <1>16, <1>17, <1>18, <1>19, <1>20, <1>21,
     <1>22, <1>23, <1>24 DEF RecoveryNext, Recover

LEMMA UnreadStep ==
  ASSUME IInv, [RecoveryNext]_recVars
  PROVE  Unread'
<1> USE BoundsAssumption, PersistEveryAssumption, BatchLimitAssumption
<1> USE DEF IInv, RecoveryTypeOK, Holdings, Bounds, GapWorkedOff, Unread, Busy, recVars, market, history, stopping, NoJob, NoBatch
<1>1. CASE ExchangeTrade
  <2>1. CASE connected
    <3>1. wire' = Append(wire, latest + 1) /\ latest' = latest + 1 /\ lastId' = lastId /\ job' = job
      BY <1>1, <2>1 DEF ExchangeTrade
    <3>2. \A i \in 1 .. Len(wire) : wire[i] \in Nat
      OBVIOUS
    <3>3. /\ Len(wire') = Len(wire) + 1 /\ wire'[Len(wire) + 1] = latest + 1
          /\ \A i \in 1 .. Len(wire) : wire'[i] = wire[i]
      BY <3>1
    <3>4. job.to <= latest /\ job.outer <= latest
      OBVIOUS
    <3>5. Len(wire) \in Nat /\ \A i \in 1 .. Len(wire') : i \in 1 .. Len(wire) \/ i = Len(wire) + 1
      BY SMTT(30), <3>3
    <3>6. \A i \in 1 .. Len(wire') :
            wire'[i] > lastId /\ wire'[i] > job.to /\ wire'[i] > job.outer /\ wire'[i] <= latest + 1
      <4> SUFFICES ASSUME NEW i \in 1 .. Len(wire')
                   PROVE  wire'[i] > lastId /\ wire'[i] > job.to /\ wire'[i] > job.outer
                          /\ wire'[i] <= latest + 1
        OBVIOUS
      <4>1. CASE i \in 1 .. Len(wire)
        <5>1. wire[i] \in Nat /\ wire[i] <= latest /\ wire'[i] = wire[i]
          BY <3>2, <3>3, <4>1
        <5>. QED
          BY SMTT(30), <4>1, <5>1
      <4>2. CASE i = Len(wire) + 1
        BY SMTT(30), <3>3, <3>4, <4>2
      <4>. QED
        BY <3>5, <4>1, <4>2
    <3>7. \A i, j \in 1 .. Len(wire') : i < j => wire'[i] < wire'[j]
      <4> SUFFICES ASSUME NEW i \in 1 .. Len(wire'), NEW j \in 1 .. Len(wire'), i < j
                   PROVE  wire'[i] < wire'[j]
        OBVIOUS
      <4>1. i \in 1 .. Len(wire) /\ wire[i] \in Nat /\ wire'[i] = wire[i] /\ wire[i] <= latest
        BY SMTT(30), <3>2, <3>3, <3>5
      <4>2. CASE j \in 1 .. Len(wire)
        <5>1. wire'[j] = wire[j] /\ wire[i] < wire[j]
          BY <3>3, <4>1, <4>2
        <5>. QED
          BY <4>1, <5>1
      <4>3. CASE j = Len(wire) + 1
        BY SMTT(30), <3>3, <4>1, <4>3
      <4>. QED
        BY <3>5, <4>2, <4>3
    <3>. QED
      BY <3>1, <3>6, <3>7
  <2>2. CASE ~connected
    <3>1. wire' = wire /\ latest' = latest + 1 /\ lastId' = lastId /\ job' = job
      BY <1>1, <2>2 DEF ExchangeTrade
    <3>2. \A i \in 1 .. Len(wire) : wire[i] \in Nat
      OBVIOUS
    <3>. QED
      BY <3>1, <3>2
  <2>. QED
    BY <2>1, <2>2
<1>2. CASE Connect
  BY <1>2 DEF Connect
<1>3. CASE Disconnect
  BY <1>3 DEF Disconnect
<1>4. CASE Start
  BY <1>4 DEF Start
<1>5. CASE SnapshotLatest
  BY <1>5 DEF SnapshotLatest
<1>6. CASE SnapshotFails
  BY <1>6 DEF SnapshotFails
<1>7. CASE FetchBatch
  BY <1>7 DEF FetchBatch, Initial, Least
<1>8. CASE FetchFails
  BY <1>8 DEF FetchFails, Initial
<1>9. CASE HandOver
  <2>1. lastId' <= job.to /\ lastId' \in Nat /\ job' = job /\ wire' = wire /\ latest' = latest
    BY <1>9, HandOverEffect, AcceptEffect
  <2>2. \A i \in 1 .. Len(wire) : wire[i] \in Nat
    OBVIOUS
  <2>. QED
    BY SMTT(30), <2>1, <2>2
<1>10. CASE EndBatch
  <2>1. \/ job'.to = job.to /\ job'.outer = job.outer
        \/ job'.to = 0 /\ job'.outer = 0
    BY <1>10, EndBatchEffect
  <2>2. \A i \in 1 .. Len(wire) : wire[i] \in Nat \ {0}
    OBVIOUS
  <2>3. lastId' = lastId /\ wire' = wire /\ latest' = latest
    BY <1>10, EndBatchEffect
  <2>. QED
    BY SMTT(30), <2>1, <2>2, <2>3
<1>11. CASE FinishGap
  BY SMTT(30), <1>11 DEF FinishGap, Accept, Aggregate
<1>12. CASE FinishGapFails
  BY <1>12 DEF FinishGapFails
<1>13. CASE PersistTrade
  BY <1>13 DEF PersistTrade, Aggregate, Resume
<1>14. CASE PersistTradeFails
  BY <1>14 DEF PersistTradeFails, Resume
<1>15. CASE Receive
  <2>. DEFINE id == Head(wire)
  <2>1. id = wire[1] /\ id \in Nat \ {0} /\ id > lastId /\ id <= latest /\ wire # <<>>
    BY <1>15 DEF Receive
  <2>2. /\ wire' \in Seq(Nat \ {0}) /\ Len(wire') = Len(wire) - 1
        /\ \A i \in 1 .. Len(wire') : wire'[i] = wire[i + 1] /\ wire'[i] \in Nat \ {0}
    BY <1>15, <2>1 DEF Receive
  <2>3. \A i \in 1 .. Len(wire') : wire'[i] > id /\ wire'[i] <= latest
    <3> SUFFICES ASSUME NEW i \in 1 .. Len(wire') PROVE wire'[i] > id /\ wire'[i] <= latest
      OBVIOUS
    <3>1. 1 \in 1 .. Len(wire) /\ i + 1 \in 1 .. Len(wire) /\ 1 < i + 1
      BY <2>1, <2>2
    <3>2. wire[1] < wire[i + 1] /\ wire[i + 1] <= latest
      BY <3>1 DEF Unread
    <3>. QED
      BY <2>1, <2>2, <3>2
  <2>4. \A i, j \in 1 .. Len(wire') : i < j => wire'[i] < wire'[j]
    <3> SUFFICES ASSUME NEW i \in 1 .. Len(wire'), NEW j \in 1 .. Len(wire'), i < j
                 PROVE  wire'[i] < wire'[j]
      OBVIOUS
    <3>1. i + 1 \in 1 .. Len(wire) /\ j + 1 \in 1 .. Len(wire) /\ i + 1 < j + 1
      BY <2>2
    <3>2. wire[i + 1] < wire[j + 1]
      BY <3>1 DEF Unread
    <3>. QED
      BY <2>2, <3>2
  <2>5. lastId' <= id /\ job'.to <= id /\ job'.outer <= id
    <3>1. CASE IsGap(id)
      <4>1. job' = [from |-> lastId + 1, to |-> id - 1, outer |-> id] /\ lastId' = lastId
        BY <1>15, <3>1 DEF Receive
      <4>. QED
        BY SMTT(30), <2>1, <4>1
    <3>2. CASE ~IsGap(id)
      BY <1>15, <2>1, <3>2 DEF Receive, Accept
    <3>. QED
      BY <3>1, <3>2
  <2>6. lastId' \in Nat /\ job'.to \in Nat /\ job'.outer \in Nat
    BY TypeStep
  <2>7. latest' = latest
    BY <1>15 DEF Receive
  <2>8. \A i \in 1 .. Len(wire') :
          wire'[i] > lastId' /\ wire'[i] > job'.to /\ wire'[i] > job'.outer /\ wire'[i] <= latest'
    <3> SUFFICES ASSUME NEW i \in 1 .. Len(wire')
                 PROVE  wire'[i] > lastId' /\ wire'[i] > job'.to /\ wire'[i] > job'.outer
                        /\ wire'[i] <= latest'
      OBVIOUS
    <3>1. wire'[i] \in Nat /\ wire'[i] > id /\ wire'[i] <= latest'
      BY <2>2, <2>3, <2>7
    <3>2. id \in Nat
      BY <2>1
    <3>. HIDE DEF id
    <3>. QED
      BY SMTT(30), <2>5, <2>6, <3>1, <3>2
  <2>. QED
    BY <2>4, <2>8
<1>16. CASE Crash
  BY <1>16 DEF Crash, Gone
<1>17. CASE Stop
  <2>1. PICK persisted \in {lastId, cursor} : Gone(persisted)
    BY <1>17, GoneTypes
  <2>. QED
    BY SMTT(30), <2>1 DEF Gone
<1>18. CASE UNCHANGED recVars
  BY <1>18
<1>19. CASE OpenSocket
  BY <1>19 DEF OpenSocket
<1>20. CASE StopBegins
  <2>1. lastId' = lastId /\ job' = job /\ latest' = latest /\ (wire' = wire \/ wire' = <<>>)
    BY <1>20 DEF StopBegins
  <2>2. CASE wire' = wire
    BY <2>1, <2>2
  <2>3. CASE wire' = <<>>
    BY <2>3
  <2>. QED
    BY <2>1, <2>2, <2>3
<1>21. CASE CloseReads
  BY <1>21 DEF CloseReads
<1>22. CASE CloseWrites
  BY <1>22 DEF CloseWrites
<1>23. CASE CloseFails
  BY <1>23 DEF CloseFails
<1>24. CASE Interrupt
  <2>1. PICK persisted \in {lastId, cursor} : Gone(persisted)
    BY <1>24, GoneTypes
  <2>. QED
    BY SMTT(30), <2>1 DEF Gone
<1>. QED
  BY <1>1, <1>2, <1>3, <1>4, <1>5, <1>6, <1>7, <1>8, <1>9, <1>10, <1>11, <1>12, <1>13, <1>14, <1>15, <1>16, <1>17, <1>18, <1>19, <1>20, <1>21,
     <1>22, <1>23, <1>24 DEF RecoveryNext, Recover

LEMMA FedStep ==
  ASSUME IInv, [RecoveryNext]_recVars
  PROVE  Fed'
<1> USE BoundsAssumption, PersistEveryAssumption, BatchLimitAssumption
<1> USE DEF IInv, RecoveryTypeOK, Holdings, Bounds, GapWorkedOff, Unread, Fed, Busy, recVars, market, history, stopping, NoJob, NoBatch
<1>1. CASE ExchangeTrade
  BY <1>1 DEF ExchangeTrade
<1>2. CASE Connect
  BY <1>2 DEF Connect
<1>3. CASE Disconnect
  BY <1>3 DEF Disconnect
<1>4. CASE Start
  BY <1>4 DEF Start
<1>5. CASE SnapshotLatest
  BY <1>5 DEF SnapshotLatest
<1>6. CASE SnapshotFails
  BY <1>6 DEF SnapshotFails
<1>7. CASE FetchBatch
  BY <1>7 DEF FetchBatch, Initial, Least
<1>8. CASE FetchFails
  BY <1>8 DEF FetchFails, Initial
<1>9. CASE HandOver
  <2>1. lastId' = lastId + 1 /\ faulty' = faulty /\ pc = "batch"
    BY <1>9, HandOverEffect, AcceptEffect
  <2>2. CASE batch.next % PersistEvery = 0
    <3>1. pc' = "persist" /\ log' = log
      BY <1>9, <2>2, HandOverEffect, AcceptEffect
    <3>. QED
      BY SMTT(30), <2>1, <3>1
  <2>3. CASE batch.next % PersistEvery # 0
    <3>1. pc' = "batch" /\ log' = Append(log, lastId + 1)
      BY <1>9, <2>3, HandOverEffect, AcceptEffect
    <3>. QED
      BY SMTT(30), <2>1, <3>1
  <2>. QED
    BY <2>2, <2>3
<1>10. CASE EndBatch
  BY <1>10 DEF EndBatch, Initial, Least
<1>11. CASE FinishGap
  BY SMTT(30), <1>11 DEF FinishGap, Accept, Aggregate
<1>12. CASE FinishGapFails
  BY <1>12 DEF FinishGapFails
<1>13. CASE PersistTrade
  BY <1>13 DEF PersistTrade, Aggregate, Resume
<1>14. CASE PersistTradeFails
  BY <1>14 DEF PersistTradeFails, Resume
<1>15. CASE Receive
  <2>. DEFINE id == Head(wire)
  <2>1. id = wire[1] /\ id \in Nat \ {0} /\ id > lastId /\ wire # <<>>
    BY <1>15 DEF Receive
  <2>2. CASE IsGap(id)
    BY <1>15, <2>2 DEF Receive
  <2>3. CASE ~IsGap(id)
    <3>1. Accept(id, "listen") /\ faulty' = faulty /\ (lastId = 0 \/ id = lastId + 1) /\ pc = "listen"
      BY <1>15, <2>1, <2>3 DEF Receive, IsGap
    <3>2. log # <<>> => lastId > 0
      BY <1>15 DEF Receive
    <3>3. CASE id % PersistEvery = 0
      BY <2>1, <3>1, <3>2, <3>3 DEF Accept
    <3>4. CASE id % PersistEvery # 0
      <4>1. log' = Append(log, id) /\ lastId' = id /\ pc' = "listen"
        BY <3>1, <3>4 DEF Accept, Aggregate
      <4>. QED
        BY SMTT(30), <2>1, <4>1
    <3>. QED
      BY <3>3, <3>4
  <2>. QED
    BY <2>2, <2>3
<1>16. CASE Crash
  BY <1>16 DEF Crash, Gone
<1>17. CASE Stop
  <2>1. PICK persisted \in {lastId, cursor} : Gone(persisted)
    BY <1>17, GoneTypes
  <2>. QED
    BY SMTT(30), <2>1 DEF Gone
<1>18. CASE UNCHANGED recVars
  BY <1>18
<1>19. CASE OpenSocket
  BY <1>19 DEF OpenSocket
<1>20. CASE StopBegins
  BY <1>20 DEF StopBegins
<1>21. CASE CloseReads
  BY <1>21 DEF CloseReads
<1>22. CASE CloseWrites
  BY <1>22 DEF CloseWrites
<1>23. CASE CloseFails
  BY <1>23 DEF CloseFails
<1>24. CASE Interrupt
  <2>1. PICK persisted \in {lastId, cursor} : Gone(persisted)
    BY <1>24, GoneTypes
  <2>. QED
    BY SMTT(30), <2>1 DEF Gone
<1>. QED
  BY <1>1, <1>2, <1>3, <1>4, <1>5, <1>6, <1>7, <1>8, <1>9, <1>10, <1>11, <1>12, <1>13, <1>14, <1>15, <1>16, <1>17, <1>18, <1>19, <1>20, <1>21,
     <1>22, <1>23, <1>24 DEF RecoveryNext, Recover

(* When a trade is accepted, the ids it skips are the only new ones that   *)
(* may be missing.                                                         *)
LEMMA AcceptLoses ==
  ASSUME RecoveryTypeOK, NEW id \in Nat \ {0}, NEW resume \in Awaits \ {"persist"},
         pc # "persist", id > lastId, Accept(id, resume)
  PROVE  \A lost \in Missing' : lost \in Missing \/ (lastId > 0 /\ lost \in lastId + 1 .. id - 1)
<1> SUFFICES ASSUME NEW lost \in Missing' PROVE lost \in Missing \/ (lastId > 0 /\ lost \in lastId + 1 .. id - 1)
  OBVIOUS
<1>1. lastId' = id /\ base' = (IF lastId = 0 THEN id - 1 ELSE base)
  BY DEF Accept
<1>2. lost \in base' + 1 .. id /\ lost \notin done' /\ ~InHand(lost)'
  BY <1>1 DEF Missing
<1>3. lost # id
  BY <1>1, <1>2 DEF Accept, Aggregate, InHand
<1>4. lost \notin done /\ ~InHand(lost)
  BY <1>2 DEF Accept, Aggregate, InHand
<1>5. lastId > 0 /\ lost \in base + 1 .. id - 1
  BY <1>1, <1>2, <1>3 DEF RecoveryTypeOK
<1>. QED
  BY <1>4, <1>5 DEF Missing, RecoveryTypeOK

LEMMA LossStep ==
  ASSUME IInv, [RecoveryNext]_recVars
  PROVE  LossesAreExplained'
<1> USE BoundsAssumption, PersistEveryAssumption, BatchLimitAssumption
<1> USE DEF IInv, RecoveryTypeOK, Holdings, Bounds, GapWorkedOff, Unread, Busy, LossesAreExplained, NothingMissing, LossOnlyAtCheckpoint, Missing, InHand, recVars, market, history, stopping, NoJob, NoBatch
<1>1. CASE ExchangeTrade
  BY <1>1 DEF ExchangeTrade
<1>2. CASE Connect
  BY <1>2 DEF Connect
<1>3. CASE Disconnect
  BY <1>3 DEF Disconnect
<1>4. CASE Start
  BY <1>4 DEF Start
<1>5. CASE SnapshotLatest
  BY <1>5 DEF SnapshotLatest
<1>6. CASE SnapshotFails
  BY <1>6 DEF SnapshotFails
<1>7. CASE FetchBatch
  BY <1>7 DEF FetchBatch, Initial, Least
<1>8. CASE FetchFails
  BY <1>8 DEF FetchFails, Initial
<1>9. CASE HandOver
  <2>1. Accept(batch.next, "batch") /\ batch.next = lastId + 1 /\ pc # "persist"
    BY <1>9, HandOverEffect
  <2>2. Missing' \subseteq Missing
    BY SMTT(30), <2>1, AcceptLoses DEF Awaits
  <2>. QED
    BY <1>9, <2>2, HandOverEffect
<1>10. CASE EndBatch
  BY <1>10, EndBatchEffect
<1>11. CASE FinishGap
  <2>1. Accept(job.outer, "listen") /\ job.outer = job.to + 1 /\ job.outer > lastId /\ pc # "persist"
    BY <1>11 DEF FinishGap
  <2>2. \A lost \in Missing' : lost \in Missing \/ lost \in lastId + 1 .. job.to
    BY <2>1, AcceptLoses DEF Awaits
  <2>3. lastId + 1 .. job.to \subseteq abandoned /\ (~faulty => lastId = job.to)
    BY <1>11 DEF FinishGap
  <2>4. abandoned' = abandoned /\ faulty' = faulty
    BY <1>11 DEF FinishGap
  <2>5. NothingMissing'
    <3> SUFFICES ASSUME ~faulty, NEW lost \in Missing' PROVE FALSE
      BY <2>4 DEF NothingMissing
    <3>1. Missing = {} /\ lastId = job.to
      BY <2>3 DEF NothingMissing
    <3>2. lost \in lastId + 1 .. job.to
      BY <2>2, <3>1
    <3>. QED
      BY <3>1, <3>2
  <2>6. LossOnlyAtCheckpoint'
    BY <2>2, <2>3, <2>4 DEF LossOnlyAtCheckpoint
  <2>. QED
    BY <2>5, <2>6 DEF LossesAreExplained
<1>12. CASE FinishGapFails
  BY <1>12 DEF FinishGapFails
<1>13. CASE PersistTrade
  BY <1>13 DEF PersistTrade, Aggregate, Resume
<1>14. CASE PersistTradeFails
  BY <1>14 DEF PersistTradeFails, Resume
<1>15. CASE Receive
  <2>. DEFINE id == Head(wire)
  <2>1. id = wire[1] /\ id \in Nat \ {0} /\ id > lastId /\ wire # <<>>
    BY <1>15 DEF Receive
  <2>2. CASE IsGap(id)
    <3>1. Missing' = Missing
      BY <1>15, <2>2 DEF Receive
    <3>. QED
      BY <1>15, <3>1 DEF Receive
  <2>3. CASE ~IsGap(id)
    <3>1. Accept(id, "listen") /\ (lastId = 0 \/ id = lastId + 1) /\ pc = "listen"
      BY <1>15, <2>1, <2>3 DEF Receive, IsGap
    <3>2. Missing' \subseteq Missing
      BY <2>1, <3>1, AcceptLoses DEF Awaits
    <3>. QED
      BY <1>15, <3>2 DEF Receive
  <2>. QED
    BY <2>2, <2>3
<1>16. CASE Crash
  BY <1>16 DEF Crash, Gone
<1>17. CASE Stop
  <2>1. PICK persisted \in {lastId, cursor} : Gone(persisted)
    BY <1>17, GoneTypes
  <2>. QED
    BY SMTT(30), <2>1 DEF Gone
<1>18. CASE UNCHANGED recVars
  BY <1>18
<1>19. CASE OpenSocket
  BY <1>19 DEF OpenSocket
<1>20. CASE StopBegins
  BY <1>20 DEF StopBegins
<1>21. CASE CloseReads
  BY <1>21 DEF CloseReads
<1>22. CASE CloseWrites
  BY <1>22 DEF CloseWrites
<1>23. CASE CloseFails
  BY <1>23 DEF CloseFails
<1>24. CASE Interrupt
  <2>1. PICK persisted \in {lastId, cursor} : Gone(persisted)
    BY <1>24, GoneTypes
  <2>. QED
    BY SMTT(30), <2>1 DEF Gone
<1>. QED
  BY <1>1, <1>2, <1>3, <1>4, <1>5, <1>6, <1>7, <1>8, <1>9, <1>10, <1>11, <1>12, <1>13, <1>14, <1>15, <1>16, <1>17, <1>18, <1>19, <1>20, <1>21,
     <1>22, <1>23, <1>24 DEF RecoveryNext, Recover

LEMMA Inductive == IInv /\ [RecoveryNext]_recVars => IInv'
<1> SUFFICES ASSUME IInv, [RecoveryNext]_recVars PROVE IInv'
  OBVIOUS
<1>1. RecoveryTypeOK' /\ Holdings' /\ Bounds'
  BY TypeStep, HoldingsStep, BoundsStep DEF IInv
<1>2. GapWorkedOff' /\ Unread' /\ Fed'
  BY GapStep, UnreadStep, FedStep
<1>3. LossesAreExplained'
  BY LossStep
<1>. QED
  BY <1>1, <1>2, <1>3 DEF IInv

LEMMA Initially == RecoveryInit => IInv
<1> SUFFICES ASSUME RecoveryInit PROVE IInv
  OBVIOUS
<1> USE BoundsAssumption DEF RecoveryInit
<1>1. cursor \in Nat /\ latest \in Nat /\ latest >= cursor /\ latest <= MaxId
  OBVIOUS
<1>2. RecoveryTypeOK
  <2>1. <<>> \in Seq(Nat \ {0}) /\ {} \subseteq Nat \ {0} /\ "down" \in Awaits /\ 0 \in Nat
    BY DEF Awaits
  <2>2. /\ job \in [from : Nat \ {0}, to : Nat, outer : Nat]
        /\ batch \in [next : Nat \ {0}, last : Nat]
    BY NothingInHand
  <2>3. lastId \in Nat /\ base \in Nat
    BY <1>1
  <2>. QED
    BY <1>1, <2>1, <2>2, <2>3 DEF RecoveryTypeOK
<1>3. Holdings /\ Bounds /\ GapWorkedOff
  BY <1>1 DEF Holdings, Bounds, GapWorkedOff, Busy
<1>4. Unread /\ Fed
  BY DEF Unread, Fed
<1>5. Missing = {}
  BY <1>1 DEF Missing
<1>6. LossesAreExplained
  BY <1>5 DEF LossesAreExplained, NothingMissing, LossOnlyAtCheckpoint
<1>. QED
  BY <1>2, <1>3, <1>4, <1>6 DEF IInv

LEMMA Invariant == RecoverySpec => []IInv
BY Initially, Inductive, PTL DEF RecoverySpec
-----------------------------------------------------------------------------
(* Every variable keeps its type, whatever the order of trades, requests,  *)
(* failures, kills and restarts.                                           *)
THEOREM RecoveryTypeCorrect == RecoverySpec => []RecoveryTypeOK
BY Invariant, PTL DEF IInv

(* No id is lost while nothing but connections fails; and an id the        *)
(* aggregator never got lies in a gap whose recovery broke off, or was due *)
(* for persisting when the write failed or the process died.               *)
THEOREM LossesAlwaysExplained == RecoverySpec => []LossesAreExplained
BY Invariant, PTL DEF IInv

(* Only close() may write an id that is not _last_trade_id.                *)
LEMMA CursorStep ==
  ASSUME IInv, [RecoveryNext]_recVars
  PROVE  \/ cursor' >= cursor
         \/ closing = "writes" /\ closing' = "done" /\ cursor' = closeId /\ closeId < lastId
<1>1. cursor \in Nat /\ lastId \in Nat /\ closeId \in Nat /\ cursor <= lastId /\ closeId <= lastId
  BY DEF IInv, RecoveryTypeOK, Bounds
<1>2. CASE CloseWrites
  BY <1>1, <1>2 DEF CloseWrites
<1>3. CASE ~CloseWrites
  <2>1. cursor' \in {cursor, lastId}
    <3>1. CASE Crash \/ Stop \/ Interrupt
      BY <3>1, GoneTypes DEF Gone, IInv
    <3>2. CASE RecoveryNext /\ ~(Crash \/ Stop \/ Interrupt)
      BY <1>3, <3>2 DEF RecoveryNext, Recover, ExchangeTrade, Connect, Disconnect, Start,
         SnapshotLatest, SnapshotFails, FetchBatch, FetchFails, HandOver, EndBatch, FinishGap,
         FinishGapFails, PersistTrade, PersistTradeFails, Receive, OpenSocket, StopBegins,
         CloseReads, CloseFails
    <3>3. CASE UNCHANGED recVars
      BY <3>3 DEF recVars
    <3>. QED
      BY <3>1, <3>2, <3>3
  <2>. QED
    BY <1>1, <2>1
<1>. QED
  BY <1>2, <1>3

(* The persisted id goes back in one case only, in whatever order the      *)
(* feed, its recoveries and the tasks that stop it run: the write of       *)
(* close() lands behind a newer one of the feed, which went on since       *)
(* close() read its id.                                                    *)
THEOREM CursorAdvances == RecoverySpec => CursorNeverRegresses
BY Invariant, CursorStep, PTL DEF RecoverySpec, CursorNeverRegresses
-----------------------------------------------------------------------------
(* A trade accepted above the last one continues the feed.                 *)
LEMMA AcceptDelivers ==
  ASSUME IInv, NEW id \in 1 .. MaxId, NEW resume,
         pc \notin {"down", "persist"}, id > lastId, ~faulty /\ lastId > 0 => id = lastId + 1,
         Accept(id, resume), faulty' = faulty
  PROVE  [Feed!Next]_<<log, faulty>>
<1>1. CASE id % PersistEvery = 0
  BY <1>1, AcceptEffect
<1>2. CASE id % PersistEvery # 0
  <2>1. log' = Append(log, id)
    BY <1>2, AcceptEffect
  <2>2. Feed!Follows(id)
    BY DEF Feed!Follows, IInv, Fed, RecoveryTypeOK
  <2>. QED
    BY <2>1, <2>2 DEF Feed!Next, Feed!Deliver
<1>. QED
  BY <1>1, <1>2

LEMMA StepsOfTheFeed == IInv /\ [RecoveryNext]_recVars => [Feed!Next]_<<log, faulty>>
<1> SUFFICES ASSUME IInv, [RecoveryNext]_recVars PROVE [Feed!Next]_<<log, faulty>>
  OBVIOUS
<1> USE DEF IInv, RecoveryTypeOK, Holdings, Bounds, GapWorkedOff, Unread, Busy
<1> USE BoundsAssumption
<1>1. CASE UNCHANGED <<log, faulty>>
  BY <1>1
<1>2. CASE HandOver
  <2>1. batch.next \in 1 .. MaxId /\ batch.next = lastId + 1 /\ pc = "batch" /\ faulty' = faulty
    BY SMTT(30), <1>2, HandOverEffect
  <2>. QED
    BY SMTT(30), <1>2, <2>1, HandOverEffect, AcceptDelivers
<1>3. CASE FinishGap
  <2>1. /\ Accept(job.outer, "listen") /\ pc = "finish" /\ faulty' = faulty
        /\ job.outer \in 1 .. MaxId /\ job.outer > lastId /\ (~faulty => job.outer = lastId + 1)
    BY <1>3 DEF FinishGap
  <2>. QED
    BY <2>1, AcceptDelivers
<1>4. CASE PersistTrade
  <2>1. log' = Append(log, lastId) /\ faulty' = faulty /\ lastId \in 1 .. MaxId /\ pc = "persist"
    BY <1>4 DEF PersistTrade, Aggregate
  <2>2. Feed!Follows(lastId)
    BY <2>1 DEF Feed!Follows, Fed
  <2>. QED
    BY <2>1, <2>2 DEF Feed!Next, Feed!Deliver
<1>5. CASE Receive
  <2>. DEFINE id == Head(wire)
  <2>1. id = wire[1] /\ id \in 1 .. MaxId /\ id > lastId /\ pc = "listen" /\ faulty' = faulty
    BY SMTT(30), <1>5 DEF Receive
  <2>2. CASE IsGap(id)
    BY <1>5, <2>2 DEF Receive
  <2>3. CASE ~IsGap(id)
    <3>1. Accept(id, "listen") /\ (lastId > 0 => id = lastId + 1)
      BY SMTT(30), <1>5, <2>1, <2>3 DEF Receive, IsGap
    <3>. HIDE DEF id
    <3>. QED
      BY <2>1, <3>1, AcceptDelivers
  <2>. QED
    BY <2>2, <2>3
<1>6. CASE Start
  BY <1>6 DEF Start, Feed!Next, Feed!Restart
<1>7. CASE SnapshotFails \/ FetchFails \/ FinishGapFails \/ PersistTradeFails
              \/ Crash \/ Stop \/ Interrupt
  BY <1>7, GoneTypes DEF SnapshotFails, FetchFails, FinishGapFails, PersistTradeFails, Gone, history,
     Feed!Next, Feed!Degrade
<1>8. CASE \/ ExchangeTrade \/ Connect \/ Disconnect \/ SnapshotLatest \/ FetchBatch
           \/ OpenSocket \/ StopBegins \/ CloseReads \/ CloseWrites \/ CloseFails
  BY <1>8 DEF ExchangeTrade, Connect, Disconnect, SnapshotLatest, FetchBatch, OpenSocket,
     StopBegins, CloseReads, CloseWrites, CloseFails, history
<1>9. CASE EndBatch
  BY <1>9, EndBatchEffect
<1>10. CASE UNCHANGED recVars
  BY <1>10 DEF recVars, history
<1>. QED
  BY <1>1, <1>2, <1>3, <1>4, <1>5, <1>6, <1>7, <1>8, <1>9, <1>10 DEF RecoveryNext, Recover

(* RecoveryManager implements TradeFeed: the aggregator is given ids that  *)
(* only grow within one life of the process, and that grow by one until    *)
(* something fails.                                                        *)
THEOREM Implementation == RecoverySpec => ImplementsFeed
<1>1. RecoveryInit => Feed!Init
  BY DEF RecoveryInit, Feed!Init
<1>. QED
  BY <1>1, Invariant, StepsOfTheFeed, PTL DEF RecoverySpec, ImplementsFeed, Feed!Spec
=============================================================================
