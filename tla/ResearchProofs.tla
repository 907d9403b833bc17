--------------------------- MODULE ResearchProofs ---------------------------
(***************************************************************************)
(* What is done with the recorded seconds, for any number of seconds,      *)
(* calculations, tasks, trainings and any numbers the scripts are given:   *)
(* samples of different splits do not touch and entries are labelled as a  *)
(* trade would end, target values are smoothed over whole windows,         *)
(* predictions and signals do not look ahead, the trades of a test add up, *)
(* and the model that is served is its training's best one.  And the test  *)
(* of a strategy on a simulated market: the books kept of its positions    *)
(* agree, and nothing is bought twice.                                     *)
(***************************************************************************)
EXTENDS Research, Backtest, FiniteSetTheorems, WellFoundedInduction, TLAPS

-----------------------------------------------------------------------------
(* Seconds put in order.  The i-th of a set is the one with i up to it, so *)
(* the order needs no recursion: rank is an injection into 1..Cardinality. *)
LEMMA RankFacts ==
  ASSUME NEW S, S \subseteq Nat, IsFiniteSet(S)
  PROVE  /\ Cardinality(S) \in Nat
         /\ \A t \in Int : Rank(S, t) \in 0..Cardinality(S)
         /\ \A t \in S : Rank(S, t) \in 1..Cardinality(S)
         /\ \A t, u \in S : t < u => Rank(S, t) < Rank(S, u)
<1>. DEFINE U(t) == {s \in S : s <= t}
<1>1. Cardinality(S) \in Nat
  BY FS_CardinalityType
<1>2. ASSUME NEW t PROVE IsFiniteSet(U(t)) /\ Rank(S, t) \in 0..Cardinality(S)
  <2>1. U(t) \in SUBSET S
    OBVIOUS
  <2>2. IsFiniteSet(U(t)) /\ Cardinality(U(t)) <= Cardinality(S)
    BY <2>1, FS_Subset
  <2>3. Cardinality(U(t)) \in Nat
    BY <2>2, FS_CardinalityType
  <2>. QED
    BY <1>1, <2>2, <2>3 DEF Rank
<1>3. ASSUME NEW t \in S PROVE Rank(S, t) # 0
  <2>1. t \in U(t)
    OBVIOUS
  <2>. QED
    BY <1>2, <2>1, FS_EmptySet DEF Rank
<1>4. ASSUME NEW t \in S, NEW u \in S, t < u PROVE Rank(S, t) < Rank(S, u)
  <2>1. U(t) \in SUBSET U(u) /\ u \in U(u) /\ u \notin U(t)
    <3>1. t \in Nat /\ u \in Nat /\ \A s \in S : s \in Nat
      OBVIOUS
    <3>2. \A s \in S : s <= t => s <= u
      BY <1>4, <3>1
    <3>3. u <= u /\ ~(u <= t)
      BY <1>4, <3>1
    <3>. QED
      BY <3>2, <3>3
  <2>2. Cardinality(U(t)) <= Cardinality(U(u)) /\ Cardinality(U(t)) # Cardinality(U(u))
    BY <1>2, <2>1, FS_Subset
  <2>3. Cardinality(U(t)) \in Nat /\ Cardinality(U(u)) \in Nat
    BY <1>2, FS_CardinalityType
  <2>. QED
    BY <2>2, <2>3 DEF Rank
<1>5. \A t : Rank(S, t) \in 0..Cardinality(S)
  BY <1>2
<1>6. \A t \in S : Rank(S, t) \in 1..Cardinality(S)
  BY <1>1, <1>3, <1>5
<1>7. \A t, u \in S : t < u => Rank(S, t) < Rank(S, u)
  BY <1>4
<1>. QED
  BY <1>1, <1>5, <1>6, <1>7

LEMMA OrderedFacts ==
  ASSUME NEW S, S \subseteq Nat, IsFiniteSet(S)
  PROVE  LET rows == Ordered(S)
         IN /\ rows \in Seq(S) /\ rows \in Seq(Nat) /\ Len(rows) = Cardinality(S) /\ Len(rows) \in Nat
            /\ DOMAIN rows = 1..Len(rows)
            /\ \A i \in 1..Len(rows) : rows[i] \in S /\ Rank(S, rows[i]) = i
            /\ \A t \in S : Rank(S, t) \in 1..Len(rows) /\ rows[Rank(S, t)] = t
            /\ \A i, j \in 1..Len(rows) : i < j <=> rows[i] < rows[j]
            /\ \A i, j \in 1..Len(rows) : rows[i] = rows[j] => i = j
<1>. DEFINE n == Cardinality(S)
            rank == [t \in S |-> Rank(S, t)]
            rows == Ordered(S)
<1>1. n \in Nat
  BY RankFacts
<1>2. rank \in Injection(S, 1..n)
  <2>1. \A t \in S : Rank(S, t) \in 1..n
    BY RankFacts
  <2>2. ASSUME NEW t \in S, NEW u \in S, rank[t] = rank[u] PROVE t = u
    <3>1. Rank(S, t) = Rank(S, u) /\ Rank(S, t) \in Int
      BY <1>1, <2>1, <2>2
    <3>2. \A a, b \in S : a < b => Rank(S, a) < Rank(S, b)
      BY RankFacts
    <3>3. ~(t < u) /\ ~(u < t)
      BY <3>1, <3>2
    <3>. QED
      BY <3>3
  <2>. QED
    BY <2>1, <2>2 DEF Injection, IsInjective
<1>3. IsFiniteSet(1..n) /\ Cardinality(1..n) = n
  BY <1>1, FS_Interval
<1>4. rank \in Surjection(S, 1..n)
  BY <1>2, <1>3, FS_Injection
<1>5. ASSUME NEW i \in 1..n PROVE rows[i] \in S /\ Rank(S, rows[i]) = i
  <2>1. \E t \in S : Rank(S, t) = i
    BY <1>4 DEF Surjection
  <2>. QED
    BY <2>1 DEF Ordered
<1>6. rows \in [1..n -> S]
  BY <1>5 DEF Ordered
<1>7. rows \in Seq(S) /\ rows \in Seq(Nat) /\ Len(rows) = n /\ DOMAIN rows = 1..n
  <2>1. rows \in [1..n -> Nat]
    BY <1>6
  <2>. QED
    BY <1>1, <1>6, <2>1
<1>8. ASSUME NEW t \in S PROVE Rank(S, t) \in 1..n /\ rows[Rank(S, t)] = t
  <2>1. Rank(S, t) \in 1..n
    BY RankFacts
  <2>2. rows[Rank(S, t)] \in S /\ rank[rows[Rank(S, t)]] = rank[t]
    BY <1>5, <2>1
  <2>. QED
    BY <1>2, <2>1, <2>2 DEF Injection, IsInjective
<1>9. ASSUME NEW i \in 1..n, NEW j \in 1..n
      PROVE  /\ i < j <=> rows[i] < rows[j]
             /\ rows[i] = rows[j] => i = j
  <2>1. rows[i] \in S /\ rows[j] \in S /\ Rank(S, rows[i]) = i /\ Rank(S, rows[j]) = j
    BY <1>5
  <2>2. (rows[i] < rows[j] => i < j) /\ (rows[j] < rows[i] => j < i)
    BY <2>1, RankFacts
  <2>3. rows[i] = rows[j] => i = j
    BY <2>1
  <2>4. rows[i] \in Nat /\ rows[j] \in Nat
    BY <2>1
  <2>. QED
    BY <1>1, <2>2, <2>3, <2>4
<1>. QED
  BY <1>1, <1>5, <1>7, <1>8, <1>9

(* What the pipeline has recorded.                                         *)
WorldTypes == clock \in Nat /\ close \in Seq(Nat) /\ Len(close) = clock /\ vector \subseteq 1..clock

LEMMA WorldTypesInit == ResearchInit => WorldTypes
BY DEF ResearchInit, WorldTypes

LEMMA WorldMoves ==
  ASSUME ResearchNext
  PROVE  world' = world \/ Record \/ Fill
BY DEF ResearchNext, TrainSequences, TrainTcn, TrainEntry, Cut, BeginTargets, UpdateTargets,
       ClearFirst, ClearLast, BeginPrediction, SavePredictions, TestSignals, TrainAndServe, world

LEMMA SecondsOfStudy ==
  ASSUME NEW s \in Seconds[study], study \in Studies
  PROVE  s[1] \in Nat
<1>1. Seconds[study] \subseteq Nat \X BOOLEAN
  BY ResearchAssumption
<1>. QED
  BY <1>1

LEMMA WorldTypesKept ==
  ASSUME WorldTypes, study \in Studies, [ResearchNext]_rvars
  PROVE  WorldTypes' /\ study' = study
<1>1. CASE Record
  <2>1. PICK s \in Seconds[study] :
          /\ clock' = clock + 1 /\ close' = Append(close, s[1])
          /\ vector' = IF s[2] THEN vector \union {clock'} ELSE vector
    BY <1>1 DEF Record
  <2>2. s[1] \in Nat
    BY SecondsOfStudy
  <2>3. close' \in Seq(Nat) /\ Len(close') = clock' /\ clock' \in Nat
    BY <2>1, <2>2 DEF WorldTypes
  <2>4. vector' \subseteq 1..clock'
    BY <2>1 DEF WorldTypes
  <2>. QED
    BY <1>1, <2>3, <2>4 DEF WorldTypes, Record
<1>2. CASE Fill
  <2>1. PICK t \in 1..clock, s \in Seconds[study] : close' = [close EXCEPT ![t] = s[1]]
    BY <1>2 DEF Fill
  <2>2. s[1] \in Nat
    BY SecondsOfStudy
  <2>3. close' \in Seq(Nat) /\ Len(close') = Len(close)
    BY <2>1, <2>2 DEF WorldTypes
  <2>. QED
    BY <1>2, <2>3 DEF WorldTypes, Fill
<1>3. ASSUME world' = world PROVE WorldTypes'
  BY <1>3 DEF world, WorldTypes
<1>4. study' = study
  BY DEF ResearchNext, Record, Fill, TrainSequences, TrainTcn, TrainEntry, Cut, BeginTargets, UpdateTargets,
       ClearFirst, ClearLast, BeginPrediction, SavePredictions, TestSignals, TrainAndServe, rvars
<1>. QED
  BY <1>1, <1>2, <1>3, <1>4, WorldMoves DEF rvars

(* Sets of recorded seconds are finite, so they can be put in order.       *)
LEMMA SecondsFinite ==
  ASSUME WorldTypes, NEW S, S \subseteq 1..clock
  PROVE  S \subseteq Nat /\ IsFiniteSet(S)
<1>1. IsFiniteSet(1..clock)
  BY FS_Interval DEF WorldTypes
<1>2. S \in SUBSET (1..clock) /\ 1..clock \subseteq Nat
  BY DEF WorldTypes
<1>. QED
  BY <1>1, <1>2, FS_Subset

-----------------------------------------------------------------------------
(* Signal backtests.                                                       *)
Positions == [entry : Nat, exit : Nat]

TestRecords ==
  [kind : Tests, rows : Seq(Nat), last : Nat, at : Nat, entry : Nat, trades : Seq(Positions)]

(* The first row a position is asked at whether to close.                  *)
Asked(t, e) == IF AsksAtOnce(t) THEN e ELSE e + 1

(* Where a backtest has come to: no row since the entry asked for an exit. *)
OpenPosition(t) ==
  /\ t.entry < t.at /\ t.at <= t.last + 1
  /\ t.entry # 0 => \A i \in Asked(t, t.entry)..(t.at - 1) : ~Exits(t, t.entry, i)

Traded(t) ==
  \A k \in 1..Len(t.trades) :
    LET p == t.trades[k]
    IN /\ Exits(t, p.entry, p.exit) /\ Asked(t, p.entry) <= p.exit
       /\ \A i \in Asked(t, p.entry)..(p.exit - 1) : ~Exits(t, p.entry, i)
       /\ k > 1 => t.trades[k - 1].exit < p.entry
       /\ p.exit < t.at /\ (t.entry # 0 => p.exit < t.entry)

TestInv ==
  /\ bt # NoTest => study = "backtests"
  /\ bt.kind \in Tests => bt \in TestRecords /\ OpenPosition(bt) /\ Traded(bt)

GoesOn(t, e) == [t EXCEPT !.entry = e, !.at = @ + 1]

LEMMA MovesOn ==
  ASSUME NEW t \in TestRecords, NEW e \in Nat
  PROVE  LET n == GoesOn(t, e)
         IN /\ n \in TestRecords /\ n.kind = t.kind /\ n.rows = t.rows /\ n.last = t.last
            /\ n.trades = t.trades /\ n.entry = e /\ n.at = t.at + 1
<1>. DEFINE u == [t EXCEPT !.entry = e]
            at == t.at + 1
<1>1. /\ u \in TestRecords /\ u.kind = t.kind /\ u.rows = t.rows /\ u.last = t.last
      /\ u.trades = t.trades /\ u.entry = e /\ u.at = t.at
  BY DEF TestRecords
<1>2. at \in Nat
  BY DEF TestRecords
<1>. HIDE DEF u, at
<1>3. LET n == [u EXCEPT !.at = at]
      IN /\ n \in TestRecords /\ n.kind = u.kind /\ n.rows = u.rows /\ n.last = u.last
         /\ n.trades = u.trades /\ n.entry = u.entry /\ n.at = at
  BY <1>1, <1>2 DEF TestRecords
<1>4. GoesOn(t, e) = [u EXCEPT !.at = at]
  BY DEF GoesOn, u, at
<1>. QED
  BY <1>1, <1>3, <1>4 DEF at

LEMMA ClosesEffect ==
  ASSUME NEW t \in TestRecords, NEW e \in Nat
  PROVE  /\ [entry |-> e, exit |-> t.at] \in Positions
         /\ LET n == Closes(t, e)
            IN /\ n \in TestRecords /\ n.kind = t.kind /\ n.rows = t.rows /\ n.last = t.last
               /\ n.trades = Append(t.trades, [entry |-> e, exit |-> t.at])
               /\ n.entry = 0 /\ n.at = t.at + 1
<1>. DEFINE trades == Append(t.trades, [entry |-> e, exit |-> t.at])
            u == GoesOn(t, 0)
<1>0. Closes(t, e) = [u EXCEPT !.trades = trades]
  BY DEF Closes, GoesOn
<1>1. [entry |-> e, exit |-> t.at] \in Positions /\ t.trades \in Seq(Positions)
  BY DEF TestRecords, Positions
<1>2. trades \in Seq(Positions)
  BY <1>1
<1>3. /\ u \in TestRecords /\ u.kind = t.kind /\ u.rows = t.rows /\ u.last = t.last
      /\ u.entry = 0 /\ u.at = t.at + 1
  BY MovesOn
<1>. HIDE DEF u, trades
<1>4. LET n == [u EXCEPT !.trades = trades]
      IN /\ n \in TestRecords /\ n.kind = u.kind /\ n.rows = u.rows /\ n.last = u.last
         /\ n.entry = u.entry /\ n.at = u.at /\ n.trades = trades
  BY <1>2, <1>3 DEF TestRecords
<1>. QED
  BY <1>0, <1>1, <1>3, <1>4 DEF trades

(* Whether to close depends on the test's kind and rows and on the closes. *)
LEMMA SameExits ==
  ASSUME NEW t, NEW n, n.kind = t.kind, n.rows = t.rows, n.last = t.last
  PROVE  /\ \A e, i : Exits(n, e, i) <=> Exits(t, e, i)
         /\ \A e : Asked(n, e) = Asked(t, e)
         /\ AsksAtOnce(n) <=> AsksAtOnce(t)
BY DEF Exits, Asked, AsksAtOnce

LEMMA SameTests ==
  ASSUME NEW n, bt' = n
  PROVE  /\ OpenPosition(n) => OpenPosition(bt)'
         /\ Traded(n) => Traded(bt)'
<1>1. /\ \A e, i : Exits(bt, e, i)' <=> Exits(n, e, i)
      /\ \A e : Asked(bt, e)' = Asked(n, e)
  BY DEF Exits, Asked, AsksAtOnce
<1>. QED
  BY <1>1 DEF OpenPosition, Traded

LEMMA AskedIs ==
  ASSUME NEW t, NEW e \in Nat
  PROVE  /\ Asked(t, e) \in Nat /\ (AsksAtOnce(t) => Asked(t, e) = e)
         /\ (~AsksAtOnce(t) => Asked(t, e) = e + 1)
BY DEF Asked

LEMMA DecideKeeps ==
  ASSUME TestInv, NEW signal \in BOOLEAN, Decide(signal), UNCHANGED study
  PROVE  TestInv'
<1>. DEFINE t == bt
            opens == signal /\ t.entry = 0
            e     == IF opens THEN t.at ELSE t.entry
            asks  == t.entry # 0 \/ (opens /\ AsksAtOnce(t))
<1>. PICK n : n = bt'
  OBVIOUS
<1>1. /\ t.kind \in Tests /\ t.at <= t.last
      /\ n = IF asks /\ Exits(t, e, t.at) THEN Closes(t, e)
             ELSE [t EXCEPT !.entry = e, !.at = @ + 1]
  BY DEF Decide
<1>2. t \in TestRecords /\ study = "backtests" /\ OpenPosition(t) /\ Traded(t)
  BY <1>1 DEF TestInv, NoTest, Tests
<1>3. /\ t.at \in Nat /\ t.entry \in Nat /\ t.last \in Nat /\ t.trades \in Seq(Positions)
      /\ t.entry < t.at
      /\ t.entry # 0 => \A i \in Asked(t, t.entry)..(t.at - 1) : ~Exits(t, t.entry, i)
  BY <1>2 DEF TestRecords, OpenPosition
<1>4. e \in Nat /\ e <= t.at /\ (t.entry # 0 => e = t.entry) /\ (e # 0 => e = t.entry \/ e = t.at)
  BY <1>3
<1>5. \A k \in 1..Len(t.trades) : /\ t.trades[k].exit \in Nat /\ t.trades[k].exit < t.at
                                  /\ e # 0 => t.trades[k].exit < e
  <2>. SUFFICES ASSUME NEW k \in 1..Len(t.trades)
                PROVE  /\ t.trades[k].exit \in Nat /\ t.trades[k].exit < t.at
                       /\ e # 0 => t.trades[k].exit < e
    OBVIOUS
  <2>1. t.trades[k] \in Positions
    BY <1>3
  <2>2. t.trades[k].exit \in Nat
    BY <2>1 DEF Positions
  <2>3. t.trades[k].exit < t.at /\ (t.entry # 0 => t.trades[k].exit < t.entry)
    BY <1>2 DEF Traded
  <2>. QED
    BY <1>3, <1>4, <2>2, <2>3
<1>a. asks \in BOOLEAN /\ (asks /\ t.entry = 0 => e = t.at /\ AsksAtOnce(t))
      /\ (AsksAtOnce(t) /\ opens => asks) /\ (e # 0 /\ t.entry = 0 => opens)
  BY DEF AsksAtOnce
<1>. HIDE DEF t, e, asks, opens
<1>b. /\ Asked(t, e) \in Nat /\ (AsksAtOnce(t) => Asked(t, e) = e)
      /\ (~AsksAtOnce(t) => Asked(t, e) = e + 1) /\ Asked(t, e) \in {e, e + 1}
  BY <1>4, AskedIs
<1>c. ASSUME OpenPosition(n), Traded(n) PROVE OpenPosition(bt)' /\ Traded(bt)'
  BY <1>c, SameTests
<1>6. CASE asks /\ Exits(t, e, t.at)
  <2>. DEFINE p == [entry |-> e, exit |-> t.at]
  <2>1. /\ n \in TestRecords /\ n.kind = t.kind /\ n.rows = t.rows /\ n.last = t.last
        /\ n.trades = Append(t.trades, p) /\ n.entry = 0 /\ n.at = t.at + 1 /\ p \in Positions
    BY <1>1, <1>2, <1>4, <1>6, ClosesEffect
  <2>2. p.entry = e /\ p.exit = t.at
    OBVIOUS
  <2>. HIDE DEF p
  <2>3. /\ \A a, i : Exits(n, a, i) <=> Exits(t, a, i)
        /\ \A a : Asked(n, a) = Asked(t, a)
    BY <2>1, SameExits
  <2>4. /\ Len(n.trades) = Len(t.trades) + 1 /\ Len(t.trades) \in Nat
        /\ \A k \in 1..Len(t.trades) : n.trades[k] = t.trades[k]
        /\ n.trades[Len(t.trades) + 1] = p
    BY <1>3, <2>1
  <2>5. Asked(t, e) <= t.at /\ \A i \in Asked(t, e)..(t.at - 1) : ~Exits(t, e, i)
    <3>1. CASE t.entry # 0
      BY <1>3, <1>4, <1>b, <3>1
    <3>2. CASE t.entry = 0
      BY <1>3, <1>4, <1>6, <1>a, <1>b, <3>2
    <3>. QED
      BY <3>1, <3>2
  <2>6. Traded(n)
    <3>. SUFFICES ASSUME NEW k \in 1..Len(n.trades)
                  PROVE  LET q == n.trades[k]
                         IN /\ Exits(t, q.entry, q.exit) /\ Asked(t, q.entry) <= q.exit
                            /\ \A i \in Asked(t, q.entry)..(q.exit - 1) : ~Exits(t, q.entry, i)
                            /\ k > 1 => n.trades[k - 1].exit < q.entry
                            /\ q.exit < n.at
      BY <2>1, <2>3, SMTT(30) DEF Traded
    <3>1. CASE k \in 1..Len(t.trades)
      <4>1. n.trades[k] = t.trades[k] /\ (k > 1 => n.trades[k - 1] = t.trades[k - 1])
        <5>1. k > 1 => k - 1 \in 1..Len(t.trades)
          BY <2>4, <3>1
        <5>. QED
          BY <2>4, <3>1, <5>1
      <4>2. n.trades[k].exit < n.at
        <5>1. t.trades[k].exit \in Nat /\ t.trades[k].exit < t.at
          BY <1>3, <1>5, <3>1
        <5>. QED
          BY <1>3, <2>1, <4>1, <5>1
      <4>. QED
        BY <1>2, <3>1, <4>1, <4>2 DEF Traded
    <3>2. CASE k = Len(t.trades) + 1
      <4>1. n.trades[k] = p /\ (k > 1 => n.trades[k - 1] = t.trades[k - 1] /\ k - 1 \in 1..Len(t.trades))
        BY <2>4, <3>2
      <4>2. k > 1 => n.trades[k - 1].exit < e
        <5>1. CASE e # 0
          <6>1. k > 1 => t.trades[k - 1].exit < e
            BY <1>3, <1>5, <4>1, <5>1
          <6>. QED
            BY <4>1, <6>1
        <5>2. CASE e = 0
          BY <1>3, <1>4, <1>5, <1>6, <1>a, <4>1, <5>2
        <5>. QED
          BY <5>1, <5>2
      <4>. QED
        BY <1>3, <1>6, <2>1, <2>2, <2>5, <4>1, <4>2
    <3>. QED
      BY <2>4, <3>1, <3>2
  <2>7. OpenPosition(n)
    BY <1>1, <1>3, <2>1 DEF OpenPosition
  <2>. QED
    BY <1>2, <1>c, <2>1, <2>6, <2>7 DEF TestInv
<1>7. CASE ~(asks /\ Exits(t, e, t.at))
  <2>0. n = GoesOn(t, e)
    BY <1>1, <1>7 DEF GoesOn
  <2>1. /\ n \in TestRecords /\ n.kind = t.kind /\ n.rows = t.rows /\ n.last = t.last
        /\ n.trades = t.trades /\ n.entry = e /\ n.at = t.at + 1
    BY <1>2, <1>4, <2>0, MovesOn
  <2>2. /\ \A a, i : Exits(n, a, i) <=> Exits(t, a, i)
        /\ \A a : Asked(n, a) = Asked(t, a)
    BY <2>1, SameExits
  <2>3. Traded(n)
    <3>1. \A k \in 1..Len(t.trades) : t.trades[k].exit < n.at /\ (e # 0 => t.trades[k].exit < e)
      BY <1>3, <1>5, <2>1
    <3>. QED
      BY <1>2, <2>1, <2>2, <3>1 DEF Traded
  <2>4. ASSUME e # 0, NEW i \in Asked(t, e)..t.at PROVE ~Exits(t, e, i)
    <3>1. CASE t.entry # 0
      <4>1. asks
        BY <3>1 DEF asks
      <4>. QED
        BY <1>3, <1>4, <1>7, <2>4, <3>1, <4>1, AskedIs
    <3>2. CASE t.entry = 0
      <4>1. e = t.at /\ opens
        BY <1>4, <1>a, <2>4, <3>2
      <4>2. AsksAtOnce(t)
        BY <1>3, <1>4, <1>b, <2>4, <4>1
      <4>. QED
        <5>1. i = t.at /\ asks
          BY <1>3, <1>a, <1>b, <2>4, <4>1, <4>2
        <5>. QED
          BY <1>7, <4>1, <5>1
    <3>. QED
      BY <3>1, <3>2
  <2>5. OpenPosition(n)
    BY <1>1, <1>3, <1>4, <2>1, <2>2, <2>4 DEF OpenPosition
  <2>. QED
    BY <1>2, <1>c, <2>1, <2>3, <2>5 DEF TestInv
<1>. QED
  BY <1>6, <1>7

LEMMA MinOfTwo ==
  ASSUME NEW a \in Int, NEW b \in Int
  PROVE  /\ Min({a, b}) = IF a <= b THEN a ELSE b
         /\ Max({a, b}) = IF a <= b THEN b ELSE a
<1>1. CASE a <= b
  <2>1. /\ \A y \in {a, b} : a <= y /\ b >= y
    BY <1>1
  <2>2. Min({a, b}) = a
    BY <2>1, <1>1 DEF Min
  <2>3. Max({a, b}) = b
    BY <2>1, <1>1 DEF Max
  <2>. QED
    BY <1>1, <2>2, <2>3
<1>2. CASE b < a
  <2>1. /\ \A y \in {a, b} : b <= y /\ a >= y
    BY <1>2
  <2>2. Min({a, b}) = b
    BY <2>1, <1>2 DEF Min
  <2>3. Max({a, b}) = a
    BY <2>1, <1>2 DEF Max
  <2>. QED
    BY <1>2, <2>2, <2>3
<1>. QED
  BY <1>1, <1>2

LEMMA CandlesAre == Candles \subseteq 1..clock /\ Candles \cap vector \subseteq 1..clock
BY DEF Candles

LEMMA JoinedIs ==
  ASSUME WorldTypes, NEW from, NEW to
  PROVE  LET S == {t \in Candles \cap vector : from <= t /\ t < to}
         IN S \subseteq 1..clock /\ S \subseteq Nat /\ IsFiniteSet(S)
            /\ JoinedRows(from, to) = Ordered(S)
<1>. DEFINE S == {t \in Candles \cap vector : from <= t /\ t < to}
<1>1. S \subseteq 1..clock
  BY CandlesAre
<1>. HIDE DEF S
<1>2. S \subseteq Nat /\ IsFiniteSet(S)
  BY <1>1, SecondsFinite
<1>. QED
  BY <1>1, <1>2 DEF JoinedRows, S

LEMMA JoinedFacts ==
  ASSUME WorldTypes, NEW from, NEW to
  PROVE  LET rows == JoinedRows(from, to)
         IN /\ rows \in Seq(Nat) /\ Len(rows) \in Nat
            /\ \A i \in 1..Len(rows) : /\ rows[i] \in 1..clock /\ rows[i] \in Candles \cap vector
                                       /\ from <= rows[i] /\ rows[i] < to
            /\ \A i, j \in 1..Len(rows) : i < j <=> rows[i] < rows[j]
<1>. DEFINE S == {t \in Candles \cap vector : from <= t /\ t < to}
<1>. PICK T : T = S
  OBVIOUS
<1>1. T \subseteq 1..clock /\ T \subseteq Nat /\ IsFiniteSet(T) /\ JoinedRows(from, to) = Ordered(T)
  BY JoinedIs
<1>2. LET rows == Ordered(T)
      IN /\ rows \in Seq(Nat) /\ Len(rows) \in Nat
         /\ \A i \in 1..Len(rows) : rows[i] \in T
         /\ \A i, j \in 1..Len(rows) : i < j <=> rows[i] < rows[j]
  BY <1>1, OrderedFacts
<1>. PICK rows : rows = Ordered(T)
  OBVIOUS
<1>4. \A t \in T : t \in Candles \cap vector /\ from <= t /\ t < to /\ t \in 1..clock
  BY <1>1
<1>. QED
  BY <1>1, <1>2, <1>4

LEMMA VectorsFacts ==
  ASSUME WorldTypes
  PROVE  LET S == {t \in vector : t < Latest}
         IN S \subseteq 1..clock /\ S \subseteq Nat /\ IsFiniteSet(S) /\ Vectors = Ordered(S)
<1>. DEFINE S == {t \in vector : t < Latest}
<1>1. S \subseteq 1..clock
  BY DEF WorldTypes
<1>. HIDE DEF S
<1>2. S \subseteq Nat /\ IsFiniteSet(S)
  BY <1>1, SecondsFinite
<1>. QED
  BY <1>1, <1>2 DEF Vectors, S

LEMMA OrderedLength ==
  ASSUME WorldTypes, NEW S, S \subseteq 1..clock
  PROVE  Ordered(S) \in Seq(Nat) /\ Len(Ordered(S)) \in Nat
<1>1. S \subseteq Nat /\ IsFiniteSet(S)
  BY SecondsFinite
<1>. QED
  BY <1>1, OrderedFacts

LEMMA LastIsNatural ==
  ASSUME WorldTypes, NEW sort \in Tests
  PROVE  LET rows == RowsOf(sort)  final == LastOf(sort, rows)
         IN /\ rows \in Seq(Nat) /\ final \in Nat
            /\ FirstOf(sort) \in Nat \ {0}
<1>. PICK rows : rows = RowsOf(sort)
  OBVIOUS
<1>1. rows \in Seq(Nat) /\ Len(rows) \in Nat
  <2>1. CASE sort # "tcn"
    <3>1. {t \in Candles : t < Latest} \subseteq 1..clock
      BY CandlesAre
    <3>. QED
      BY <2>1, <3>1, OrderedLength DEF RowsOf
  <2>2. CASE sort = "tcn"
    BY <2>2, JoinedFacts DEF RowsOf
  <2>. QED
    BY <2>1, <2>2
<1>2. FirstOf(sort) \in Nat \ {0}
  BY SetsAssumption DEF FirstOf
<1>3. CASE sort = "tcn_script"
  <2>1. Len(Vectors) \in Nat
    BY VectorsFacts, OrderedLength
  <2>2. Min({Len(rows), Len(Vectors)}) \in Nat
    BY <1>1, <2>1, MinOfTwo
  <2>3. LastOf(sort, rows) = Min({Len(rows), Len(Vectors)})
    BY <1>3 DEF LastOf
  <2>. QED
    BY <1>1, <1>2, <1>3, <2>2, <2>3
<1>4. CASE sort = "tcn"
  <2>1. LastOf(sort, rows) = Len(rows)
    BY <1>4 DEF LastOf
  <2>. QED
    BY <1>1, <1>2, <1>4, <2>1
<1>. QED
  BY <1>3, <1>4 DEF Tests

LEMMA BeginTestKeeps ==
  ASSUME WorldTypes, TestInv, study = "backtests", NEW sort \in Tests, BeginTest(sort),
         UNCHANGED study
  PROVE  TestInv'
<1>. PICK rows : rows = RowsOf(sort)
  OBVIOUS
<1>. PICK final : final = LastOf(sort, rows)
  OBVIOUS
<1>. PICK first : first = FirstOf(sort)
  OBVIOUS
<1>1. rows \in Seq(Nat) /\ final \in Nat /\ first \in Nat \ {0}
  BY LastIsNatural
<1>. DEFINE n == [kind |-> sort, rows |-> rows, last |-> final, at |-> first, entry |-> 0, trades |-> <<>>]
<1>2. first <= final /\ bt' = n
  BY DEF BeginTest
<1>3. n \in TestRecords
  BY <1>1 DEF TestRecords, Positions
<1>4. n.kind = sort /\ n.last = final /\ n.at = first /\ n.entry = 0 /\ n.trades = <<>>
  OBVIOUS
<1>. HIDE DEF n
<1>5. OpenPosition(n) /\ Traded(n)
  BY <1>1, <1>2, <1>4 DEF OpenPosition, Traded
<1>6. OpenPosition(bt)' /\ Traded(bt)'
  BY <1>2, <1>5, SameTests
<1>. QED
  BY <1>1, <1>2, <1>3, <1>4, <1>6 DEF TestInv

LEMMA EntryTestEnds ==
  ASSUME NEW sort \in {"entry", "entry_script"}, EntryTest(sort)
  PROVE  bt'.kind \notin Tests
<1>. PICK end : end = IF Predicted(sort) THEN "raised" ELSE "no data"
  OBVIOUS
<1>1. bt' = [kind |-> end] /\ end \notin Tests
  BY DEF EntryTest, Tests
<1>. QED
  BY <1>1

LEMMA TestInvKept ==
  ASSUME WorldTypes, TestInv, [ResearchNext]_rvars
  PROVE  TestInv'
<1>1. CASE TestSignals
  <2>1. study = "backtests" /\ UNCHANGED study
    BY <1>1 DEF TestSignals
  <2>2. CASE \E sort \in Tests : BeginTest(sort)
    BY <2>1, <2>2, BeginTestKeeps
  <2>3. CASE \E signal \in BOOLEAN : Decide(signal)
    BY <2>1, <2>3, DecideKeeps
  <2>4. CASE \E sort \in {"entry", "entry_script"} : EntryTest(sort)
    BY <2>1, <2>4, EntryTestEnds DEF TestInv
  <2>. QED
    BY <1>1, <2>2, <2>3, <2>4 DEF TestSignals
<1>2. CASE Record
  <2>1. bt = NoTest /\ bt' = bt
    BY <1>2 DEF Record
  <2>. QED
    BY <2>1 DEF TestInv, NoTest, Tests
<1>3. CASE ~(TestSignals \/ Record)
  <2>1. bt' = bt /\ study' = study
    BY <1>3 DEF ResearchNext, Fill, TrainSequences, TrainTcn, TrainEntry, Cut, BeginTargets,
       UpdateTargets, ClearFirst, ClearLast, BeginPrediction, SavePredictions, TrainAndServe, rvars
  <2>2. CASE bt.kind \notin Tests
    BY <2>1, <2>2 DEF TestInv
  <2>3. CASE bt.kind \in Tests
    <3>1. OpenPosition(bt)' /\ Traded(bt)'
      BY <2>1, <2>3, SameTests DEF TestInv
    <3>. QED
      BY <2>1, <2>3, <3>1 DEF TestInv
  <2>. QED
    BY <2>2, <2>3
<1>. QED
  BY <1>1, <1>2, <1>3

LEMMA TestInvTradesAddUp == TestInv => TradesAddUp
<1>. SUFFICES ASSUME TestInv, bt.kind \in Tests
              PROVE  /\ \A k \in DOMAIN bt.trades :
                          LET t == bt.trades[k]
                          IN /\ Exits(bt, t.entry, t.exit) /\ Asked(bt, t.entry) <= t.exit
                             /\ \A i \in Asked(bt, t.entry)..(t.exit - 1) : ~Exits(bt, t.entry, i)
                             /\ k > 1 => bt.trades[k - 1].exit < t.entry
                     /\ bt.at > bt.last /\ bt.entry # 0 =>
                          bt.entry = bt.last /\ ~AsksAtOnce(bt)
  BY DEF TradesAddUp, Asked
<1>1. bt \in TestRecords /\ OpenPosition(bt) /\ Traded(bt)
  BY DEF TestInv
<1>2. bt.trades \in Seq(Positions) /\ bt.at \in Nat /\ bt.last \in Nat /\ bt.entry \in Nat
      /\ bt.kind \in Tests
  BY <1>1 DEF TestRecords
<1>3. ASSUME bt.at > bt.last, bt.entry # 0
      PROVE  bt.entry = bt.last /\ ~AsksAtOnce(bt)
  <2>1. /\ bt.entry <= bt.last /\ bt.at = bt.last + 1
        /\ \A i \in Asked(bt, bt.entry)..bt.last : ~Exits(bt, bt.entry, i)
    BY <1>1, <1>2, <1>3 DEF OpenPosition
  <2>2. Exits(bt, bt.entry, bt.last)
    BY DEF Exits
  <2>3. ~(Asked(bt, bt.entry) <= bt.last)
    BY <1>2, <2>1, <2>2, AskedIs
  <2>. QED
    BY <1>2, <2>1, <2>3, AskedIs
<1>4. DOMAIN bt.trades = 1..Len(bt.trades)
  BY <1>2
<1>. QED
  BY <1>1, <1>3, <1>4 DEF Traded

(* What holds while signals are tested: what is recorded, and the test.    *)
BacktestInv == study \in Studies /\ WorldTypes /\ TestInv

LEMMA BacktestInvHolds == ResearchSpec => []BacktestInv
<1>1. ResearchInit => BacktestInv
  BY WorldTypesInit DEF BacktestInv, ResearchInit, TestInv, NoTest, Tests
<1>2. BacktestInv /\ [ResearchNext]_rvars => BacktestInv'
  <2>. SUFFICES ASSUME BacktestInv, [ResearchNext]_rvars PROVE BacktestInv'
    OBVIOUS
  <2>1. WorldTypes' /\ study' = study
    BY WorldTypesKept DEF BacktestInv
  <2>2. TestInv'
    BY TestInvKept DEF BacktestInv
  <2>. QED
    BY <2>1, <2>2 DEF BacktestInv
<1>. QED
  BY <1>1, <1>2, PTL DEF ResearchSpec

(* TradesAddUp (the backtest routes and scripts): every position becomes a *)
(* trade at the first row that asks for it, one at a time.                 *)
THEOREM TradesAlwaysAddUp == ResearchSpec => []TradesAddUp
<1>1. BacktestInv => TradesAddUp
  BY TestInvTradesAddUp DEF BacktestInv
<1>. QED
  BY <1>1, BacktestInvHolds, PTL

-----------------------------------------------------------------------------
(* Nothing looks ahead.                                                    *)
Rising(rows) == \A i, j \in 1..Len(rows) : i < j => rows[i] < rows[j]

(* What a test goes through: rows in order, up to the last of them, from   *)
(* the first it decides at.                                                *)
LooksBack ==
  bt.kind \in Tests =>
    /\ FirstOf(bt.kind) <= bt.at /\ (bt.entry # 0 => FirstOf(bt.kind) <= bt.entry)
    /\ \A k \in 1..Len(bt.trades) : FirstOf(bt.kind) <= bt.trades[k].entry
    /\ bt.last <= Len(bt.rows) /\ Rising(bt.rows)

LEMMA BeginLooksBack ==
  ASSUME WorldTypes, TestInv, NEW sort \in Tests, BeginTest(sort)
  PROVE  LooksBack'
<1>. PICK rows : rows = RowsOf(sort)
  OBVIOUS
<1>. PICK final : final = LastOf(sort, rows)
  OBVIOUS
<1>1. FirstOf(sort) <= final
      /\ bt' = [kind |-> sort, rows |-> rows, last |-> final, at |-> FirstOf(sort), entry |-> 0, trades |-> <<>>]
  BY DEF BeginTest
<1>2. /\ bt'.trades = <<>> /\ bt'.kind = sort /\ bt'.last = final /\ bt'.rows = rows
      /\ bt'.at = FirstOf(sort) /\ bt'.entry = 0
  BY <1>1
<1>3. FirstOf(sort) \in Nat
  BY SetsAssumption DEF FirstOf
<1>. DEFINE S == IF sort = "tcn" THEN {t \in Candles \cap vector : 1 <= t /\ t < clock + 1}
                 ELSE {t \in Candles : t < Latest}
<1>4. rows = Ordered(S) /\ S \subseteq Nat /\ IsFiniteSet(S)
  <2>1. CASE sort = "tcn"
    BY <2>1, JoinedIs DEF RowsOf
  <2>2. CASE sort # "tcn"
    <3>1. S \subseteq 1..clock
      BY <2>2, CandlesAre
    <3>. QED
      BY <2>2, <3>1, SecondsFinite DEF RowsOf
  <2>. QED
    BY <2>1, <2>2
<1>. HIDE DEF S
<1>5. Rising(rows) /\ Len(rows) \in Nat
  BY <1>4, OrderedFacts DEF Rising
<1>6. final <= Len(rows)
  <2>1. CASE sort = "tcn"
    BY <1>5, <2>1 DEF LastOf
  <2>2. CASE sort # "tcn"
    <3>1. Len(Vectors) \in Nat
      BY VectorsFacts, OrderedLength
    <3>2. Min({Len(rows), Len(Vectors)}) <= Len(rows)
      BY <1>5, <3>1, MinOfTwo
    <3>3. final = Min({Len(rows), Len(Vectors)})
      BY <2>2 DEF LastOf
    <3>. QED
      BY <3>2, <3>3
  <2>. QED
    BY <2>1, <2>2
<1>. QED
  BY <1>2, <1>3, <1>5, <1>6 DEF LooksBack

LEMMA DecideLooksBack ==
  ASSUME TestInv, LooksBack, NEW signal \in BOOLEAN, Decide(signal)
  PROVE  LooksBack'
<1>. DEFINE t == bt
            opens == signal /\ t.entry = 0
            e     == IF opens THEN t.at ELSE t.entry
            asks  == t.entry # 0 \/ (opens /\ AsksAtOnce(t))
<1>. PICK n : n = bt'
  OBVIOUS
<1>1. /\ t.kind \in Tests
      /\ n = IF asks /\ Exits(t, e, t.at) THEN Closes(t, e)
             ELSE [t EXCEPT !.entry = e, !.at = @ + 1]
  BY DEF Decide
<1>2. t \in TestRecords /\ OpenPosition(t)
  BY <1>1 DEF TestInv
<1>. PICK first : first = FirstOf(t.kind)
  OBVIOUS
<1>3. /\ t.at \in Nat /\ t.entry \in Nat /\ t.trades \in Seq(Positions) /\ t.entry < t.at
      /\ first \in Nat \ {0}
  <2>1. FirstOf(t.kind) \in Nat \ {0}
    BY SetsAssumption DEF FirstOf
  <2>. QED
    BY <1>2, <2>1 DEF TestRecords, OpenPosition
<1>4. /\ first <= t.at /\ (t.entry # 0 => first <= t.entry)
      /\ \A k \in 1..Len(t.trades) : first <= t.trades[k].entry
      /\ t.last <= Len(t.rows) /\ Rising(t.rows)
  BY <1>1 DEF LooksBack
<1>5. e \in Nat /\ (e # 0 => first <= e) /\ (asks => e # 0)
  BY <1>3, <1>4
<1>. HIDE DEF t, e, asks, opens
<1>6. /\ n.kind = t.kind /\ n.last = t.last /\ n.rows = t.rows
      /\ n.at = t.at + 1 /\ n.entry \in {0, e}
      /\ \A k \in 1..Len(n.trades) : first <= n.trades[k].entry
  <2>1. CASE asks /\ Exits(t, e, t.at)
    <3>. DEFINE p == [entry |-> e, exit |-> t.at]
    <3>1. /\ n.kind = t.kind /\ n.last = t.last /\ n.rows = t.rows /\ n.trades = Append(t.trades, p)
          /\ n.entry = 0 /\ n.at = t.at + 1
      BY <1>1, <1>2, <1>5, <2>1, ClosesEffect
    <3>2. p.entry = e
      OBVIOUS
    <3>. HIDE DEF p
    <3>. QED
      BY <1>3, <1>4, <1>5, <2>1, <3>1, <3>2
  <2>2. CASE ~(asks /\ Exits(t, e, t.at))
    <3>1. n = GoesOn(t, e)
      BY <1>1, <2>2 DEF GoesOn
    <3>2. /\ n.kind = t.kind /\ n.rows = t.rows /\ n.last = t.last /\ n.trades = t.trades
          /\ n.at = t.at + 1 /\ n.entry = e
      BY <1>2, <1>5, <3>1, MovesOn
    <3>. QED
      BY <1>4, <3>2
  <2>. QED
    BY <2>1, <2>2
<1>7. first <= n.at /\ (n.entry # 0 => first <= n.entry)
  BY <1>3, <1>4, <1>5, <1>6
<1>. QED
  BY <1>4, <1>6, <1>7 DEF LooksBack

LEMMA LooksBackKept ==
  ASSUME WorldTypes, TestInv, LooksBack, [ResearchNext]_rvars
  PROVE  LooksBack'
<1>1. CASE TestSignals
  <2>1. CASE \E sort \in {"entry", "entry_script"} : EntryTest(sort)
    BY <2>1, EntryTestEnds DEF LooksBack
  <2>. QED
    BY <1>1, <2>1, BeginLooksBack, DecideLooksBack DEF TestSignals
<1>2. CASE ~TestSignals
  <2>1. bt' = bt
    BY <1>2 DEF ResearchNext, Record, Fill, TrainSequences, TrainTcn, TrainEntry, Cut, BeginTargets,
       UpdateTargets, ClearFirst, ClearLast, BeginPrediction, SavePredictions, TrainAndServe, rvars
  <2>. QED
    BY <2>1 DEF LooksBack, Rising
<1>. QED
  BY <1>1, <1>2

LEMMA SignalsDoLookBack == TestInv /\ LooksBack => SignalsLookBack
<1>. SUFFICES ASSUME TestInv, LooksBack, bt.kind \in Tests,
                     NEW k \in DOMAIN bt.trades, Aligned(bt, bt.trades[k].entry),
                     NEW s \in Shown(bt.kind, bt.rows, bt.trades[k].entry)
              PROVE  s < bt.rows[bt.trades[k].entry]
  BY DEF SignalsLookBack
<1>1. FirstOf(bt.kind) \in Nat \ {0}
  BY SetsAssumption DEF FirstOf
<1>2. bt \in TestRecords /\ OpenPosition(bt) /\ Traded(bt) /\ bt.last <= Len(bt.rows) /\ Rising(bt.rows)
  BY DEF TestInv, LooksBack
<1>3. bt.rows \in Seq(Nat) /\ bt.trades \in Seq(Positions) /\ bt.last \in Nat /\ bt.at \in Nat
  BY <1>2 DEF TestRecords
<1>4. k \in 1..Len(bt.trades) /\ bt.trades[k] \in Positions
  BY <1>3
<1>. PICK e : e = bt.trades[k].entry
  OBVIOUS
<1>5. e \in 1..Len(bt.rows) /\ FirstOf(bt.kind) <= e
  <2>1. e \in Nat /\ bt.trades[k].exit \in Nat /\ e # 0 /\ FirstOf(bt.kind) <= e
    BY <1>1, <1>4 DEF Positions, LooksBack
  <2>2. Asked(bt, e) <= bt.trades[k].exit /\ bt.trades[k].exit < bt.at /\ bt.at <= bt.last + 1
    BY <1>2, <1>4 DEF Traded, OpenPosition
  <2>3. e <= Asked(bt, e) /\ Asked(bt, e) \in Nat
    BY <2>1, AskedIs
  <2>. PICK asked, exit, at, final, n :
         asked = Asked(bt, e) /\ exit = bt.trades[k].exit /\ at = bt.at /\ final = bt.last
         /\ n = Len(bt.rows)
    OBVIOUS
  <2>4. {asked, exit, at, final, n, e} \subseteq Nat /\ e <= asked /\ asked <= exit
    BY <1>3, <2>1, <2>2, <2>3
  <2>5. exit < at /\ at <= final + 1 /\ final <= n
    BY <1>2, <2>2
  <2>6. e >= 1 /\ e <= n
    BY <2>1, <2>4, <2>5
  <2>. QED
    BY <2>1, <2>4, <2>6
<1>6. PICK i \in 1..Len(bt.rows) : i < e /\ s = bt.rows[i]
  <2>1. Length \in Nat \ {0}
    BY SetsAssumption
  <2>2. e > Length
    BY <1>5, <2>1 DEF Shown, FirstOf
  <2>3. PICK n : n = Len(bt.rows)
    OBVIOUS
  <2>4. n \in Nat /\ e \in 1..n
    BY <1>3, <1>5, <2>3
  <2>5. \A i \in (e - Length)..(e - Length + Length - 1) : i \in 1..n /\ i \in 1..(e - 1) /\ i < e
    BY <2>1, <2>2, <2>4
  <2>6. CASE bt.kind = "tcn"
    <3>1. PICK i \in (e - Length)..(e - Length + Length - 1) : s = bt.rows[i]
      BY <2>2, <2>6 DEF Shown, Slice
    <3>. QED
      BY <2>3, <2>5, <3>1
  <2>7. CASE bt.kind = "tcn_script"
    <3>1. PICK i \in (e - Length)..(e - Length + Length - 1) : s = Vectors[i]
      BY <2>7 DEF Shown, Slice
    <3>2. Vectors[i] = bt.rows[i]
      BY <2>5, <2>7, <3>1 DEF Aligned
    <3>. QED
      BY <2>3, <2>5, <3>1, <3>2
  <2>. QED
    BY <2>6, <2>7 DEF Tests
<1>. QED
  BY <1>2, <1>5, <1>6 DEF Rising

(* The calculations and tasks, and what they have stored.                  *)
TargetJobs ==
  [at : {"update", "first", "last", "done"}, by : {"route", "cli"}, rows : Seq(Nat),
   from : Nat, late : Nat, next : Nat \ {0}]

ValuesOf(rows) == [Length..Len(rows) -> SUBSET Nat]

PredictionJobs ==
  [at : {"save", "done"}, rows : Seq(Nat), next : Nat, late : Nat,
   values : UNION {ValuesOf(rows) : rows \in Seq(Nat)}]

StoredValues == {NoValue} \union [by : Jobs, reads : SUBSET Nat]

JobTypes ==
  /\ job \in [Jobs -> {NoJob} \union TargetJobs \union PredictionJobs]
  /\ target \in Seq(StoredValues) /\ Len(target) = clock
  /\ predicted \in Seq(StoredValues) /\ Len(predicted) = clock
  /\ outrun \subseteq Jobs

LEMMA JobAt ==
  ASSUME NEW k \in {NoJob} \union TargetJobs \union PredictionJobs
  PROVE  /\ k.at = "none" => k = NoJob
         /\ k.at \in {"update", "first", "last"} => k \in TargetJobs
         /\ k.at = "save" => k \in PredictionJobs
         /\ k = NoJob => k.at = "none"
BY DEF TargetJobs, PredictionJobs, NoJob

LEMMA TargetJobIs ==
  ASSUME NEW k \in TargetJobs
  PROVE  /\ k.at \in {"update", "first", "last", "done"} /\ k.by \in {"route", "cli"}
         /\ k.rows \in Seq(Nat) /\ k.from \in Nat /\ k.late \in Nat /\ k.next \in Nat \ {0}
BY DEF TargetJobs

LEMMA PredictionJobIs ==
  ASSUME NEW k \in PredictionJobs
  PROVE  /\ k.at \in {"save", "done"} /\ k.rows \in Seq(Nat) /\ k.next \in Nat /\ k.late \in Nat
         /\ \A i \in DOMAIN k.values : k.values[i] \subseteq Nat
<1>1. PICK rows \in Seq(Nat) : k.values \in ValuesOf(rows)
  BY DEF PredictionJobs
<1>. QED
  BY <1>1 DEF PredictionJobs, ValuesOf

LEMMA TargetJobGoes ==
  ASSUME NEW k \in TargetJobs, NEW at \in {"update", "first", "last", "done"}
  PROVE  LET n == [k EXCEPT !.at = at]
         IN /\ n \in TargetJobs /\ n.at = at
            /\ n.by = k.by /\ n.rows = k.rows /\ n.from = k.from /\ n.late = k.late /\ n.next = k.next
BY DEF TargetJobs

LEMMA TargetJobReads ==
  ASSUME NEW k \in TargetJobs, NEW next \in Nat \ {0}
  PROVE  LET n == [k EXCEPT !.next = next]
         IN /\ n \in TargetJobs /\ n.next = next
            /\ n.by = k.by /\ n.rows = k.rows /\ n.from = k.from /\ n.late = k.late /\ n.at = k.at
BY DEF TargetJobs

LEMMA TargetJobLate ==
  ASSUME NEW k \in TargetJobs
  PROVE  LET n == [k EXCEPT !.late = @ + 1]
         IN /\ n \in TargetJobs /\ n.late = k.late + 1
            /\ n.by = k.by /\ n.rows = k.rows /\ n.from = k.from /\ n.next = k.next /\ n.at = k.at
<1>1. k.late + 1 \in Nat
  BY DEF TargetJobs
<1>. QED
  BY <1>1 DEF TargetJobs

LEMMA PredictionJobLate ==
  ASSUME NEW k \in PredictionJobs
  PROVE  LET n == [k EXCEPT !.late = @ + 1]
         IN n \in PredictionJobs /\ n.rows = k.rows /\ n.values = k.values /\ n.at = k.at
<1>1. k.late + 1 \in Nat
  BY DEF PredictionJobs
<1>. QED
  BY <1>1 DEF PredictionJobs

LEMMA PredictionJobGoes ==
  ASSUME NEW k \in PredictionJobs, NEW at \in {"save", "done"}
  PROVE  LET n == [k EXCEPT !.at = at]
         IN n \in PredictionJobs /\ n.rows = k.rows /\ n.values = k.values /\ n.at = at
BY DEF PredictionJobs

LEMMA PredictionJobReads ==
  ASSUME NEW k \in PredictionJobs, NEW next \in Nat
  PROVE  LET n == [k EXCEPT !.next = next]
         IN n \in PredictionJobs /\ n.rows = k.rows /\ n.values = k.values /\ n.at = k.at
BY DEF PredictionJobs

(* A job as a batch of it leaves it.                                       *)
Advanced(k, at) == [k EXCEPT !.next = @ + Batch, !.at = at]

LEMMA AdvancedTarget ==
  ASSUME NEW k \in TargetJobs, NEW at \in {"update", "first", "last", "done"}
  PROVE  LET n == Advanced(k, at)
         IN n \in TargetJobs /\ n.at = at /\ n.by = k.by /\ n.rows = k.rows /\ n.late = k.late
<1>. DEFINE next == k.next + Batch
            m == [k EXCEPT !.next = next]
<1>1. next \in Nat \ {0}
  BY ResearchAssumption DEF TargetJobs
<1>. HIDE DEF next
<1>2. m \in TargetJobs /\ m.by = k.by /\ m.rows = k.rows /\ m.late = k.late
  BY <1>1, TargetJobReads
<1>. HIDE DEF m
<1>3. LET n == [m EXCEPT !.at = at]
      IN n \in TargetJobs /\ n.at = at /\ n.by = m.by /\ n.rows = m.rows /\ n.late = m.late
  BY <1>2, TargetJobGoes
<1>4. Advanced(k, at) = [m EXCEPT !.at = at]
  BY DEF Advanced, m, next
<1>. QED
  BY <1>2, <1>3, <1>4

LEMMA AdvancedPrediction ==
  ASSUME NEW k \in PredictionJobs, NEW at \in {"save", "done"}
  PROVE  LET n == Advanced(k, at)
         IN n \in PredictionJobs /\ n.at = at /\ n.rows = k.rows /\ n.values = k.values
<1>. DEFINE next == k.next + Batch
            m == [k EXCEPT !.next = next]
<1>1. next \in Nat
  BY ResearchAssumption DEF PredictionJobs
<1>. HIDE DEF next
<1>2. m \in PredictionJobs /\ m.rows = k.rows /\ m.values = k.values
  BY <1>1, PredictionJobReads
<1>. HIDE DEF m
<1>3. LET n == [m EXCEPT !.at = at]
      IN n \in PredictionJobs /\ n.at = at /\ n.rows = m.rows /\ n.values = m.values
  BY <1>2, PredictionJobGoes
<1>4. Advanced(k, at) = [m EXCEPT !.at = at]
  BY DEF Advanced, m, next
<1>. QED
  BY <1>2, <1>3, <1>4

(* What a new candle does to a job.                                        *)
LEMMA ArrivedEffect ==
  ASSUME JobTypes, Arrived, NEW j \in Jobs
  PROVE  /\ job' \in [Jobs -> {NoJob} \union TargetJobs \union PredictionJobs]
         /\ ~Working(j) => job'[j] = job[j]
         /\ Working(j) /\ job[j] \in TargetJobs =>
              /\ job'[j] \in TargetJobs /\ job'[j].late = job[j].late + 1
              /\ job'[j].by = job[j].by /\ job'[j].rows = job[j].rows /\ job'[j].at = job[j].at
         /\ Working(j) /\ job[j] \in PredictionJobs =>
              /\ job'[j] \in PredictionJobs
              /\ job'[j].rows = job[j].rows /\ job'[j].values = job[j].values /\ job'[j].at = job[j].at
<1>1. job \in [Jobs -> {NoJob} \union TargetJobs \union PredictionJobs]
  BY DEF JobTypes
<1>2. job' = [i \in Jobs |-> IF Working(i) THEN [job[i] EXCEPT !.late = @ + 1] ELSE job[i]]
  BY DEF Arrived
<1>3. ASSUME NEW i \in Jobs
      PROVE  /\ ~Working(i) => job'[i] = job[i]
             /\ Working(i) => job'[i] = [job[i] EXCEPT !.late = @ + 1]
             /\ Working(i) => job[i] \in TargetJobs \union PredictionJobs
             /\ job[i] \in {NoJob} \union TargetJobs \union PredictionJobs
  BY <1>1, <1>2 DEF Working, NoJob
<1>4. ASSUME NEW i \in Jobs PROVE job'[i] \in {NoJob} \union TargetJobs \union PredictionJobs
  <2>1. CASE ~Working(i)
    BY <1>3, <2>1
  <2>2. CASE Working(i) /\ job[i] \in TargetJobs
    BY <1>3, <2>2, TargetJobLate
  <2>3. CASE Working(i) /\ job[i] \in PredictionJobs
    BY <1>3, <2>3, PredictionJobLate
  <2>. QED
    BY <1>3, <2>1, <2>2, <2>3
<1>5. job' \in [Jobs -> {NoJob} \union TargetJobs \union PredictionJobs]
  BY <1>2, <1>4
<1>6. ASSUME Working(j), job[j] \in TargetJobs
      PROVE  /\ job'[j] \in TargetJobs /\ job'[j].late = job[j].late + 1
             /\ job'[j].by = job[j].by /\ job'[j].rows = job[j].rows /\ job'[j].at = job[j].at
  BY <1>3, <1>6, TargetJobLate
<1>7. ASSUME Working(j), job[j] \in PredictionJobs
      PROVE  /\ job'[j] \in PredictionJobs
             /\ job'[j].rows = job[j].rows /\ job'[j].values = job[j].values /\ job'[j].at = job[j].at
  BY <1>3, <1>7, PredictionJobLate
<1>. QED
  BY <1>3, <1>5, <1>6, <1>7

LEMMA ShiftIs ==
  /\ Width \in Nat \ {0} /\ Shift \in Nat /\ 2 * Shift <= Width /\ Width <= 2 * Shift + 1
<1>1. Width \in Nat \ {0}
  BY SetsAssumption
<1>. QED
  BY <1>1 DEF Shift

(* What a value smooths are rows of the calculation.                       *)
LEMMA SmoothedSeconds ==
  ASSUME NEW rows \in Seq(Nat), NEW i \in 1..Len(rows)
  PROVE  Smoothed(rows, i) \in SUBSET Nat
<1>0. Len(rows) \in Nat /\ \A k \in 1..Len(rows) : rows[k] \in Nat
  OBVIOUS
<1>1. CASE Width < 2 \/ i <= Shift \/ i > Len(rows) - (Width - 1 - Shift)
  BY <1>0, <1>1 DEF Smoothed, Bare
<1>2. CASE ~(Width < 2 \/ i <= Shift \/ i > Len(rows) - (Width - 1 - Shift))
  <2>1. \A k \in (i - Shift)..(i - Shift + Width - 1) : k \in 1..Len(rows)
    BY <1>0, <1>2, ShiftIs
  <2>2. Smoothed(rows, i) = Slice(rows, i - Shift, Width)
    BY <1>2 DEF Smoothed
  <2>. QED
    BY <1>0, <2>1, <2>2 DEF Slice
<1>. QED
  BY <1>1, <1>2

(* A table of values, one for each second, some of them replaced.          *)
LEMMA StoresAll ==
  ASSUME NEW f, clock \in Nat, NEW g, f = [t \in 1..clock |-> g[t]],
         \A t \in 1..clock : g[t] \in StoredValues
  PROVE  f \in Seq(StoredValues) /\ Len(f) = clock
<1>1. f \in [1..clock -> StoredValues]
  OBVIOUS
<1>. QED
  BY <1>1

LEMMA StoredIs ==
  ASSUME NEW f \in Seq(StoredValues), Len(f) = clock
  PROVE  /\ DOMAIN f = 1..clock
         /\ \A t \in 1..clock : f[t] \in StoredValues
OBVIOUS

LEMMA BatchOf ==
  ASSUME NEW batch, NEW rows, NEW t, \E i \in batch : rows[i] = t
  PROVE  LET i == CHOOSE i \in batch : rows[i] = t IN i \in batch /\ rows[i] = t
OBVIOUS

LEMMA UpdateMoves ==
  ASSUME JobTypes, clock \in Nat, NEW j \in Jobs, UpdateTargets(j)
  PROVE  /\ job[j] \in TargetJobs /\ job[j].at = "update"
         /\ \E at \in {"update", "first", "done"} :
              /\ job' = [job EXCEPT ![j] = Advanced(job[j], at)]
              /\ job[j].by = "route" => at # "done"
         /\ \A t \in 1..clock :
              \/ target'[t] = target[t]
              \/ \E i \in 1..Len(job[j].rows) :
                   /\ job[j].rows[i] = t
                   /\ target'[t] = [by |-> j, reads |-> Smoothed(job[j].rows, i)]
         /\ target' \in Seq(StoredValues) /\ Len(target') = clock
<1>. DEFINE k == job[j]
            batch == {i \in k.next..(k.next + Batch - 1) : i <= Len(k.rows) /\ k.rows[i] >= k.from}
            of(t) == CHOOSE i \in batch : k.rows[i] = t
            at == IF k.next + Batch <= Len(k.rows) THEN "update"
                  ELSE IF k.by = "cli" THEN "done" ELSE "first"
<1>1. /\ job \in [Jobs -> {NoJob} \union TargetJobs \union PredictionJobs]
      /\ k.at = "update"
      /\ target' = [t \in 1..clock |-> IF \E i \in batch : k.rows[i] = t
                                         THEN [by |-> j, reads |-> Smoothed(k.rows, of(t))]
                                         ELSE target[t]]
      /\ job' = [job EXCEPT ![j].next = @ + Batch, ![j].at = at]
  BY DEF UpdateTargets, JobTypes
<1>2. k \in TargetJobs
  BY <1>1, JobAt
<1>3. job' = [job EXCEPT ![j] = Advanced(k, at)]
  BY <1>1 DEF Advanced
<1>4. at \in {"update", "first", "done"} /\ (k.by = "route" => at # "done")
  OBVIOUS
<1>5. k.rows \in Seq(Nat) /\ Len(k.rows) \in Nat /\ k.next \in Nat \ {0}
  BY <1>2, TargetJobIs
<1>6. batch \subseteq 1..Len(k.rows)
  BY <1>5, ResearchAssumption
<1>7. DOMAIN target = 1..clock /\ \A t \in 1..clock : target[t] \in StoredValues
  BY DEF JobTypes
<1>. HIDE DEF batch, at
<1>8. ASSUME NEW t \in 1..clock, \E i \in batch : k.rows[i] = t
      PROVE  of(t) \in 1..Len(k.rows) /\ k.rows[of(t)] = t
  BY <1>6, <1>8, BatchOf
<1>. HIDE DEF of
<1>9. ASSUME NEW t \in 1..clock, \E i \in batch : k.rows[i] = t
      PROVE  [by |-> j, reads |-> Smoothed(k.rows, of(t))] \in StoredValues
  <2>1. Smoothed(k.rows, of(t)) \in SUBSET Nat
    BY <1>5, <1>8, <1>9, SmoothedSeconds
  <2>. QED
    BY <2>1 DEF StoredValues
<1>10. \A t \in 1..clock :
         target'[t] = IF \E i \in batch : k.rows[i] = t
                        THEN [by |-> j, reads |-> Smoothed(k.rows, of(t))] ELSE target[t]
  BY <1>1
<1>11. \A t \in 1..clock :
         \/ target'[t] = target[t]
         \/ \E i \in 1..Len(k.rows) :
              k.rows[i] = t /\ target'[t] = [by |-> j, reads |-> Smoothed(k.rows, i)]
  BY <1>8, <1>10
<1>12. target' \in Seq(StoredValues) /\ Len(target') = clock
  <2>1. ASSUME NEW t \in 1..clock PROVE target'[t] \in StoredValues
    <3>1. CASE \E i \in batch : k.rows[i] = t
      <4>1. target'[t] = [by |-> j, reads |-> Smoothed(k.rows, of(t))]
        BY <1>10, <3>1
      <4>2. [by |-> j, reads |-> Smoothed(k.rows, of(t))] \in StoredValues
        BY <1>9, <3>1
      <4>. QED
        BY <4>1, <4>2, Zenon
    <3>2. CASE ~\E i \in batch : k.rows[i] = t
      BY <1>7, <1>10, <3>2
    <3>. QED
      BY <3>1, <3>2
  <2>2. target' \in [1..clock -> StoredValues]
    BY <1>1, <2>1
  <2>. QED
    BY <2>2
<1>. QED
  BY <1>1, <1>2, <1>3, <1>4, <1>11, <1>12

LEMMA GotoMoves ==
  ASSUME JobTypes, NEW j \in Jobs, job[j].at \in {"first", "last"},
         NEW at \in {"last", "done"}, Goto(j, at)
  PROVE  /\ job[j] \in TargetJobs
         /\ job' = [job EXCEPT ![j] = [job[j] EXCEPT !.at = at]]
BY JobAt DEF JobTypes, Goto

LEMMA ClearMoves ==
  ASSUME JobTypes, clock \in Nat, NEW S, Clear(S)
  PROVE  /\ target' \in Seq(StoredValues) /\ Len(target') = clock
         /\ \A t \in 1..clock : target'[t] = IF t \in S THEN NoValue ELSE target[t]
<1>1. DOMAIN target = 1..clock /\ \A t \in 1..clock : target[t] \in StoredValues
  BY DEF JobTypes
<1>2. target' = [t \in 1..clock |-> IF t \in S THEN NoValue ELSE target[t]]
  BY DEF Clear
<1>3. target' \in [1..clock -> StoredValues]
  BY <1>1, <1>2 DEF StoredValues
<1>. QED
  BY <1>2, <1>3

LEMMA BeginTargetsMoves ==
  ASSUME JobTypes, WorldTypes, NEW j \in Jobs, BeginTargets(j)
  PROVE  \E n \in TargetJobs :
           /\ job[j] = NoJob /\ job' = [job EXCEPT ![j] = n]
           /\ n.at = "update" /\ n.rows = Ordered(Candles) /\ n.late = 0
<1>1. PICK by \in {"route", "cli"}, from \in {1, clock} :
        job' = [job EXCEPT ![j] = [at |-> "update", by |-> by, rows |-> Ordered(Candles),
                                   from |-> from, late |-> 0,
                                   next |-> IF by = "route" THEN 1
                                            ELSE 1 + Cardinality({t \in Candles : t < from})]]
  BY DEF BeginTargets
<1>. DEFINE earlier == {t \in Candles : t < from}
            next == IF by = "route" THEN 1 ELSE 1 + Cardinality(earlier)
            n == [at |-> "update", by |-> by, rows |-> Ordered(Candles), from |-> from, late |-> 0,
                  next |-> next]
<1>2. Cardinality(earlier) \in Nat
  <2>1. earlier \subseteq 1..clock
    BY CandlesAre
  <2>. HIDE DEF earlier
  <2>. QED
    BY <2>1, SecondsFinite, FS_CardinalityType
<1>3. next \in Nat \ {0}
  BY <1>2
<1>4. Ordered(Candles) \in Seq(Nat)
  BY CandlesAre, OrderedLength
<1>5. from \in Nat
  BY DEF WorldTypes
<1>6. job' = [job EXCEPT ![j] = n] /\ job[j] = NoJob
  BY <1>1 DEF BeginTargets
<1>. HIDE DEF next
<1>7. n \in TargetJobs
  BY <1>3, <1>4, <1>5 DEF TargetJobs
<1>. QED
  BY <1>6, <1>7

(* A prediction is made of seconds up to that of its row.                  *)
UpTo(rows, values) ==
  \A i \in DOMAIN values : i \in 1..Len(rows) /\ \A s \in values[i] : s <= rows[i]

LEMMA PredictionsLookBack ==
  ASSUME WorldTypes
  PROVE  LET values == [i \in DOMAIN Predictions |-> Averaged(Predictions, i)]
         IN values \in ValuesOf(Vectors) /\ UpTo(Vectors, values)
<1>. PICK rows : rows = Vectors
  OBVIOUS
<1>1. /\ rows \in Seq(Nat) /\ Len(rows) \in Nat /\ Rising(rows)
      /\ \A k \in 1..Len(rows) : rows[k] \in Nat
  <2>. DEFINE S == {t \in vector : t < Latest}
  <2>1. S \subseteq Nat /\ IsFiniteSet(S) /\ rows = Ordered(S)
    BY VectorsFacts
  <2>. HIDE DEF S
  <2>2. rows \in Seq(Nat) /\ Len(rows) \in Nat /\ Rising(rows)
    BY <2>1, OrderedFacts DEF Rising
  <2>. QED
    BY <2>2
<1>2. Length \in Nat \ {0} /\ Ensemble \in Nat \ {0}
  BY SetsAssumption, ResearchAssumption
<1>3. Predictions = [i \in Length..Len(rows) |-> Slice(rows, i - Length + 1, Length)]
  BY DEF Predictions
<1>4. DOMAIN Predictions = Length..Len(rows)
  BY <1>3
<1>5. ASSUME NEW i \in Length..Len(rows), NEW s \in Predictions[i]
      PROVE  s \in Nat /\ s <= rows[i]
  <2>1. s \in Slice(rows, i - Length + 1, Length)
    BY <1>3, <1>5
  <2>2. PICK k \in (i - Length + 1)..(i - Length + 1 + Length - 1) : s = rows[k]
    BY <2>1 DEF Slice
  <2>3. k \in 1..Len(rows) /\ i \in 1..Len(rows) /\ k <= i
    BY <1>1, <1>2, <2>2
  <2>4. k < i => rows[k] < rows[i]
    BY <1>1, <2>3 DEF Rising
  <2>5. rows[k] \in Nat /\ rows[i] \in Nat
    BY <1>1, <2>3
  <2>6. CASE k = i
    BY <2>2, <2>5, <2>6
  <2>7. CASE k < i
    BY <2>2, <2>4, <2>5, <2>7
  <2>. QED
    BY <1>1, <2>3, <2>6, <2>7
<1>6. ASSUME NEW i \in Length..Len(rows), NEW s \in Averaged(Predictions, i)
      PROVE  s \in Nat /\ s <= rows[i]
  <2>1. CASE Cardinality(DOMAIN Predictions) < Ensemble
    <3>1. Averaged(Predictions, i) = Predictions[i]
      BY <2>1 DEF Averaged
    <3>. QED
      BY <1>5, <1>6, <3>1
  <2>2. CASE ~(Cardinality(DOMAIN Predictions) < Ensemble)
    <3>1. PICK k \in Max({Length, i - Ensemble + 1})..i : s \in Predictions[k]
      BY <1>6, <2>2 DEF Averaged
    <3>2. Max({Length, i - Ensemble + 1}) = IF Length <= i - Ensemble + 1 THEN i - Ensemble + 1 ELSE Length
      <4>1. i - Ensemble + 1 \in Int /\ Length \in Int
        BY <1>1, <1>2
      <4>. QED
        BY <4>1, MinOfTwo
    <3>3. k \in Length..Len(rows) /\ k <= i
      BY <1>1, <1>2, <3>2
    <3>4. s \in Nat /\ s <= rows[k]
      BY <1>5, <3>1, <3>3
    <3>5. k < i => rows[k] < rows[i]
      BY <1>1, <1>2, <3>3 DEF Rising
    <3>6. k \in 1..Len(rows) /\ i \in 1..Len(rows)
      BY <1>1, <1>2, <3>3
    <3>7. rows[k] \in Nat /\ rows[i] \in Nat
      BY <1>1, <3>6
    <3>8. k = i => s <= rows[i]
      BY <3>4
    <3>. QED
      BY <1>1, <3>3, <3>4, <3>5, <3>6, <3>7, <3>8
  <2>. QED
    BY <2>1, <2>2
<1>. DEFINE values == [i \in DOMAIN Predictions |-> Averaged(Predictions, i)]
<1>7. DOMAIN values = Length..Len(rows) /\ \A i \in Length..Len(rows) : values[i] = Averaged(Predictions, i)
  BY <1>4
<1>8. values \in [Length..Len(rows) -> SUBSET Nat]
  BY <1>4, <1>6
<1>9. UpTo(rows, values)
  BY <1>1, <1>2, <1>6, <1>7 DEF UpTo
<1>. QED
  BY <1>8, <1>9 DEF ValuesOf

LEMMA BeginPredictionMoves ==
  ASSUME JobTypes, WorldTypes, NEW j \in Jobs, BeginPrediction(j)
  PROVE  \E n \in PredictionJobs :
           job[j] = NoJob /\ job' = [job EXCEPT ![j] = n] /\ UpTo(n.rows, n.values)
<1>. DEFINE values == [i \in DOMAIN Predictions |-> Averaged(Predictions, i)]
            n == [at |-> "save", rows |-> Vectors, next |-> Length, late |-> 0, values |-> values]
<1>1. job[j] = NoJob /\ job' = [job EXCEPT ![j] = n]
  BY DEF BeginPrediction
<1>2. values \in ValuesOf(Vectors) /\ UpTo(Vectors, values)
  BY PredictionsLookBack
<1>. HIDE DEF values
<1>3. Vectors \in Seq(Nat)
  BY VectorsFacts, OrderedLength
<1>4. n \in PredictionJobs
  BY <1>2, <1>3, SetsAssumption DEF PredictionJobs
<1>. QED
  BY <1>1, <1>2, <1>4

LEMMA SaveMoves ==
  ASSUME JobTypes, clock \in Nat, NEW j \in Jobs, SavePredictions(j), UpTo(job[j].rows, job[j].values)
  PROVE  /\ job[j] \in PredictionJobs
         /\ \E at \in {"save", "done"} : job' = [job EXCEPT ![j] = Advanced(job[j], at)]
         /\ \A t \in 1..clock : predicted'[t] = predicted[t] \/ \A s \in predicted'[t].reads : s <= t
         /\ predicted' \in Seq(StoredValues) /\ Len(predicted') = clock
<1>. DEFINE k == job[j]
            batch == {i \in DOMAIN k.values : k.next <= i /\ i < k.next + Batch}
            of(t) == CHOOSE i \in batch : k.rows[i] = t
            at == IF k.next + Batch <= Len(k.rows) THEN "save" ELSE "done"
            stores(t) == t \in Candles /\ \E i \in batch : k.rows[i] = t
<1>1. /\ job \in [Jobs -> {NoJob} \union TargetJobs \union PredictionJobs]
      /\ k.at = "save"
      /\ predicted' = [t \in 1..clock |-> IF stores(t) THEN [by |-> j, reads |-> k.values[of(t)]]
                                          ELSE predicted[t]]
      /\ job' = [job EXCEPT ![j].next = @ + Batch, ![j].at = at]
  BY DEF SavePredictions, JobTypes
<1>2. k \in PredictionJobs
  BY <1>1, JobAt
<1>3. job' = [job EXCEPT ![j] = Advanced(k, at)]
  BY <1>1 DEF Advanced
<1>4. at \in {"save", "done"}
  OBVIOUS
<1>5. \A i \in DOMAIN k.values : k.values[i] \subseteq Nat
  BY <1>2, PredictionJobIs
<1>6. batch \subseteq DOMAIN k.values
  OBVIOUS
<1>7. DOMAIN predicted = 1..clock /\ \A t \in 1..clock : predicted[t] \in StoredValues
  BY DEF JobTypes
<1>. HIDE DEF batch, at
<1>8. ASSUME NEW t \in 1..clock, stores(t)
      PROVE  of(t) \in DOMAIN k.values /\ k.rows[of(t)] = t
  BY <1>6, <1>8, BatchOf
<1>. HIDE DEF of
<1>9. ASSUME NEW t \in 1..clock, stores(t)
      PROVE  /\ k.values[of(t)] \in SUBSET Nat
             /\ \A s \in k.values[of(t)] : s <= t
  BY <1>5, <1>8, <1>9 DEF UpTo
<1>10. \A t \in 1..clock :
         predicted'[t] = IF stores(t) THEN [by |-> j, reads |-> k.values[of(t)]] ELSE predicted[t]
  BY <1>1
<1>. HIDE DEF stores
<1>11. ASSUME NEW t \in 1..clock
       PROVE  /\ predicted'[t] \in StoredValues
              /\ predicted'[t] = predicted[t] \/ \A s \in predicted'[t].reads : s <= t
  <2>1. CASE stores(t)
    <3>1. predicted'[t] = [by |-> j, reads |-> k.values[of(t)]]
      BY <1>10, <2>1
    <3>2. predicted'[t].reads = k.values[of(t)]
      BY <3>1
    <3>3. predicted'[t] \in StoredValues
      BY <1>9, <2>1, <3>1 DEF StoredValues
    <3>. QED
      BY <1>9, <2>1, <3>2, <3>3
  <2>2. CASE ~stores(t)
    BY <1>7, <1>10, <2>2
  <2>. QED
    BY <2>1, <2>2
<1>12. predicted' \in [1..clock -> StoredValues]
  BY <1>1, <1>11
<1>13. Len(predicted') = clock /\ predicted' \in Seq(StoredValues)
  BY <1>12
<1>14. \E a \in {"save", "done"} : job' = [job EXCEPT ![j] = Advanced(k, a)]
  BY <1>3, <1>4
<1>15. \A t \in 1..clock : predicted'[t] = predicted[t] \/ \A s \in predicted'[t].reads : s <= t
  BY <1>11
<1>. QED
  BY <1>2, <1>13, <1>14, <1>15

LEMMA JobTypesInit == ResearchInit => JobTypes
BY DEF ResearchInit, JobTypes

(* A second is recorded: the tables get a row, without a value.            *)
LEMMA RecordMoves ==
  ASSUME JobTypes, WorldTypes, Record
  PROVE  /\ clock' = clock + 1 /\ outrun' = outrun /\ clock \in Nat
         /\ job' = job \/ Arrived
         /\ target' \in Seq(StoredValues) /\ Len(target') = clock'
         /\ predicted' \in Seq(StoredValues) /\ Len(predicted') = clock'
         /\ \A t \in 1..clock : target'[t] = target[t] /\ predicted'[t] = predicted[t]
         /\ target'[clock'] = NoValue /\ predicted'[clock'] = NoValue
<1>1. /\ clock' = clock + 1 /\ outrun' = outrun /\ (job' = job \/ Arrived)
      /\ target' = Append(target, NoValue) /\ predicted' = Append(predicted, NoValue)
  BY DEF Record
<1>2. NoValue \in StoredValues
  BY DEF StoredValues
<1>3. ASSUME NEW f \in Seq(StoredValues), Len(f) = clock
      PROVE  LET g == Append(f, NoValue)
             IN /\ g \in Seq(StoredValues) /\ Len(g) = clock + 1
                /\ \A t \in 1..clock : g[t] = f[t]
                /\ g[clock + 1] = NoValue
  BY <1>2, <1>3
<1>. QED
  BY <1>1, <1>3 DEF JobTypes, WorldTypes

JobsTyped == job \in [Jobs -> {NoJob} \union TargetJobs \union PredictionJobs]

LEMMA ReplacedJob ==
  ASSUME JobTypes, NEW j \in Jobs, NEW n, n \in TargetJobs \union PredictionJobs,
         job' = [job EXCEPT ![j] = n]
  PROVE  /\ JobsTyped' /\ job'[j] = n
         /\ \A i \in Jobs : i # j => job'[i] = job[i]
BY DEF JobTypes, JobsTyped

LEMMA JobTypesKept ==
  ASSUME JobTypes, WorldTypes, [ResearchNext]_rvars,
         \A j \in Jobs : job[j].at = "save" => UpTo(job[j].rows, job[j].values)
  PROVE  JobTypes'
<1>0. clock \in Nat
  BY DEF WorldTypes
<1>1. CASE Record
  <2>1. CASE job' = job
    BY <1>1, <2>1, RecordMoves DEF JobTypes
  <2>2. CASE Arrived
    <3>1. JobsTyped'
      <4>1. CASE Jobs = {}
        BY <2>2, <4>1 DEF Arrived, JobsTyped
      <4>2. CASE Jobs # {}
        BY <2>2, <4>2, ArrivedEffect DEF JobsTyped
      <4>. QED
        BY <4>1, <4>2
    <3>. QED
      BY <1>1, <3>1, RecordMoves DEF JobTypes, JobsTyped
  <2>. QED
    BY <1>1, <2>1, <2>2, RecordMoves
<1>2. CASE Fill
  <2>1. Arrived /\ UNCHANGED <<clock, target, predicted, outrun>> /\ \E j \in Jobs : Working(j)
    BY <1>2 DEF Fill
  <2>2. JobsTyped'
    BY <2>1, ArrivedEffect DEF JobsTyped
  <2>. QED
    BY <2>1, <2>2 DEF JobTypes, JobsTyped
<1>3. ASSUME NEW j \in Jobs, BeginTargets(j) PROVE JobTypes'
  <2>1. UNCHANGED <<clock, target, predicted, outrun>>
    BY <1>3 DEF BeginTargets, world
  <2>2. JobsTyped'
    BY <1>3, BeginTargetsMoves, ReplacedJob
  <2>. QED
    BY <2>1, <2>2 DEF JobTypes, JobsTyped
<1>4. ASSUME NEW j \in Jobs, UpdateTargets(j) PROVE JobTypes'
  <2>1. UNCHANGED <<clock, predicted, outrun>>
    BY <1>4 DEF UpdateTargets, world
  <2>2. JobsTyped'
    BY <1>0, <1>4, UpdateMoves, AdvancedTarget, ReplacedJob
  <2>3. target' \in Seq(StoredValues) /\ Len(target') = clock
    BY <1>0, <1>4, UpdateMoves
  <2>. QED
    BY <2>1, <2>2, <2>3 DEF JobTypes, JobsTyped
<1>5. ASSUME NEW j \in Jobs, ClearFirst(j) \/ ClearLast(j) PROVE JobTypes'
  <2>1. /\ UNCHANGED <<clock, predicted>> /\ outrun' \in {outrun, outrun \union {j}}
        /\ job[j].at \in {"first", "last"} /\ (\E at \in {"last", "done"} : Goto(j, at))
        /\ \E S : Clear(S)
    BY <1>5 DEF ClearFirst, ClearLast, world
  <2>2. JobsTyped'
    BY <2>1, GotoMoves, TargetJobGoes, ReplacedJob
  <2>3. target' \in Seq(StoredValues) /\ Len(target') = clock
    BY <1>0, <2>1, ClearMoves
  <2>. QED
    BY <2>1, <2>2, <2>3 DEF JobTypes, JobsTyped
<1>6. ASSUME NEW j \in Jobs, BeginPrediction(j) PROVE JobTypes'
  <2>1. UNCHANGED <<clock, target, predicted, outrun>>
    BY <1>6 DEF BeginPrediction, world
  <2>2. JobsTyped'
    BY <1>6, BeginPredictionMoves, ReplacedJob
  <2>. QED
    BY <2>1, <2>2 DEF JobTypes, JobsTyped
<1>7. ASSUME NEW j \in Jobs, SavePredictions(j) PROVE JobTypes'
  <2>1. UNCHANGED <<clock, target, outrun>> /\ job[j].at = "save"
    BY <1>7 DEF SavePredictions, world
  <2>2. UpTo(job[j].rows, job[j].values)
    BY <2>1
  <2>3. JobsTyped'
    BY <1>0, <1>7, <2>2, SaveMoves, AdvancedPrediction, ReplacedJob
  <2>4. predicted' \in Seq(StoredValues) /\ Len(predicted') = clock
    BY <1>0, <1>7, <2>2, SaveMoves
  <2>. QED
    BY <2>1, <2>3, <2>4 DEF JobTypes, JobsTyped
<1>8. ASSUME UNCHANGED <<clock, jvars>> PROVE JobTypes'
  BY <1>8 DEF JobTypes, jvars
<1>9. TrainSequences \/ TrainTcn \/ TrainEntry \/ TestSignals \/ TrainAndServe \/ UNCHANGED rvars
        => UNCHANGED <<clock, jvars>>
  BY DEF TrainSequences, TrainTcn, TrainEntry, Cut, TestSignals, TrainAndServe, rvars, world, jvars
<1>. QED
  BY <1>1, <1>2, <1>3, <1>4, <1>5, <1>6, <1>7, <1>8, <1>9 DEF ResearchNext

(* Tasks and stored predictions look back.                                 *)
PredictionsAreOld ==
  /\ \A j \in Jobs : job[j].at = "save" => UpTo(job[j].rows, job[j].values)
  /\ \A t \in 1..clock : predicted[t] # NoValue => \A s \in predicted[t].reads : s <= t

LEMMA PredictionsAreOldKept ==
  ASSUME JobTypes, WorldTypes, PredictionsAreOld, [ResearchNext]_rvars
  PROVE  PredictionsAreOld'
<1>. DEFINE Old(j) == job[j].at = "save" => UpTo(job[j].rows, job[j].values)
<1>0. clock \in Nat /\ \A j \in Jobs : job[j] \in {NoJob} \union TargetJobs \union PredictionJobs
  BY DEF WorldTypes, JobTypes
<1>a. ASSUME Arrived, NEW j \in Jobs PROVE Old(j)'
  <2>1. CASE ~Working(j)
    BY <1>a, <2>1, ArrivedEffect DEF PredictionsAreOld
  <2>2. CASE Working(j) /\ job[j] \in TargetJobs
    <3>1. job'[j].at = job[j].at /\ job[j].at # "save"
      BY <1>a, <2>2, ArrivedEffect, TargetJobIs
    <3>. QED
      BY <3>1
  <2>3. CASE Working(j) /\ job[j] \in PredictionJobs
    <3>1. job'[j].rows = job[j].rows /\ job'[j].values = job[j].values /\ job'[j].at = job[j].at
      BY <1>a, <2>3, ArrivedEffect
    <3>. QED
      BY <3>1 DEF PredictionsAreOld
  <2>. QED
    BY <1>0, <2>1, <2>2, <2>3, JobAt DEF Working
<1>b. ASSUME NEW j \in Jobs, NEW n \in TargetJobs \union PredictionJobs, job' = [job EXCEPT ![j] = n],
             n.at = "save" => UpTo(n.rows, n.values)
      PROVE  \A i \in Jobs : Old(i)'
  <2>1. job'[j] = n /\ \A i \in Jobs : i # j => job'[i] = job[i]
    BY <1>b, ReplacedJob
  <2>. QED
    BY <1>b, <2>1 DEF PredictionsAreOld
<1>c. ASSUME \A j \in Jobs : Old(j)', UNCHANGED <<clock, predicted>> PROVE PredictionsAreOld'
  BY <1>c DEF PredictionsAreOld
<1>d. ASSUME job' = job PROVE \A j \in Jobs : Old(j)'
  BY <1>d DEF PredictionsAreOld
<1>1. CASE Record
  <2>1. \A j \in Jobs : Old(j)'
    BY <1>1, <1>a, <1>d DEF Record
  <2>2. \A t \in 1..clock' : predicted'[t] # NoValue => \A s \in predicted'[t].reads : s <= t
    BY <1>1, RecordMoves DEF PredictionsAreOld
  <2>. QED
    BY <2>1, <2>2 DEF PredictionsAreOld
<1>2. CASE Fill
  BY <1>2, <1>a, <1>c DEF Fill
<1>3. ASSUME NEW j \in Jobs, BeginTargets(j) PROVE PredictionsAreOld'
  <2>1. PICK n \in TargetJobs : job' = [job EXCEPT ![j] = n] /\ n.at = "update"
    BY <1>3, BeginTargetsMoves
  <2>. QED
    BY <1>3, <1>b, <1>c, <2>1 DEF BeginTargets, world
<1>4. ASSUME NEW j \in Jobs, UpdateTargets(j) PROVE PredictionsAreOld'
  <2>1. PICK at \in {"update", "first", "done"} : job' = [job EXCEPT ![j] = Advanced(job[j], at)]
    BY <1>0, <1>4, UpdateMoves
  <2>2. Advanced(job[j], at) \in TargetJobs /\ Advanced(job[j], at).at # "save"
    BY <1>0, <1>4, UpdateMoves, AdvancedTarget
  <2>3. \A i \in Jobs : Old(i)'
    BY <1>b, <2>1, <2>2
  <2>. QED
    BY <1>4, <1>c, <2>3 DEF UpdateTargets, world
<1>5. ASSUME NEW j \in Jobs, ClearFirst(j) \/ ClearLast(j) PROVE PredictionsAreOld'
  <2>1. PICK at \in {"last", "done"} : Goto(j, at) /\ job[j].at \in {"first", "last"}
    BY <1>5 DEF ClearFirst, ClearLast
  <2>. PICK n : n = [job[j] EXCEPT !.at = at]
    OBVIOUS
  <2>2. job' = [job EXCEPT ![j] = n] /\ n \in TargetJobs /\ n.at # "save"
    BY <2>1, GotoMoves, TargetJobGoes
  <2>3. \A i \in Jobs : Old(i)'
    BY <1>b, <2>2
  <2>. QED
    BY <1>5, <1>c, <2>3 DEF ClearFirst, ClearLast, world
<1>6. ASSUME NEW j \in Jobs, BeginPrediction(j) PROVE PredictionsAreOld'
  <2>1. PICK n \in PredictionJobs : job' = [job EXCEPT ![j] = n] /\ UpTo(n.rows, n.values)
    BY <1>6, BeginPredictionMoves
  <2>2. \A i \in Jobs : Old(i)'
    BY <1>b, <2>1
  <2>. QED
    BY <1>6, <1>c, <2>2 DEF BeginPrediction, world
<1>7. ASSUME NEW j \in Jobs, SavePredictions(j) PROVE PredictionsAreOld'
  <2>1. job[j].at = "save" /\ UpTo(job[j].rows, job[j].values) /\ clock' = clock
    BY <1>7 DEF SavePredictions, world, PredictionsAreOld
  <2>2. PICK at \in {"save", "done"} : job' = [job EXCEPT ![j] = Advanced(job[j], at)]
    BY <1>0, <1>7, <2>1, SaveMoves
  <2>. PICK n : n = Advanced(job[j], at)
    OBVIOUS
  <2>3. n \in PredictionJobs /\ n.rows = job[j].rows /\ n.values = job[j].values
    BY <1>0, <1>7, <2>1, SaveMoves, AdvancedPrediction
  <2>4. \A i \in Jobs : Old(i)'
    BY <1>b, <2>1, <2>2, <2>3
  <2>5. \A t \in 1..clock : predicted'[t] = predicted[t] \/ \A s \in predicted'[t].reads : s <= t
    BY <1>0, <1>7, <2>1, SaveMoves
  <2>. QED
    BY <2>1, <2>4, <2>5 DEF PredictionsAreOld
<1>8. ASSUME UNCHANGED <<clock, jvars>> PROVE PredictionsAreOld'
  BY <1>8, <1>c, <1>d DEF jvars
<1>9. TrainSequences \/ TrainTcn \/ TrainEntry \/ TestSignals \/ TrainAndServe \/ UNCHANGED rvars
        => UNCHANGED <<clock, jvars>>
  BY DEF TrainSequences, TrainTcn, TrainEntry, Cut, TestSignals, TrainAndServe, rvars, world, jvars
<1>. QED
  BY <1>1, <1>2, <1>3, <1>4, <1>5, <1>6, <1>7, <1>8, <1>9 DEF ResearchNext

(* What holds while predictions are stored and signals tested.             *)
LookingBackInv == BacktestInv /\ LooksBack /\ JobTypes /\ PredictionsAreOld

LEMMA LookingBackInvHolds == ResearchSpec => []LookingBackInv
<1>1. ResearchInit => LookingBackInv
  <2>. SUFFICES ASSUME ResearchInit PROVE LookingBackInv
    OBVIOUS
  <2>1. BacktestInv /\ JobTypes
    BY WorldTypesInit, JobTypesInit DEF BacktestInv, ResearchInit, TestInv, NoTest, Tests
  <2>2. LooksBack
    BY DEF ResearchInit, LooksBack, NoTest, Tests
  <2>3. PredictionsAreOld
    BY DEF ResearchInit, PredictionsAreOld, NoJob
  <2>. QED
    BY <2>1, <2>2, <2>3 DEF LookingBackInv
<1>2. LookingBackInv /\ [ResearchNext]_rvars => LookingBackInv'
  <2>. SUFFICES ASSUME LookingBackInv, [ResearchNext]_rvars PROVE LookingBackInv'
    OBVIOUS
  <2>1. study \in Studies /\ WorldTypes /\ TestInv /\ LooksBack /\ JobTypes /\ PredictionsAreOld
    BY DEF LookingBackInv, BacktestInv
  <2>2. BacktestInv'
    BY <2>1, WorldTypesKept, TestInvKept DEF BacktestInv
  <2>3. LooksBack' /\ PredictionsAreOld'
    BY <2>1, LooksBackKept, PredictionsAreOldKept
  <2>4. JobTypes'
    BY <2>1, JobTypesKept DEF PredictionsAreOld
  <2>. QED
    BY <2>2, <2>3, <2>4 DEF LookingBackInv
<1>. QED
  BY <1>1, <1>2, PTL DEF ResearchSpec

(* NothingLooksAhead (_run_prediction_and_save, the backtest routes): a    *)
(* stored prediction, and what a position was opened on, was recorded no   *)
(* later than the second it stands for.                                    *)
THEOREM NothingEverLooksAhead == ResearchSpec => []NothingLooksAhead
<1>1. LookingBackInv => NothingLooksAhead
  <2>. SUFFICES ASSUME LookingBackInv PROVE NothingLooksAhead
    OBVIOUS
  <2>1. SignalsLookBack
    BY SignalsDoLookBack DEF LookingBackInv, BacktestInv
  <2>2. DOMAIN predicted = 1..clock
    BY DEF LookingBackInv, JobTypes
  <2>. QED
    BY <2>1, <2>2 DEF NothingLooksAhead, LookingBackInv, PredictionsAreOld
<1>. QED
  BY <1>1, LookingBackInvHolds, PTL

-----------------------------------------------------------------------------
(* Target values.                                                          *)
(* As many seconds as rows: rows in order are all different.               *)
LEMMA SliceCardinality ==
  ASSUME NEW rows \in Seq(Nat), Rising(rows), NEW a \in Nat \ {0}, NEW n \in Nat,
         a + n - 1 <= Len(rows)
  PROVE  IsFiniteSet(Slice(rows, a, n)) /\ Cardinality(Slice(rows, a, n)) = n
<1>. DEFINE f == [k \in a..(a + n - 1) |-> rows[k]]
            T == Slice(rows, a, n)
<1>1. \A k \in a..(a + n - 1) : k \in 1..Len(rows) /\ rows[k] \in Nat
  OBVIOUS
<1>2. ASSUME NEW i \in a..(a + n - 1), NEW k \in a..(a + n - 1), f[i] = f[k] PROVE i = k
  <2>1. rows[i] = rows[k] /\ i \in 1..Len(rows) /\ k \in 1..Len(rows) /\ rows[i] \in Nat
    BY <1>1, <1>2
  <2>2. (i < k => rows[i] < rows[k]) /\ (k < i => rows[k] < rows[i])
    BY <2>1 DEF Rising
  <2>3. ~(i < k) /\ ~(k < i)
    BY <2>1, <2>2
  <2>. QED
    BY <2>3
<1>3. f \in Surjection(a..(a + n - 1), T)
  <2>1. f \in [a..(a + n - 1) -> T] /\ \A t \in T : \E k \in a..(a + n - 1) : f[k] = t
    BY DEF Slice
  <2>. QED
    BY <2>1 DEF Surjection
<1>4. f \in Injection(a..(a + n - 1), T)
  <2>1. f \in [a..(a + n - 1) -> T]
    BY DEF Slice
  <2>. QED
    BY <1>2, <2>1 DEF Injection, IsInjective
<1>5. IsFiniteSet(a..(a + n - 1)) /\ Cardinality(a..(a + n - 1)) = n
  <2>. PICK b : b = a + n - 1
    OBVIOUS
  <2>1. a \in Int /\ b \in Int /\ (IF a > b THEN 0 ELSE b - a + 1) = n
    OBVIOUS
  <2>2. IsFiniteSet(a..b) /\ Cardinality(a..b) = IF a > b THEN 0 ELSE b - a + 1
    BY <2>1, FS_Interval
  <2>. QED
    BY <2>1, <2>2
<1>. HIDE DEF f, T
<1>6. IsFiniteSet(T) /\ Cardinality(T) = n
  BY <1>3, <1>4, <1>5, FS_Surjection
<1>. QED
  BY <1>6 DEF T

(* Rows whose window would reach beyond what was read keep the close.      *)
AtEdge(rows, i) == i <= Shift \/ i > Len(rows) - (Width - 1 - Shift)

LEMMA SmoothedWhole ==
  ASSUME NEW rows \in Seq(Nat), Rising(rows), NEW i \in 1..Len(rows), Width < 2 \/ ~AtEdge(rows, i)
  PROVE  Cardinality(Smoothed(rows, i)) = Width
<1>1. CASE Width < 2
  <2>1. Smoothed(rows, i) = {rows[i]} /\ Width = 1
    BY <1>1, ShiftIs DEF Smoothed, Bare
  <2>. QED
    BY <2>1, FS_Singleton
<1>2. CASE ~(Width < 2)
  <2>1. Smoothed(rows, i) = Slice(rows, i - Shift, Width)
    BY <1>2 DEF Smoothed, AtEdge
  <2>2. i - Shift \in Nat \ {0} /\ i - Shift + Width - 1 <= Len(rows)
    BY <1>2, ShiftIs DEF AtEdge
  <2>. QED
    BY <2>1, <2>2, ShiftIs, SliceCardinality
<1>. QED
  BY <1>1, <1>2

(* One candle more.                                                        *)
LEMMA CandleMore ==
  ASSUME NEW S, S \subseteq Nat, IsFiniteSet(S), NEW c \in Nat, c \notin S
  PROVE  LET T == S \union {c}
         IN /\ Cardinality(T) = Cardinality(S) + 1
            /\ \A t \in S : Rank(T, t) \in {Rank(S, t), Rank(S, t) + 1}
<1>. DEFINE T == S \union {c}
<1>1. Cardinality(T) = Cardinality(S) + 1
  BY FS_AddElement
<1>2. ASSUME NEW t \in S PROVE Rank(T, t) \in {Rank(S, t), Rank(S, t) + 1}
  <2>. DEFINE U == {s \in S : s <= t}
              V == {s \in T : s <= t}
  <2>1. IsFiniteSet(U)
    <3>1. U \in SUBSET S
      OBVIOUS
    <3>. QED
      BY <3>1, FS_Subset
  <2>2. V = IF c <= t THEN U \union {c} ELSE U
    OBVIOUS
  <2>3. c \notin U
    OBVIOUS
  <2>4. Cardinality(U \union {c}) = Cardinality(U) + 1
    BY <2>1, <2>3, FS_AddElement
  <2>5. Rank(T, t) = Cardinality(V) /\ Rank(S, t) = Cardinality(U)
    BY DEF Rank
  <2>. HIDE DEF U, V
  <2>. QED
    BY <2>2, <2>4, <2>5
<1>. QED
  BY <1>1, <1>2

(* What the pipeline or a gap job adds to the candles.                     *)
LEMMA RecordCandles ==
  ASSUME WorldTypes, study \in Studies, Record
  PROVE  \/ Candles' = Candles /\ job' = job
         \/ clock' \notin Candles /\ clock' \in Nat /\ Candles' = Candles \union {clock'} /\ Arrived
<1>. PICK s \in Seconds[study] :
       /\ clock' = clock + 1 /\ close' = Append(close, s[1])
       /\ IF s[1] = 0 THEN job' = job ELSE Arrived
  BY DEF Record
<1>1. s[1] \in Nat
  BY SecondsOfStudy
<1>2. clock \in Nat /\ close \in Seq(Nat) /\ Len(close) = clock
  BY DEF WorldTypes
<1>3. (\A t \in 1..clock : close'[t] = close[t]) /\ close'[clock'] = s[1]
  BY <1>1, <1>2
<1>4. 1..clock' = (1..clock) \union {clock'} /\ clock' \notin 1..clock
  BY <1>2
<1>5. \A t \in 1..clock' : t \in Candles' <=> close'[t] # 0
  BY DEF Candles
<1>6. \A t \in 1..clock : t \in Candles' <=> t \in Candles
  BY <1>3, <1>4, <1>5 DEF Candles
<1>7. clock' \in Candles' <=> s[1] # 0
  BY <1>3, <1>4, <1>5
<1>8. Candles \subseteq 1..clock /\ Candles' \subseteq 1..clock'
  BY DEF Candles
<1>9. CASE s[1] = 0
  <2>1. Candles' = Candles
    BY <1>4, <1>6, <1>7, <1>8, <1>9
  <2>. QED
    BY <1>9, <2>1
<1>10. CASE s[1] # 0
  <2>1. Candles' = Candles \union {clock'}
    BY <1>4, <1>6, <1>7, <1>8, <1>10
  <2>2. clock' \notin Candles /\ clock' \in Nat
    BY <1>2, <1>4, <1>8
  <2>. QED
    BY <1>10, <2>1, <2>2
<1>. QED
  BY <1>9, <1>10

LEMMA FillCandles ==
  ASSUME WorldTypes, study \in Studies, Fill
  PROVE  \E c \in 1..clock : c \notin Candles /\ Candles' = Candles \union {c}
<1>. PICK c \in 1..clock, s \in Seconds[study] :
       close[c] = 0 /\ s[1] # 0 /\ close' = [close EXCEPT ![c] = s[1]]
  BY DEF Fill
<1>1. clock' = clock /\ clock \in Nat /\ close \in Seq(Nat) /\ Len(close) = clock
  BY DEF Fill, WorldTypes
<1>2. close'[c] = s[1] /\ \A t \in 1..clock : t # c => close'[t] = close[t]
  BY <1>1
<1>3. \A t \in 1..clock : t \in Candles' <=> close'[t] # 0
  BY <1>1 DEF Candles
<1>4. Candles \subseteq 1..clock /\ Candles' \subseteq 1..clock
  BY <1>1 DEF Candles
<1>5. Candles' = Candles \union {c}
  BY <1>2, <1>3, <1>4 DEF Candles
<1>6. c \notin Candles
  BY DEF Candles
<1>. QED
  BY <1>5, <1>6

(* What the clears take away, by rank.                                     *)
LEMMA ClearedFirst ==
  ASSUME WorldTypes, NEW t \in Candles,
         LET rows == Ordered(Candles) IN t \notin {rows[i] : i \in 1..Min({Width, Len(rows)})}
  PROVE  Rank(Candles, t) > Width
<1>1. Candles \subseteq 1..clock /\ Candles \subseteq Nat /\ IsFiniteSet(Candles)
  BY CandlesAre, SecondsFinite
<1>. PICK rows : rows = Ordered(Candles)
  OBVIOUS
<1>2. Len(rows) \in Nat /\ Rank(Candles, t) \in 1..Len(rows) /\ rows[Rank(Candles, t)] = t
  BY <1>1, OrderedFacts
<1>3. Min({Width, Len(rows)}) = IF Width <= Len(rows) THEN Width ELSE Len(rows)
  <2>1. Width \in Int /\ Len(rows) \in Int
    BY <1>2, ShiftIs
  <2>. QED
    BY <2>1, MinOfTwo, Zenon
<1>4. Rank(Candles, t) \notin 1..Min({Width, Len(rows)})
  BY <1>2
<1>. QED
  BY <1>2, <1>3, <1>4, ShiftIs

LEMMA ClearedLast ==
  ASSUME WorldTypes, NEW t \in Candles,
         LET rows == Ordered(Candles)
         IN t \notin {rows[i] : i \in Max({1, Len(rows) - Width + 1})..Len(rows)}
  PROVE  Rank(Candles, t) <= Cardinality(Candles) - Width
<1>1. Candles \subseteq 1..clock /\ Candles \subseteq Nat /\ IsFiniteSet(Candles)
  BY CandlesAre, SecondsFinite
<1>. PICK rows : rows = Ordered(Candles)
  OBVIOUS
<1>2. /\ Len(rows) \in Nat /\ Rank(Candles, t) \in 1..Len(rows) /\ rows[Rank(Candles, t)] = t
      /\ Len(rows) = Cardinality(Candles)
  BY <1>1, OrderedFacts
<1>3. Max({1, Len(rows) - Width + 1}) = IF 1 <= Len(rows) - Width + 1 THEN Len(rows) - Width + 1 ELSE 1
  <2>. PICK a : a = 1
    OBVIOUS
  <2>. PICK b : b = Len(rows) - Width + 1
    OBVIOUS
  <2>1. a \in Int /\ b \in Int
    BY <1>2, ShiftIs
  <2>2. Max({a, b}) = IF a <= b THEN b ELSE a
    BY <2>1, MinOfTwo, Zenon
  <2>. QED
    BY <2>2
<1>4. Rank(Candles, t) \notin Max({1, Len(rows) - Width + 1})..Len(rows)
  BY <1>2
<1>. QED
  BY <1>2, <1>3, <1>4, ShiftIs

(* What a calculation read are candles still, and there are at most as     *)
(* many more as it knows of: the i-th of its rows has at most `late` more  *)
(* candles up to it.                                                       *)
ReadsCandles(k) ==
  /\ Rising(k.rows)
  /\ \A i \in 1..Len(k.rows) :
       /\ k.rows[i] \in Candles
       /\ i <= Rank(Candles, k.rows[i]) /\ Rank(Candles, k.rows[i]) <= i + k.late
  /\ Cardinality(Candles) <= Len(k.rows) + k.late

Calculating(k) == k.at \in {"update", "first", "last"}

CalculationsRead == \A j \in Jobs : Calculating(job[j]) => ReadsCandles(job[j])

LEMMA ReadsCandlesByValue ==
  ASSUME NEW k, NEW n, n.rows = k.rows, n.late = k.late, ReadsCandles(k)
  PROVE  ReadsCandles(n)
BY DEF ReadsCandles

LEMMA CandlesFinite ==
  ASSUME WorldTypes
  PROVE  /\ Candles \subseteq Nat /\ IsFiniteSet(Candles) /\ Cardinality(Candles) \in Nat
         /\ \A t \in Int : Rank(Candles, t) \in Nat
<1>1. Candles \subseteq Nat /\ IsFiniteSet(Candles)
  BY CandlesAre, SecondsFinite
<1>2. Cardinality(Candles) \in Nat /\ \A t \in Int : Rank(Candles, t) \in 0..Cardinality(Candles)
  BY <1>1, RankFacts
<1>. QED
  BY <1>1, <1>2

(* A candle more, and the calculation knows of one more.                   *)
LEMMA ReadsOneMore ==
  ASSUME WorldTypes, NEW k \in TargetJobs, NEW n \in TargetJobs, ReadsCandles(k),
         n.rows = k.rows, n.late = k.late + 1,
         NEW c \in Nat, c \notin Candles, Candles' = Candles \union {c}
  PROVE  ReadsCandles(n)'
<1>1. Candles \subseteq Nat /\ IsFiniteSet(Candles) /\ Cardinality(Candles) \in Nat
  BY CandlesFinite
<1>2. /\ Cardinality(Candles') = Cardinality(Candles) + 1
      /\ \A t \in Candles : Rank(Candles', t) \in {Rank(Candles, t), Rank(Candles, t) + 1}
  BY <1>1, CandleMore
<1>3. k.rows \in Seq(Nat) /\ Len(k.rows) \in Nat /\ k.late \in Nat
  BY TargetJobIs
<1>4. ASSUME NEW i \in 1..Len(k.rows)
      PROVE  /\ k.rows[i] \in Candles'
             /\ i <= Rank(Candles', k.rows[i]) /\ Rank(Candles', k.rows[i]) <= i + n.late
  <2>1. k.rows[i] \in Candles /\ i <= Rank(Candles, k.rows[i]) /\ Rank(Candles, k.rows[i]) <= i + k.late
    BY DEF ReadsCandles
  <2>2. Rank(Candles, k.rows[i]) \in Nat
    <3>1. k.rows[i] \in Int
      BY <1>3
    <3>. QED
      BY <3>1, CandlesFinite
  <2>3. Rank(Candles', k.rows[i]) \in {Rank(Candles, k.rows[i]), Rank(Candles, k.rows[i]) + 1}
    BY <1>2, <2>1
  <2>. QED
    BY <1>3, <2>1, <2>2, <2>3
<1>5. Cardinality(Candles') <= Len(k.rows) + n.late
  <2>1. Cardinality(Candles) <= Len(k.rows) + k.late
    BY DEF ReadsCandles
  <2>. QED
    BY <1>1, <1>2, <1>3, <2>1
<1>6. Rising(k.rows)
  BY DEF ReadsCandles
<1>7. Rising(n.rows)'
  BY <1>6 DEF Rising
<1>8. \A i \in 1..Len(n.rows) :
        /\ n.rows[i] \in Candles'
        /\ i <= Rank(Candles', n.rows[i]) /\ Rank(Candles', n.rows[i]) <= i + n.late
  BY <1>4
<1>9. Cardinality(Candles') <= Len(n.rows) + n.late
  BY <1>5
<1>. QED
  BY <1>7, <1>8, <1>9 DEF ReadsCandles, Rank

LEMMA ReadsNow ==
  ASSUME WorldTypes, NEW n \in TargetJobs, n.rows = Ordered(Candles), n.late = 0
  PROVE  ReadsCandles(n)
<1>1. Candles \subseteq Nat /\ IsFiniteSet(Candles) /\ Cardinality(Candles) \in Nat
  BY CandlesFinite
<1>. PICK rows : rows = Ordered(Candles)
  OBVIOUS
<1>2. /\ rows \in Seq(Nat) /\ Len(rows) = Cardinality(Candles)
      /\ \A i \in 1..Len(rows) : rows[i] \in Candles /\ Rank(Candles, rows[i]) = i
      /\ \A i, j \in 1..Len(rows) : i < j <=> rows[i] < rows[j]
  BY <1>1, OrderedFacts
<1>. QED
  BY <1>1, <1>2 DEF ReadsCandles, Rising

LEMMA ReadsThen ==
  ASSUME NEW j, NEW n, n = job'[j], ReadsCandles(n)'
  PROVE  ReadsCandles(job[j])'
BY DEF ReadsCandles, Rising

(* An arrival, as one or all calculations see it.                          *)
LEMMA ArrivalsKnown ==
  ASSUME JobTypes, WorldTypes, CalculationsRead, Arrived,
         NEW c \in Nat, c \notin Candles, Candles' = Candles \union {c}
  PROVE  CalculationsRead'
<1>. SUFFICES ASSUME NEW j \in Jobs, Calculating(job'[j]) PROVE ReadsCandles(job[j])'
  BY DEF CalculationsRead, Calculating
<1>1. job[j] \in {NoJob} \union TargetJobs \union PredictionJobs
  BY DEF JobTypes
<1>2. CASE ~Working(j)
  <2>1. job'[j] = job[j]
    BY <1>2, ArrivedEffect
  <2>. QED
    BY <1>2, <2>1 DEF Working, Calculating
<1>3. CASE Working(j) /\ job[j] \in TargetJobs
  <2>1. /\ job'[j] \in TargetJobs /\ job'[j].late = job[j].late + 1
        /\ job'[j].rows = job[j].rows /\ job'[j].at = job[j].at
    BY <1>3, ArrivedEffect
  <2>2. ReadsCandles(job[j])
    BY <2>1 DEF Calculating, CalculationsRead
  <2>. PICK k \in TargetJobs, n \in TargetJobs : k = job[j] /\ n = job'[j]
    BY <1>3, <2>1
  <2>3. ReadsCandles(n)'
    BY <2>1, <2>2, ReadsOneMore
  <2>. QED
    BY <2>3, ReadsThen
<1>4. CASE Working(j) /\ job[j] \in PredictionJobs
  <2>1. job'[j].at = job[j].at
    BY <1>4, ArrivedEffect
  <2>. QED
    BY <1>4, <2>1, PredictionJobIs DEF Calculating
<1>. QED
  BY <1>1, <1>2, <1>3, <1>4 DEF Working, NoJob

LEMMA ReadsCandlesStill ==
  ASSUME NEW k, world' = world, ReadsCandles(k)
  PROVE  ReadsCandles(k)'
BY DEF ReadsCandles, Rising, Candles, Rank, world

LEMMA OneCalculates ==
  ASSUME JobTypes, CalculationsRead, world' = world, NEW j \in Jobs,
         NEW n \in TargetJobs \union PredictionJobs, job' = [job EXCEPT ![j] = n],
         Calculating(n) => ReadsCandles(n)
  PROVE  CalculationsRead'
<1>. SUFFICES ASSUME NEW i \in Jobs, Calculating(job'[i]) PROVE ReadsCandles(job[i])'
  BY DEF CalculationsRead, Calculating
<1>1. job'[j] = n /\ (i # j => job'[i] = job[i])
  BY ReplacedJob
<1>. PICK k : k = job'[i]
  OBVIOUS
<1>2. ReadsCandles(k)
  BY <1>1 DEF CalculationsRead
<1>. QED
  BY <1>2, ReadsCandlesStill, ReadsThen

LEMMA CalculationsReadKept ==
  ASSUME JobTypes, WorldTypes, study \in Studies, CalculationsRead, PredictionsAreOld,
         [ResearchNext]_rvars
  PROVE  CalculationsRead'
<1>0. clock \in Nat
  BY DEF WorldTypes
<1>a. ASSUME UNCHANGED <<world, job>> PROVE CalculationsRead'
  <2>. SUFFICES ASSUME NEW i \in Jobs, Calculating(job[i]) PROVE ReadsCandles(job[i])'
    BY <1>a DEF CalculationsRead, Calculating
  <2>. PICK k : k = job'[i]
    OBVIOUS
  <2>1. ReadsCandles(k)
    BY <1>a DEF CalculationsRead
  <2>. QED
    BY <1>a, <2>1, ReadsCandlesStill, ReadsThen
<1>1. CASE Record
  <2>1. CASE Candles' = Candles /\ job' = job
    BY <2>1 DEF CalculationsRead, Calculating, ReadsCandles, Rising, Rank
  <2>. QED
    BY <1>1, <2>1, RecordCandles, ArrivalsKnown
<1>2. CASE Fill
  <2>1. Arrived
    BY <1>2 DEF Fill
  <2>2. PICK c \in 1..clock : c \notin Candles /\ Candles' = Candles \union {c}
    BY <1>2, FillCandles
  <2>3. c \in Nat
    BY <1>0
  <2>. QED
    BY <2>1, <2>2, <2>3, ArrivalsKnown
<1>3. ASSUME NEW j \in Jobs, BeginTargets(j) PROVE CalculationsRead'
  <2>1. PICK n \in TargetJobs :
          job' = [job EXCEPT ![j] = n] /\ n.rows = Ordered(Candles) /\ n.late = 0
    BY <1>3, BeginTargetsMoves
  <2>2. world' = world
    BY <1>3 DEF BeginTargets
  <2>. QED
    BY <2>1, <2>2, ReadsNow, OneCalculates
<1>4. ASSUME NEW j \in Jobs, UpdateTargets(j) PROVE CalculationsRead'
  <2>1. PICK at \in {"update", "first", "done"} : job' = [job EXCEPT ![j] = Advanced(job[j], at)]
    BY <1>0, <1>4, UpdateMoves
  <2>. PICK n : n = Advanced(job[j], at)
    OBVIOUS
  <2>2. /\ job[j] \in TargetJobs /\ job[j].at = "update"
        /\ n \in TargetJobs /\ n.rows = job[j].rows /\ n.late = job[j].late
    BY <1>0, <1>4, UpdateMoves, AdvancedTarget
  <2>3. ReadsCandles(n)
    BY <2>2, ReadsCandlesByValue DEF CalculationsRead, Calculating
  <2>4. world' = world
    BY <1>4 DEF UpdateTargets
  <2>. QED
    BY <2>1, <2>2, <2>3, <2>4, OneCalculates
<1>5. ASSUME NEW j \in Jobs, ClearFirst(j) \/ ClearLast(j) PROVE CalculationsRead'
  <2>1. PICK at \in {"last", "done"} : Goto(j, at) /\ job[j].at \in {"first", "last"} /\ world' = world
    BY <1>5 DEF ClearFirst, ClearLast
  <2>. PICK n : n = [job[j] EXCEPT !.at = at]
    OBVIOUS
  <2>2. /\ job' = [job EXCEPT ![j] = n] /\ n \in TargetJobs
        /\ n.rows = job[j].rows /\ n.late = job[j].late
    <3>1. job[j] \in TargetJobs /\ job' = [job EXCEPT ![j] = n]
      BY <2>1, GotoMoves
    <3>2. at \in {"update", "first", "last", "done"}
      OBVIOUS
    <3>3. n \in TargetJobs /\ n.rows = job[j].rows /\ n.late = job[j].late
      BY <3>1, <3>2, TargetJobGoes, Zenon
    <3>. QED
      BY <3>1, <3>3
  <2>3. ReadsCandles(n)
    BY <2>1, <2>2, ReadsCandlesByValue DEF CalculationsRead, Calculating
  <2>. QED
    BY <2>1, <2>2, <2>3, OneCalculates
<1>6. ASSUME NEW j \in Jobs, BeginPrediction(j) PROVE CalculationsRead'
  <2>1. PICK n \in PredictionJobs : job' = [job EXCEPT ![j] = n]
    BY <1>6, BeginPredictionMoves
  <2>2. world' = world /\ ~Calculating(n)
    BY <1>6, PredictionJobIs DEF BeginPrediction, Calculating
  <2>. QED
    BY <2>1, <2>2, OneCalculates
<1>7. ASSUME NEW j \in Jobs, SavePredictions(j) PROVE CalculationsRead'
  <2>1. job[j].at = "save" /\ UpTo(job[j].rows, job[j].values) /\ world' = world
    BY <1>7 DEF SavePredictions, PredictionsAreOld
  <2>2. PICK at \in {"save", "done"} : job' = [job EXCEPT ![j] = Advanced(job[j], at)]
    BY <1>0, <1>7, <2>1, SaveMoves
  <2>. PICK n : n = Advanced(job[j], at)
    OBVIOUS
  <2>3. n \in PredictionJobs
    BY <1>0, <1>7, <2>1, SaveMoves, AdvancedPrediction
  <2>4. ~Calculating(n)
    BY <2>3, PredictionJobIs DEF Calculating
  <2>. QED
    BY <2>1, <2>2, <2>3, <2>4, OneCalculates
<1>9. TrainSequences \/ TrainTcn \/ TrainEntry \/ TestSignals \/ TrainAndServe \/ UNCHANGED rvars
        => UNCHANGED <<world, job>>
  BY DEF TrainSequences, TrainTcn, TrainEntry, Cut, TestSignals, TrainAndServe, rvars, jvars
<1>. QED
  BY <1>1, <1>2, <1>3, <1>4, <1>5, <1>6, <1>7, <1>9, <1>a DEF ResearchNext

(* A value v that a calculation k left at second t: one of its rows, and   *)
(* what the clears that are behind it have left; `over` says that it was   *)
(* outrun.                                                                 *)
StandsIn(k, v, t, over) ==
  /\ k \in TargetJobs
  /\ k.by = "route" =>
       \E i \in 1..Len(k.rows) :
         /\ k.rows[i] = t /\ v.reads = Smoothed(k.rows, i)
         /\ k.at = "last" /\ k.late <= Width - Shift => Width < 2 \/ i > Shift
         /\ k.at = "done" /\ ~over => Cardinality(v.reads) = Width

ValuesStand ==
  \A t \in 1..clock :
    target[t] # NoValue =>
      target[t].by \in Jobs
      /\ StandsIn(job[target[t].by], target[t], t, target[t].by \in outrun)

LEMMA StandsLater ==
  ASSUME NEW k \in TargetJobs, NEW n \in TargetJobs, NEW v, NEW t, NEW over,
         StandsIn(k, v, t, over), n.by = k.by, n.rows = k.rows, n.at = k.at, n.late = k.late + 1
  PROVE  StandsIn(n, v, t, over)
<1>1. k.late \in Nat /\ Width - Shift \in Int
  BY TargetJobIs, ShiftIs
<1>2. n.late <= Width - Shift => k.late <= Width - Shift
  BY <1>1
<1>. QED
  BY <1>2 DEF StandsIn

LEMMA StandsWritten ==
  ASSUME NEW n \in TargetJobs, NEW v, NEW t, NEW over, NEW i \in 1..Len(n.rows),
         n.rows[i] = t, v.reads = Smoothed(n.rows, i),
         n.by = "route" => n.at \in {"update", "first"}
  PROVE  StandsIn(n, v, t, over)
BY DEF StandsIn

LEMMA StandsUpdated ==
  ASSUME NEW k \in TargetJobs, NEW n \in TargetJobs, NEW v, NEW t, NEW over, NEW now,
         StandsIn(k, v, t, over), n.by = k.by, n.rows = k.rows,
         n.by = "route" => n.at \in {"update", "first"}
  PROVE  StandsIn(n, v, t, now)
BY DEF StandsIn

LEMMA StandsCleared ==
  ASSUME WorldTypes, NEW k \in TargetJobs, NEW n \in TargetJobs, NEW v, NEW t, NEW over,
         StandsIn(k, v, t, over), n.by = k.by, n.rows = k.rows, n.late = k.late, n.at = "last",
         ReadsCandles(k),
         t \in Candles => Rank(Candles, t) > Width
  PROVE  StandsIn(n, v, t, over)
<1>. SUFFICES ASSUME k.by = "route",
                     NEW i \in 1..Len(k.rows), k.rows[i] = t, v.reads = Smoothed(k.rows, i),
                     k.late <= Width - Shift
              PROVE  i > Shift
  BY DEF StandsIn
<1>1. t \in Candles /\ Rank(Candles, t) <= i + k.late
  BY DEF ReadsCandles
<1>2. Rank(Candles, t) > Width /\ Rank(Candles, t) \in Nat
  BY <1>1, CandlesFinite
<1>3. k.late \in Nat /\ i \in Nat
  BY TargetJobIs
<1>. QED
  BY <1>1, <1>2, <1>3, ShiftIs

LEMMA StandsWhole ==
  ASSUME WorldTypes, NEW k \in TargetJobs, NEW n \in TargetJobs, NEW v, NEW t, NEW over, NEW now,
         StandsIn(k, v, t, over), k.at = "last",
         n.by = k.by, n.rows = k.rows, n.late = k.late, n.at = "done",
         ReadsCandles(k), ~now => k.late <= Width - Shift,
         t \in Candles => Rank(Candles, t) <= Cardinality(Candles) - Width
  PROVE  StandsIn(n, v, t, now)
<1>1. CASE n.by # "route"
  BY <1>1 DEF StandsIn
<1>2. CASE n.by = "route"
  <2>1. PICK i \in 1..Len(k.rows) :
          /\ k.rows[i] = t /\ v.reads = Smoothed(k.rows, i)
          /\ k.late <= Width - Shift => Width < 2 \/ i > Shift
    BY <1>2 DEF StandsIn
  <2>2. ASSUME ~now PROVE Cardinality(v.reads) = Width
    <3>1. k.late <= Width - Shift /\ k.late \in Nat /\ i \in Nat /\ Len(k.rows) \in Nat
      BY <2>2, TargetJobIs
    <3>2. t \in Candles /\ i <= Rank(Candles, t) /\ Cardinality(Candles) <= Len(k.rows) + k.late
      BY <2>1 DEF ReadsCandles
    <3>3. Rank(Candles, t) <= Cardinality(Candles) - Width
      BY <3>2
    <3>4. Rank(Candles, t) \in Nat /\ Cardinality(Candles) \in Nat
      BY <3>2, CandlesFinite
    <3>5. ~(i > Len(k.rows) - (Width - 1 - Shift))
      BY <3>1, <3>2, <3>3, <3>4, ShiftIs
    <3>6. Width < 2 \/ ~AtEdge(k.rows, i)
      BY <2>1, <3>1, <3>5, ShiftIs DEF AtEdge
    <3>7. k.rows \in Seq(Nat) /\ Rising(k.rows)
      BY TargetJobIs DEF ReadsCandles
    <3>8. Cardinality(Smoothed(k.rows, i)) = Width
      BY <3>6, <3>7, SmoothedWhole
    <3>. QED
      BY <2>1, <3>8
  <2>. QED
    BY <2>1, <2>2 DEF StandsIn
<1>. QED
  BY <1>1, <1>2

(* One calculation moves on: each value is gone, another's, or stands.     *)
LEMMA OneStands ==
  ASSUME JobTypes, ValuesStand, clock' = clock, NEW j \in Jobs,
         NEW n \in TargetJobs \union PredictionJobs, job' = [job EXCEPT ![j] = n],
         outrun' \in {outrun, outrun \union {j}},
         \A t \in 1..clock :
           target'[t] # NoValue =>
             \/ target'[t] = target[t] /\ target[t].by # j
             \/ target'[t].by = j /\ StandsIn(n, target'[t], t, j \in outrun')
  PROVE  ValuesStand'
<1>. SUFFICES ASSUME NEW t \in 1..clock, target'[t] # NoValue
              PROVE  target'[t].by \in Jobs
                     /\ StandsIn(job[target[t].by], target[t], t, target[t].by \in outrun)'
  BY DEF ValuesStand
<1>1. job'[j] = n /\ \A i \in Jobs : i # j => job'[i] = job[i]
  BY ReplacedJob
<1>. PICK v, k, over : v = target'[t] /\ k = job'[v.by] /\ over = (v.by \in outrun')
  OBVIOUS
<1>2. v.by \in Jobs /\ StandsIn(k, v, t, over)
  <2>1. CASE target'[t] = target[t] /\ target[t].by # j
    <3>1. v = target[t] /\ v.by \in Jobs /\ StandsIn(job[v.by], v, t, v.by \in outrun)
      BY <2>1 DEF ValuesStand
    <3>2. k = job[v.by] /\ over = (v.by \in outrun)
      BY <1>1, <2>1, <3>1
    <3>. QED
      BY <3>1, <3>2
  <2>2. CASE target'[t].by = j /\ StandsIn(n, target'[t], t, j \in outrun')
    BY <1>1, <2>2
  <2>. QED
    BY <2>1, <2>2
<1>. QED
  BY <1>2 DEF StandsIn

(* A candle arrives: what stands goes on standing.                         *)
LEMMA ArrivalStands ==
  ASSUME JobTypes, ValuesStand, job' = job \/ Arrived, outrun' = outrun,
         NEW t \in 1..clock, target'[t] = target[t], target[t] # NoValue
  PROVE  target'[t].by \in Jobs
         /\ StandsIn(job[target[t].by], target[t], t, target[t].by \in outrun)'
<1>. PICK v, k, over : v = target[t] /\ k = job[v.by] /\ over = (v.by \in outrun)
  OBVIOUS
<1>1. v.by \in Jobs /\ StandsIn(k, v, t, over)
  BY DEF ValuesStand
<1>. PICK n : n = job'[v.by]
  OBVIOUS
<1>2. StandsIn(n, v, t, over)
  <2>1. CASE n = k
    BY <1>1, <2>1
  <2>2. CASE n # k
    <3>1. Arrived /\ Working(v.by) /\ k \in TargetJobs
      BY <1>1, <2>2, ArrivedEffect DEF StandsIn
    <3>2. n \in TargetJobs /\ n.by = k.by /\ n.rows = k.rows /\ n.at = k.at /\ n.late = k.late + 1
      BY <1>1, <3>1, ArrivedEffect
    <3>. QED
      BY <1>1, <3>1, <3>2, StandsLater
  <2>. QED
    BY <2>1, <2>2
<1>. QED
  BY <1>1, <1>2 DEF StandsIn

LEMMA ValuesStandKept ==
  ASSUME JobTypes, WorldTypes, study \in Studies, CalculationsRead, PredictionsAreOld, ValuesStand,
         [ResearchNext]_rvars
  PROVE  ValuesStand'
<1>0. clock \in Nat /\ \A i \in Jobs : job[i] \in {NoJob} \union TargetJobs \union PredictionJobs
  BY DEF WorldTypes, JobTypes
<1>a. ASSUME UNCHANGED <<clock, job, target, outrun>> PROVE ValuesStand'
  BY <1>a DEF ValuesStand, StandsIn
<1>b. ASSUME NEW j \in Jobs, job[j] \notin TargetJobs, NEW t \in 1..clock, target[t] # NoValue
      PROVE  target[t].by # j
  BY <1>b DEF ValuesStand, StandsIn
<1>1. CASE Record
  <2>. SUFFICES ASSUME NEW t \in 1..clock', target'[t] # NoValue
                PROVE  target'[t].by \in Jobs
                       /\ StandsIn(job[target[t].by], target[t], t, target[t].by \in outrun)'
    BY DEF ValuesStand
  <2>1. t \in 1..clock /\ target'[t] = target[t] /\ outrun' = outrun /\ (job' = job \/ Arrived)
    BY <1>1, RecordMoves
  <2>. QED
    BY <2>1, ArrivalStands
<1>2. CASE Fill
  <2>1. Arrived /\ UNCHANGED <<clock, target, outrun>>
    BY <1>2 DEF Fill
  <2>. SUFFICES ASSUME NEW t \in 1..clock, target'[t] # NoValue
                PROVE  target'[t].by \in Jobs
                       /\ StandsIn(job[target[t].by], target[t], t, target[t].by \in outrun)'
    BY <2>1 DEF ValuesStand
  <2>. QED
    BY <2>1, ArrivalStands
<1>3. ASSUME NEW j \in Jobs, BeginTargets(j) PROVE ValuesStand'
  <2>1. PICK n \in TargetJobs : job[j] = NoJob /\ job' = [job EXCEPT ![j] = n]
    BY <1>3, BeginTargetsMoves
  <2>2. UNCHANGED <<clock, target, outrun>>
    BY <1>3 DEF BeginTargets, world
  <2>3. job[j] \notin TargetJobs
    BY <2>1, TargetJobIs DEF NoJob
  <2>4. \A t \in 1..clock : target'[t] # NoValue => target'[t] = target[t] /\ target[t].by # j
    BY <1>b, <2>2, <2>3
  <2>. QED
    BY <2>1, <2>2, <2>4, OneStands
<1>4. ASSUME NEW j \in Jobs, UpdateTargets(j) PROVE ValuesStand'
  <2>1. PICK at \in {"update", "first", "done"} :
          /\ job' = [job EXCEPT ![j] = Advanced(job[j], at)]
          /\ job[j].by = "route" => at # "done"
    BY <1>0, <1>4, UpdateMoves
  <2>. PICK k, n : k = job[j] /\ n = Advanced(job[j], at)
    OBVIOUS
  <2>2. k \in TargetJobs /\ k.at = "update"
    BY <1>0, <1>4, UpdateMoves
  <2>3. n \in TargetJobs /\ n.at = at /\ n.by = k.by /\ n.rows = k.rows
    BY <2>2, AdvancedTarget
  <2>4. n.by = "route" => n.at \in {"update", "first"}
    BY <2>1, <2>3
  <2>5. UNCHANGED <<clock, outrun>>
    BY <1>4 DEF UpdateTargets, world
  <2>6. ASSUME NEW t \in 1..clock, target'[t] # NoValue
        PROVE  \/ target'[t] = target[t] /\ target[t].by # j
               \/ target'[t].by = j /\ StandsIn(n, target'[t], t, j \in outrun')
    <3>1. CASE target'[t] = target[t]
      <4>1. CASE target[t].by = j
        <5>1. StandsIn(k, target[t], t, j \in outrun)
          BY <2>6, <3>1, <4>1 DEF ValuesStand
        <5>. PICK v, over : v = target[t] /\ over = (j \in outrun)
          OBVIOUS
        <5>2. StandsIn(n, v, t, over)
          BY <2>2, <2>3, <2>4, <5>1, StandsUpdated
        <5>. QED
          BY <2>5, <3>1, <4>1, <5>2
      <4>. QED
        BY <3>1, <4>1
    <3>2. CASE target'[t] # target[t]
      <4>1. PICK i \in 1..Len(k.rows) :
              k.rows[i] = t /\ target'[t] = [by |-> j, reads |-> Smoothed(k.rows, i)]
        BY <1>0, <1>4, <3>2, UpdateMoves
      <4>. PICK v, over : v = target'[t] /\ over = (j \in outrun')
        OBVIOUS
      <4>2. v.by = j /\ v.reads = Smoothed(k.rows, i)
        BY <4>1
      <4>3. StandsIn(n, v, t, over)
        BY <2>3, <2>4, <4>1, <4>2, StandsWritten
      <4>. QED
        BY <4>2, <4>3
    <3>. QED
      BY <3>1, <3>2
  <2>. QED
    BY <2>1, <2>3, <2>5, <2>6, OneStands
<1>5. ASSUME NEW j \in Jobs, ClearFirst(j) PROVE ValuesStand'
  <2>. PICK rows : rows = Ordered(Candles)
    OBVIOUS
  <2>1. /\ job[j].at = "first" /\ Clear({rows[i] : i \in 1..Min({Width, Len(rows)})}) /\ Goto(j, "last")
        /\ UNCHANGED <<clock, outrun>>
    BY <1>5 DEF ClearFirst, world
  <2>. PICK k, n : k = job[j] /\ n = [job[j] EXCEPT !.at = "last"]
    OBVIOUS
  <2>2. k \in TargetJobs /\ job' = [job EXCEPT ![j] = n]
    BY <2>1, GotoMoves
  <2>3. n \in TargetJobs /\ n.at = "last" /\ n.by = k.by /\ n.rows = k.rows /\ n.late = k.late
    <3>1. "last" \in {"update", "first", "last", "done"} /\ n = [k EXCEPT !.at = "last"]
      OBVIOUS
    <3>. QED
      BY <2>2, <3>1 DEF TargetJobs
  <2>4. ReadsCandles(k)
    BY <2>1 DEF CalculationsRead, Calculating
  <2>5. ASSUME NEW t \in 1..clock, target'[t] # NoValue
        PROVE  \/ target'[t] = target[t] /\ target[t].by # j
               \/ target'[t].by = j /\ StandsIn(n, target'[t], t, j \in outrun')
    <3>1. target'[t] = target[t] /\ t \notin {rows[i] : i \in 1..Min({Width, Len(rows)})}
      BY <1>0, <2>1, <2>5, ClearMoves
    <3>2. t \in Candles => Rank(Candles, t) > Width
      BY <3>1, ClearedFirst
    <3>3. CASE target[t].by = j
      <4>1. StandsIn(k, target[t], t, j \in outrun)
        BY <2>5, <3>1, <3>3 DEF ValuesStand
      <4>. PICK v, over : v = target[t] /\ over = (j \in outrun)
        OBVIOUS
      <4>2. StandsIn(n, v, t, over)
        BY <2>2, <2>3, <2>4, <3>2, <4>1, StandsCleared
      <4>. QED
        BY <2>1, <3>1, <3>3, <4>2
    <3>. QED
      BY <3>1, <3>3
  <2>. QED
    BY <2>1, <2>2, <2>3, <2>5, OneStands
<1>6. ASSUME NEW j \in Jobs, ClearLast(j) PROVE ValuesStand'
  <2>. PICK rows : rows = Ordered(Candles)
    OBVIOUS
  <2>1. /\ job[j].at = "last" /\ Goto(j, "done") /\ clock' = clock
        /\ Clear({rows[i] : i \in Max({1, Len(rows) - Width + 1})..Len(rows)})
        /\ outrun' = IF job[j].late > Width - Shift THEN outrun \union {j} ELSE outrun
    BY <1>6 DEF ClearLast, world
  <2>. PICK k, n : k = job[j] /\ n = [job[j] EXCEPT !.at = "done"]
    OBVIOUS
  <2>2. k \in TargetJobs /\ job' = [job EXCEPT ![j] = n]
    BY <2>1, GotoMoves
  <2>3. n \in TargetJobs /\ n.at = "done" /\ n.by = k.by /\ n.rows = k.rows /\ n.late = k.late
    <3>1. "done" \in {"update", "first", "last", "done"} /\ n = [k EXCEPT !.at = "done"]
      OBVIOUS
    <3>. QED
      BY <2>2, <3>1 DEF TargetJobs
  <2>4. ReadsCandles(k)
    BY <2>1 DEF CalculationsRead, Calculating
  <2>5. j \notin outrun' => k.late <= Width - Shift
    BY <2>1, <2>2, TargetJobIs, ShiftIs
  <2>6. ASSUME NEW t \in 1..clock, target'[t] # NoValue
        PROVE  \/ target'[t] = target[t] /\ target[t].by # j
               \/ target'[t].by = j /\ StandsIn(n, target'[t], t, j \in outrun')
    <3>1. target'[t] = target[t]
          /\ t \notin {rows[i] : i \in Max({1, Len(rows) - Width + 1})..Len(rows)}
      BY <1>0, <2>1, <2>6, ClearMoves
    <3>2. t \in Candles => Rank(Candles, t) <= Cardinality(Candles) - Width
      BY <3>1, ClearedLast
    <3>3. CASE target[t].by = j
      <4>1. StandsIn(k, target[t], t, j \in outrun)
        BY <2>6, <3>1, <3>3 DEF ValuesStand
      <4>. PICK v, over, now : v = target[t] /\ over = (j \in outrun) /\ now = (j \in outrun')
        OBVIOUS
      <4>2. StandsIn(n, v, t, now)
        BY <2>1, <2>2, <2>3, <2>4, <2>5, <3>2, <4>1, StandsWhole
      <4>. QED
        BY <3>1, <3>3, <4>2
    <3>. QED
      BY <3>1, <3>3
  <2>7. outrun' \in {outrun, outrun \union {j}}
    BY <2>1
  <2>. QED
    BY <2>1, <2>2, <2>3, <2>6, <2>7, OneStands
<1>7. ASSUME NEW j \in Jobs, BeginPrediction(j) PROVE ValuesStand'
  <2>1. PICK n \in PredictionJobs : job[j] = NoJob /\ job' = [job EXCEPT ![j] = n]
    BY <1>7, BeginPredictionMoves
  <2>2. UNCHANGED <<clock, target, outrun>>
    BY <1>7 DEF BeginPrediction, world
  <2>3. job[j] \notin TargetJobs
    BY <2>1, TargetJobIs DEF NoJob
  <2>4. \A t \in 1..clock : target'[t] # NoValue => target'[t] = target[t] /\ target[t].by # j
    BY <1>b, <2>2, <2>3
  <2>. QED
    BY <2>1, <2>2, <2>4, OneStands
<1>8. ASSUME NEW j \in Jobs, SavePredictions(j) PROVE ValuesStand'
  <2>1. job[j].at = "save" /\ UpTo(job[j].rows, job[j].values) /\ UNCHANGED <<clock, target, outrun>>
    BY <1>8 DEF SavePredictions, PredictionsAreOld, world
  <2>2. PICK at \in {"save", "done"} : job' = [job EXCEPT ![j] = Advanced(job[j], at)]
    BY <1>0, <1>8, <2>1, SaveMoves
  <2>. PICK n : n = Advanced(job[j], at)
    OBVIOUS
  <2>3. n \in PredictionJobs
    BY <1>0, <1>8, <2>1, SaveMoves, AdvancedPrediction
  <2>4. job[j] \notin TargetJobs
    BY <2>1, TargetJobIs
  <2>5. \A t \in 1..clock : target'[t] # NoValue => target'[t] = target[t] /\ target[t].by # j
    BY <1>b, <2>1, <2>4
  <2>. QED
    BY <2>1, <2>2, <2>3, <2>5, OneStands
<1>9. TrainSequences \/ TrainTcn \/ TrainEntry \/ TestSignals \/ TrainAndServe \/ UNCHANGED rvars
        => UNCHANGED <<clock, job, target, outrun>>
  BY DEF TrainSequences, TrainTcn, TrainEntry, Cut, TestSignals, TrainAndServe, rvars, jvars, world
<1>. QED
  BY <1>1, <1>2, <1>3, <1>4, <1>5, <1>6, <1>7, <1>8, <1>9, <1>a DEF ResearchNext

(* TargetsAreSmoothed (calculate_target_values): when no calculation runs, *)
(* every value of the route's is of a whole window, unless more candles    *)
(* came than it clears.                                                    *)
THEOREM TargetsAlwaysSmoothed == ResearchSpec => []TargetsAreSmoothed
<1>1. ResearchInit => CalculationsRead /\ ValuesStand
  BY DEF ResearchInit, CalculationsRead, Calculating, NoJob, ValuesStand
<1>2. LookingBackInv /\ CalculationsRead /\ ValuesStand /\ [ResearchNext]_rvars
        => CalculationsRead' /\ ValuesStand'
  BY CalculationsReadKept, ValuesStandKept DEF LookingBackInv, BacktestInv
<1>3. LookingBackInv /\ ValuesStand => TargetsAreSmoothed
  <2>. SUFFICES ASSUME LookingBackInv, ValuesStand, \A j \in Jobs : ~Working(j),
                       NEW t \in DOMAIN target, target[t] # NoValue,
                       job[target[t].by].by = "route", target[t].by \notin outrun
                PROVE  Cardinality(target[t].reads) = Width
    BY DEF TargetsAreSmoothed
  <2>. PICK v, k : v = target[t] /\ k = job[v.by]
    OBVIOUS
  <2>1. t \in 1..clock
    BY DEF LookingBackInv, JobTypes
  <2>2. v.by \in Jobs /\ StandsIn(k, v, t, v.by \in outrun)
    BY <2>1 DEF ValuesStand
  <2>3. k.at = "done"
    BY <2>2, TargetJobIs DEF Working, StandsIn
  <2>. QED
    BY <2>2, <2>3 DEF StandsIn
<1>. QED
  BY <1>1, <1>2, <1>3, LookingBackInvHolds, PTL DEF ResearchSpec

-----------------------------------------------------------------------------
(* Training sets.                                                          *)
(* A finite set of seconds has a first and a last.                         *)
LEMMA FirstAndLast ==
  ASSUME NEW S, S \subseteq Nat, IsFiniteSet(S), S # {}
  PROVE  /\ Min(S) \in S /\ \A t \in S : Min(S) <= t
         /\ Max(S) \in S /\ \A t \in S : t <= Max(S)
<1>. PICK rows : rows = Ordered(S)
  OBVIOUS
<1>1. /\ Len(rows) = Cardinality(S) /\ Len(rows) \in Nat
      /\ \A i \in 1..Len(rows) : rows[i] \in S
      /\ \A t \in S : Rank(S, t) \in 1..Len(rows) /\ rows[Rank(S, t)] = t
      /\ \A i, j \in 1..Len(rows) : i < j <=> rows[i] < rows[j]
  BY OrderedFacts
<1>2. Len(rows) > 0
  <2>. PICK t \in S : TRUE
    OBVIOUS
  <2>1. Rank(S, t) \in 1..Len(rows)
    BY <1>1
  <2>. QED
    BY <1>1, <2>1
<1>3. rows[1] \in S /\ rows[Len(rows)] \in S
  BY <1>1, <1>2
<1>4. \A t \in S : rows[1] <= t /\ t <= rows[Len(rows)]
  <2>. SUFFICES ASSUME NEW t \in S PROVE rows[1] <= t /\ t <= rows[Len(rows)]
    OBVIOUS
  <2>. PICK i \in 1..Len(rows) : rows[i] = t
    BY <1>1
  <2>1. (1 < i => rows[1] < rows[i]) /\ (i < Len(rows) => rows[i] < rows[Len(rows)])
    BY <1>1, <1>2
  <2>2. (1 = i => rows[1] = t) /\ (i = Len(rows) => rows[Len(rows)] = t)
    OBVIOUS
  <2>3. rows[1] \in Nat /\ rows[Len(rows)] \in Nat /\ t \in Nat
    BY <1>3
  <2>. QED
    BY <1>1, <2>1, <2>2, <2>3
<1>5. Min(S) = CHOOSE x \in S : \A y \in S : x <= y
  BY DEF Min
<1>6. Max(S) = CHOOSE x \in S : \A y \in S : x >= y
  BY DEF Max
<1>7. Min(S) \in S /\ \A t \in S : Min(S) <= t
  BY <1>3, <1>4, <1>5
<1>8. Max(S) \in S /\ \A t \in S : Max(S) >= t
  <2>1. \A y \in S : rows[Len(rows)] >= y
    BY <1>3, <1>4
  <2>. QED
    BY <1>3, <1>6, <2>1
<1>. QED
  BY <1>7, <1>8

LEMMA MaxIs ==
  ASSUME NEW S, S \subseteq Int, NEW m \in S, \A t \in S : t <= m
  PROVE  Max(S) = m
<1>1. \A t \in S : m >= t
  OBVIOUS
<1>2. \A x \in S : (\A y \in S : x >= y) => x = m
  OBVIOUS
<1>. QED
  BY <1>1, <1>2 DEF Max

LEMMA MinIs ==
  ASSUME NEW S, S \subseteq Int, NEW m \in S, \A t \in S : m <= t
  PROVE  Min(S) = m
<1>1. \A x \in S : (\A y \in S : x <= y) => x = m
  OBVIOUS
<1>. QED
  BY <1>1 DEF Min

(* A slice of rows in order runs from its first row to its last.           *)
LEMMA SliceEnds ==
  ASSUME NEW rows \in Seq(Nat), Rising(rows), NEW a \in Nat \ {0}, NEW n \in Nat \ {0},
         a + n - 1 <= Len(rows)
  PROVE  /\ Slice(rows, a, n) \subseteq Nat
         /\ Min(Slice(rows, a, n)) = rows[a] /\ Max(Slice(rows, a, n)) = rows[a + n - 1]
<1>1. \A k \in a..(a + n - 1) : k \in 1..Len(rows) /\ rows[k] \in Nat
  OBVIOUS
<1>2. a \in a..(a + n - 1) /\ a + n - 1 \in a..(a + n - 1)
  OBVIOUS
<1>. PICK b : b = a + n - 1
  OBVIOUS
<1>. PICK S : S = Slice(rows, a, n)
  OBVIOUS
<1>3. S = {rows[k] : k \in a..b} /\ b \in a..b /\ b \in Nat
  BY <1>2 DEF Slice
<1>4. S \subseteq Nat /\ rows[a] \in S /\ rows[b] \in S
  BY <1>1, <1>2, <1>3
<1>5. \A t \in S : rows[a] <= t /\ t <= rows[b]
  <2>. SUFFICES ASSUME NEW k \in a..b PROVE rows[a] <= rows[k] /\ rows[k] <= rows[b]
    BY <1>3
  <2>1. k \in 1..Len(rows) /\ a \in 1..Len(rows) /\ b \in 1..Len(rows)
    BY <1>1, <1>2
  <2>2. (a < k => rows[a] < rows[k]) /\ (k < b => rows[k] < rows[b])
    BY <2>1 DEF Rising
  <2>3. rows[a] \in Nat /\ rows[b] \in Nat /\ rows[k] \in Nat
    BY <1>1, <1>2
  <2>4. (k = a => rows[a] = rows[k]) /\ (k = b => rows[k] = rows[b])
    OBVIOUS
  <2>5. (a < k \/ k = a) /\ (k < b \/ k = b)
    BY <1>3
  <2>6. rows[a] <= rows[k]
    BY <2>2, <2>3, <2>4, <2>5
  <2>7. rows[k] <= rows[b]
    BY <2>2, <2>3, <2>4, <2>5
  <2>. QED
    BY <2>6, <2>7
<1>6. S \subseteq Int
  BY <1>4
<1>7. Min(S) = rows[a] /\ Max(S) = rows[b]
  BY <1>4, <1>5, <1>6, MinIs, MaxIs
<1>. QED
  BY <1>4, <1>7

(* Put in order again, a slice is what it was.                             *)
LEMMA OrderedSlice ==
  ASSUME NEW rows \in Seq(Nat), Rising(rows), NEW a \in Nat \ {0}, NEW n \in Nat,
         a + n - 1 <= Len(rows)
  PROVE  LET again == Ordered(Slice(rows, a, n))
         IN Len(again) = n /\ \A k \in 1..n : again[k] = rows[a + k - 1]
<1>. PICK S : S = Slice(rows, a, n)
  OBVIOUS
<1>1. IsFiniteSet(S) /\ Cardinality(S) = n
  BY SliceCardinality
<1>2. \A k \in a..(a + n - 1) : k \in 1..Len(rows) /\ rows[k] \in Nat /\ rows[k] \in S
  BY DEF Slice
<1>3. S \subseteq Nat
  BY <1>2 DEF Slice
<1>4. ASSUME NEW k \in 1..n PROVE rows[a + k - 1] \in S /\ Rank(S, rows[a + k - 1]) = k
  <2>. PICK b : b = a + k - 1
    OBVIOUS
  <2>1. b \in a..(a + n - 1) /\ k \in Nat /\ a + k - 1 <= Len(rows) /\ b \in Nat
    OBVIOUS
  <2>2. {s \in S : s <= rows[b]} = Slice(rows, a, k)
    <3>1. ASSUME NEW c \in a..(a + n - 1) PROVE rows[c] <= rows[b] <=> c <= b
      <4>1. c \in 1..Len(rows) /\ b \in 1..Len(rows) /\ rows[c] \in Nat /\ rows[b] \in Nat
        BY <1>2, <2>1
      <4>2. (c < b => rows[c] < rows[b]) /\ (b < c => rows[b] < rows[c]) /\ (c = b => rows[c] = rows[b])
        BY <4>1 DEF Rising
      <4>. QED
        BY <4>1, <4>2
    <3>2. S = {rows[c] : c \in a..(a + n - 1)} /\ Slice(rows, a, k) = {rows[c] : c \in a..b}
      BY DEF Slice
    <3>3. \A c : c \in a..b <=> c \in a..(a + n - 1) /\ c <= b
      BY <2>1
    <3>4. \A s \in S : s <= rows[b] => s \in Slice(rows, a, k)
      BY <3>1, <3>2, <3>3
    <3>5. \A s \in Slice(rows, a, k) : s \in S /\ s <= rows[b]
      BY <3>1, <3>2, <3>3
    <3>. QED
      BY <3>4, <3>5
  <2>3. Cardinality(Slice(rows, a, k)) = k
    BY <2>1, SliceCardinality
  <2>. QED
    BY <1>2, <2>1, <2>2, <2>3 DEF Rank
<1>. PICK again : again = Ordered(S)
  OBVIOUS
<1>5. /\ Len(again) = n
      /\ \A t \in S : Rank(S, t) \in 1..Len(again) /\ again[Rank(S, t)] = t
  BY <1>1, <1>3, OrderedFacts
<1>6. \A k \in 1..n : again[k] = rows[a + k - 1]
  BY <1>4, <1>5
<1>. QED
  BY <1>5, <1>6

(* A sample is made of seconds from one on and before another, and its     *)
(* label begins where its input ends.                                      *)
Within(x, from, to) ==
  /\ \A s \in x.inputs \union x.label : s \in Nat /\ from <= s /\ s < to
  /\ Max(x.inputs) = Min(x.label)

JoinedWell(rows, from, to) ==
  /\ rows \in Seq(Nat) /\ Len(rows) \in Nat /\ Rising(rows)
  /\ \A i \in 1..Len(rows) : /\ rows[i] \in Nat /\ from <= rows[i] /\ rows[i] < to
                             /\ close[rows[i]] \in Nat \ {0}

LEMMA JoinedAre ==
  ASSUME WorldTypes, NEW from, NEW to
  PROVE  JoinedWell(JoinedRows(from, to), from, to)
<1>. PICK rows : rows = JoinedRows(from, to)
  OBVIOUS
<1>1. /\ rows \in Seq(Nat) /\ Len(rows) \in Nat
      /\ \A i \in 1..Len(rows) : rows[i] \in 1..clock /\ rows[i] \in Candles /\ from <= rows[i] /\ rows[i] < to
      /\ \A i, j \in 1..Len(rows) : i < j <=> rows[i] < rows[j]
  BY JoinedFacts
<1>2. \A t \in Candles : close[t] \in Nat \ {0} /\ t \in Nat
  BY DEF Candles, WorldTypes
<1>. QED
  BY <1>1, <1>2 DEF JoinedWell, Rising

(* The label of a row: itself and the row Horizon rows later.              *)
LEMMA LabelWithin ==
  ASSUME NEW rows, NEW from, NEW to, JoinedWell(rows, from, to), NEW i \in Nat \ {0}, i <= Labelled(rows)
  PROVE  /\ Min(LabelOf(rows, i)) = rows[i]
         /\ \A s \in LabelOf(rows, i) : s \in Nat /\ from <= s /\ s < to
<1>1. Horizon \in Nat \ {0} /\ Len(rows) \in Nat
  BY SetsAssumption DEF JoinedWell
<1>2. i \in 1..Len(rows) /\ i + Horizon \in 1..Len(rows) /\ i < i + Horizon
  BY <1>1 DEF Labelled
<1>3. rows[i] < rows[i + Horizon] /\ rows[i] \in Nat /\ rows[i + Horizon] \in Nat
  BY <1>2 DEF JoinedWell, Rising
<1>4. Min({rows[i], rows[i + Horizon]}) = rows[i]
  <2>. PICK a, b : a = rows[i] /\ b = rows[i + Horizon]
    OBVIOUS
  <2>1. a \in Int /\ b \in Int /\ a <= b
    BY <1>3
  <2>2. Min({a, b}) = IF a <= b THEN a ELSE b
    BY <2>1, MinOfTwo, Zenon
  <2>. QED
    BY <2>1, <2>2
<1>5. \A s \in LabelOf(rows, i) : s \in Nat /\ from <= s /\ s < to
  BY <1>2 DEF LabelOf, JoinedWell
<1>. QED
  BY <1>4, <1>5 DEF LabelOf

LEMMA SequencesWithin ==
  ASSUME WorldTypes, NEW from, NEW to, NEW x \in SequenceSamples(from, to)
  PROVE  Within(x, from, to)
<1>. PICK rows : rows = JoinedRows(from, to)
  OBVIOUS
<1>1. JoinedWell(rows, from, to) /\ rows \in Seq(Nat) /\ Len(rows) \in Nat /\ Rising(rows)
  BY JoinedAre DEF JoinedWell
<1>2. Length \in Nat \ {0} /\ Horizon \in Nat
  BY SetsAssumption
<1>3. PICK i \in 1..(Labelled(rows) - Length + 1) :
        x = Sample(Slice(rows, i, Length), LabelOf(rows, i + Length - 1))
  BY DEF SequenceSamples, BuildSequences
<1>4. x.inputs = Slice(rows, i, Length) /\ x.label = LabelOf(rows, i + Length - 1)
  BY <1>3 DEF Sample
<1>. PICK final : final = i + Length - 1
  OBVIOUS
<1>5. i \in Nat \ {0} /\ final \in Nat \ {0} /\ final <= Labelled(rows) /\ final <= Len(rows)
  BY <1>1, <1>2 DEF Labelled
<1>6. Max(x.inputs) = rows[final]
  BY <1>1, <1>2, <1>4, <1>5, SliceEnds
<1>7. Min(x.label) = rows[final] /\ \A s \in x.label : s \in Nat /\ from <= s /\ s < to
  BY <1>1, <1>4, <1>5, LabelWithin
<1>8. \A s \in x.inputs : s \in Nat /\ from <= s /\ s < to
  <2>1. \A k \in i..(i + Length - 1) : k \in 1..Len(rows)
    BY <1>1, <1>2, <1>5
  <2>. QED
    BY <1>1, <1>4, <2>1 DEF Slice, JoinedWell
<1>. QED
  BY <1>6, <1>7, <1>8 DEF Within

LEMMA KeptRises ==
  ASSUME NEW a \in Nat \ {0}, NEW b \in Nat \ {0}
  PROVE  Kept(a) \in Nat \ {0} /\ (a < b => Kept(a) < Kept(b))
<1>1. Stride \in Nat \ {0}
  BY SetsAssumption
<1>2. (a - 1) * Stride \in Nat /\ (b - 1) * Stride \in Nat
  BY <1>1
<1>3. ASSUME a < b PROVE (a - 1) * Stride < (b - 1) * Stride
  <2>1. (b - 1) * Stride = (a - 1) * Stride + (b - a) * Stride
    BY <1>1
  <2>2. (b - a) * Stride >= 1
    BY <1>1, <1>3
  <2>3. (b - a) * Stride \in Nat
    BY <1>1, <1>3
  <2>. QED
    BY <1>2, <2>1, <2>2, <2>3
<1>. QED
  BY <1>2, <1>3 DEF Kept

LEMMA TradingWithin ==
  ASSUME WorldTypes, NEW from, NEW to, NEW x \in TradingSamples(from, to)
  PROVE  Within(x, from, to)
<1>. PICK rows : rows = JoinedRows(from, to)
  OBVIOUS
<1>1. JoinedWell(rows, from, to) /\ rows \in Seq(Nat) /\ Len(rows) \in Nat /\ Rising(rows)
  BY JoinedAre DEF JoinedWell
<1>2. Length \in Nat \ {0} /\ Horizon \in Nat
  BY SetsAssumption
<1>3. PICK i \in 1..Len(rows) :
        /\ x = Sample({rows[Kept(k)] : k \in i..(i + Length - 1)}, LabelOf(rows, Kept(i + Length - 1)))
        /\ i + Length - 1 \in 1..Len(rows) /\ Kept(i + Length - 1) <= Labelled(rows)
  BY DEF TradingSamples
<1>. PICK final : final = i + Length - 1
  OBVIOUS
<1>4. /\ x.inputs = {rows[Kept(k)] : k \in i..final} /\ x.label = LabelOf(rows, Kept(final))
      /\ final \in Nat \ {0} /\ i \in Nat \ {0} /\ i <= final /\ Kept(final) <= Labelled(rows)
  BY <1>1, <1>2, <1>3 DEF Sample
<1>5. Kept(final) \in Nat \ {0} /\ Kept(final) <= Len(rows)
  BY <1>1, <1>2, <1>4, KeptRises DEF Labelled
<1>6. ASSUME NEW k \in i..final PROVE Kept(k) \in 1..Len(rows) /\ rows[Kept(k)] <= rows[Kept(final)]
  <2>1. k \in Nat \ {0} /\ (k < final \/ k = final)
    BY <1>4
  <2>2. Kept(k) \in Nat \ {0} /\ (k < final => Kept(k) < Kept(final))
    BY <1>4, <2>1, KeptRises
  <2>3. Kept(k) \in 1..Len(rows) /\ Kept(final) \in 1..Len(rows)
    BY <1>1, <1>5, <2>1, <2>2
  <2>4. k < final => rows[Kept(k)] < rows[Kept(final)]
    BY <1>1, <2>2, <2>3 DEF Rising
  <2>5. rows[Kept(k)] \in Nat /\ rows[Kept(final)] \in Nat
    BY <1>1, <2>3
  <2>6. k = final => rows[Kept(k)] = rows[Kept(final)]
    OBVIOUS
  <2>. QED
    BY <2>1, <2>3, <2>4, <2>5, <2>6
<1>7. x.inputs \subseteq Int /\ rows[Kept(final)] \in x.inputs /\ \A s \in x.inputs : s <= rows[Kept(final)]
  <2>1. final \in i..final
    BY <1>4
  <2>2. \A k \in 1..Len(rows) : rows[k] \in Int
    BY <1>1
  <2>. QED
    BY <1>4, <1>6, <2>1, <2>2
<1>8. Max(x.inputs) = rows[Kept(final)]
  BY <1>7, MaxIs
<1>9. Min(x.label) = rows[Kept(final)] /\ \A s \in x.label : s \in Nat /\ from <= s /\ s < to
  BY <1>1, <1>4, <1>5, LabelWithin
<1>10. \A s \in x.inputs : s \in Nat /\ from <= s /\ s < to
  BY <1>1, <1>4, <1>6 DEF JoinedWell
<1>. QED
  BY <1>8, <1>9, <1>10 DEF Within

(* An entry: the row and the LookAhead rows after it.                      *)
LEMMA EntriesAre ==
  ASSUME WorldTypes, NEW from, NEW to, NEW x \in EntrySamples(from, to)
  PROVE  LET rows == JoinedRows(from, to)
         IN /\ JoinedWell(rows, from, to)
            /\ \E i \in Nat \ {0} :
                 /\ i + LookAhead <= Len(rows)
                 /\ x.inputs = {rows[i]} /\ x.label = Slice(rows, i, LookAhead + 1)
                 /\ x.enters = EntryLabel(rows, i) /\ x.enters # -1
<1>. PICK rows : rows = JoinedRows(from, to)
  OBVIOUS
<1>1. JoinedWell(rows, from, to) /\ Len(rows) \in Nat
  BY JoinedAre DEF JoinedWell
<1>2. PICK i \in 1..(Len(rows) - LookAhead - MinAfter) :
        /\ EntryLabel(rows, i) # -1
        /\ x = [inputs |-> {rows[i]}, label |-> Slice(rows, i, LookAhead + 1), enters |-> EntryLabel(rows, i)]
  BY DEF EntrySamples
<1>3. i \in Nat \ {0} /\ i + LookAhead <= Len(rows)
  <2>1. LookAhead \in Nat /\ MinAfter \in Nat
    BY SetsAssumption
  <2>. QED
    BY <1>1, <2>1
<1>4. /\ x.inputs = {rows[i]} /\ x.label = Slice(rows, i, LookAhead + 1)
      /\ x.enters = EntryLabel(rows, i)
  BY <1>2
<1>. QED
  BY <1>1, <1>2, <1>3, <1>4

LEMMA EntriesWithin ==
  ASSUME WorldTypes, NEW from, NEW to, NEW x \in EntrySamples(from, to)
  PROVE  Within(x, from, to)
<1>. PICK rows : rows = JoinedRows(from, to)
  OBVIOUS
<1>1. /\ JoinedWell(rows, from, to) /\ rows \in Seq(Nat) /\ Len(rows) \in Nat /\ Rising(rows)
      /\ LookAhead \in Nat
  BY EntriesAre, SetsAssumption DEF JoinedWell
<1>2. PICK i \in Nat \ {0} :
        i + LookAhead <= Len(rows) /\ x.inputs = {rows[i]} /\ x.label = Slice(rows, i, LookAhead + 1)
  BY EntriesAre
<1>3. LookAhead + 1 \in Nat \ {0} /\ i + (LookAhead + 1) - 1 <= Len(rows) /\ i \in 1..Len(rows)
  BY <1>1, <1>2
<1>4. Min(x.label) = rows[i]
  BY <1>1, <1>2, <1>3, SliceEnds
<1>5. Max(x.inputs) = rows[i]
  <2>1. rows[i] \in Int
    BY <1>1, <1>3
  <2>2. {rows[i]} \subseteq Int /\ rows[i] \in {rows[i]} /\ \A t \in {rows[i]} : t <= rows[i]
    BY <2>1
  <2>3. Max({rows[i]}) = rows[i]
    BY <2>2, MaxIs
  <2>. QED
    BY <1>2, <2>3
<1>6. \A s \in x.inputs \union x.label : s \in Nat /\ from <= s /\ s < to
  <2>1. \A k \in i..(i + (LookAhead + 1) - 1) : k \in 1..Len(rows)
    BY <1>1, <1>2
  <2>. QED
    BY <1>1, <1>2, <1>3, <2>1 DEF Slice, JoinedWell
<1>. QED
  BY <1>4, <1>5, <1>6 DEF Within

LEMMA FirstSecondRises ==
  ASSUME NEW a \in Int, NEW b \in Int, a <= b
  PROVE  FirstSecond(a) \in Int /\ FirstSecond(b) \in Int /\ FirstSecond(a) <= FirstSecond(b)
<1>1. Whole \in Nat \ {0}
  BY SetsAssumption
<1>2. ASSUME NEW x \in Int, NEW y \in Int, x <= y
      PROVE  x \div Whole \in Int /\ y \div Whole \in Int /\ x \div Whole <= y \div Whole
  <2>. DEFINE p == x \div Whole
              q == y \div Whole
  <2>1. p \in Int /\ q \in Int
    BY <1>1
  <2>2. Whole * p <= x /\ y < Whole * (q + 1)
    BY <1>1
  <2>. HIDE DEF p, q
  <2>3. ASSUME q < p PROVE FALSE
    <3>1. Whole * (q + 1) <= Whole * p
      BY <1>1, <2>1, <2>3
    <3>2. Whole * (q + 1) \in Int /\ Whole * p \in Int
      BY <1>1, <2>1
    <3>. QED
      BY <1>2, <2>2, <3>1, <3>2
  <2>4. p <= q
    BY <2>1, <2>3
  <2>. QED
    BY <2>1, <2>4 DEF p, q
<1>3. a + Whole - 1 \in Int /\ b + Whole - 1 \in Int /\ a + Whole - 1 <= b + Whole - 1
  BY <1>1
<1>. QED
  BY <1>2, <1>3 DEF FirstSecond

(* Training ends before validation begins, and either nothing is left to   *)
(* test or it is after both.                                               *)
Apart(splits) ==
  /\ \A s \in {"train", "val", "test"} : splits[s][1] \in Int /\ splits[s][2] \in Int
  /\ splits.train[2] <= splits.val[1]
  /\ \/ splits.test[2] <= splits.test[1]
     \/ splits.val[1] <= splits.val[2] /\ splits.val[2] <= splits.test[1]

LEMMA LoaderApart ==
  ASSUME WorldTypes, Candles # {}
  PROVE  Apart(LoaderSplits)
<1>. DEFINE first == Min(Candles)
            final == Max(Candles)
            start == IF Hours["ml"] > 0 THEN Max({first, final - Hours["ml"]}) ELSE first
            test  == Whole * final - TestShare * (final - start)
            val   == test - ValShare * (final - start)
<1>1. first \in Nat /\ final \in Nat /\ first <= final
  <2>1. Candles \subseteq Nat /\ IsFiniteSet(Candles)
    BY CandlesFinite
  <2>. QED
    BY <2>1, FirstAndLast
<1>. HIDE DEF first, final
<1>2. start \in Int /\ start <= final
  <2>. PICK b : b = final - Hours["ml"]
    OBVIOUS
  <2>1. Hours["ml"] \in Nat
    BY SetsAssumption
  <2>2. first \in Int /\ b \in Int /\ b <= final
    BY <1>1, <2>1
  <2>3. Max({first, b}) = IF first <= b THEN b ELSE first
    BY <2>2, MinOfTwo
  <2>. QED
    BY <1>1, <2>2, <2>3
<1>. HIDE DEF start
<1>3. {Whole, ValShare, TestShare} \subseteq Nat
  BY SetsAssumption
<1>4. test \in Int /\ val \in Int /\ val <= test
  <2>. PICK d \in Nat : d = final - start
    BY <1>1, <1>2
  <2>1. ValShare * d \in Nat /\ TestShare * d \in Nat /\ Whole * final \in Int
    BY <1>1, <1>3
  <2>. QED
    BY <2>1
<1>. HIDE DEF test, val
<1>5. FirstSecond(val) \in Int /\ FirstSecond(test) \in Int /\ FirstSecond(val) <= FirstSecond(test)
  BY <1>4, FirstSecondRises
<1>6. LoaderSplits = [train |-> <<start, FirstSecond(val)>>,
                      val   |-> <<FirstSecond(val), FirstSecond(test)>>,
                      test  |-> <<FirstSecond(test), final>>]
  BY DEF LoaderSplits, first, final, start, test, val
<1>7. /\ LoaderSplits["train"] = <<start, FirstSecond(val)>>
      /\ LoaderSplits["val"] = <<FirstSecond(val), FirstSecond(test)>>
      /\ LoaderSplits["test"] = <<FirstSecond(test), final>>
  BY <1>6
<1>. QED
  BY <1>1, <1>2, <1>5, <1>7 DEF Apart

LEMMA GappedApart ==
  ASSUME NEW end \in Int, NEW hours \in Int, NEW gap \in Nat
  PROVE  Apart(GappedSplits(end, hours, gap))
<1>. PICK val : val = (hours - gap) \div ValPart
  OBVIOUS
<1>. PICK start : start = end - val
  OBVIOUS
<1>. PICK splits : splits = GappedSplits(end, hours, gap)
  OBVIOUS
<1>1. val \in Int
  BY SetsAssumption
<1>2. start \in Int /\ start - gap \in Int /\ start - gap - (hours - gap - val) \in Int /\ start - gap <= start
  BY <1>1
<1>3. /\ splits["train"] = <<start - gap - (hours - gap - val), start - gap>>
      /\ splits["val"] = <<start, end>>
      /\ splits["test"] = <<end, end>>
  BY DEF GappedSplits
<1>. QED
  BY <1>2, <1>3 DEF Apart

(* Splits that are apart make samples that do not touch.                   *)
LEMMA CutsDoNotTouch ==
  ASSUME NEW script, NEW splits, Apart(splits), NEW S,
         sets' = [script |-> script, splits |-> S],
         DOMAIN S = {"train", "val", "test"},
         \A s \in {"train", "val", "test"} : \A x \in S[s] : Within(x, splits[s][1], splits[s][2])
  PROVE  SplitsDoNotTouch'
<1>. DEFINE Before(a, b) ==
       \A x \in S[a], y \in S[b] : \A s \in x.inputs \union x.label, t \in y.inputs \union y.label : s < t
<1>1. ASSUME NEW a \in {"train", "val", "test"}, NEW b \in {"train", "val", "test"},
             splits[a][2] <= splits[b][1] \/ splits[b][2] <= splits[b][1]
      PROVE  Before(a, b)
  <2>. SUFFICES ASSUME NEW x \in S[a], NEW y \in S[b],
                       NEW s \in x.inputs \union x.label, NEW t \in y.inputs \union y.label
                PROVE  s < t
    OBVIOUS
  <2>1. s \in Nat /\ s < splits[a][2]
    BY DEF Within
  <2>2. t \in Nat /\ splits[b][1] <= t /\ t < splits[b][2]
    BY DEF Within
  <2>3. splits[a][2] \in Int /\ splits[b][1] \in Int /\ splits[b][2] \in Int
    BY DEF Apart
  <2>. QED
    BY <1>1, <2>1, <2>2, <2>3
<1>2. /\ splits["train"][2] <= splits["val"][1]
      /\ splits["val"][2] <= splits["test"][1] \/ splits["test"][2] <= splits["test"][1]
      /\ splits["train"][2] <= splits["test"][1] \/ splits["test"][2] <= splits["test"][1]
  BY DEF Apart
<1>3. Before("train", "val") /\ Before("val", "test") /\ Before("train", "test")
  BY <1>1, <1>2
<1>4. \A s \in DOMAIN S : \A x \in S[s] : Max(x.inputs) = Min(x.label)
  BY DEF Within
<1>. HIDE DEF Before
<1>5. sets'.splits = S
  OBVIOUS
<1>. QED
  BY <1>3, <1>4, <1>5 DEF SplitsDoNotTouch, Before

(* A price cannot have gained and lost at once.                            *)
LEMMA NotBoth ==
  ASSUME NEW entry \in Nat \ {0}, NEW paid \in Nat
  PROVE  ~(Gains(entry, paid) /\ Loses(entry, paid))
<1>1. Part \in Nat \ {0}
  BY SetsAssumption
<1>2. entry * (Part + 1) = entry * Part + entry /\ entry * (Part - 1) = entry * Part - entry
  BY <1>1
<1>3. entry * Part \in Nat /\ paid * Part \in Nat
  BY <1>1
<1>. QED
  BY <1>2, <1>3 DEF Gains, Loses

(* The first hit, when there is one, is what argmax finds.                 *)
LEMMA FirstHit ==
  ASSUME NEW hits, hits \subseteq 1..LookAhead, hits # {}
  PROVE  Min(hits) \in hits /\ (\A k \in hits : Min(hits) <= k) /\ Min(hits) \in Nat
<1>1. LookAhead \in Nat
  BY SetsAssumption
<1>2. IsFiniteSet(1..LookAhead) /\ hits \in SUBSET (1..LookAhead)
  BY <1>1, FS_Interval
<1>3. IsFiniteSet(hits)
  BY <1>2, FS_Subset
<1>4. hits \subseteq Nat
  BY <1>1
<1>. QED
  BY <1>3, <1>4, FirstAndLast

(* The hits of a label, counted from the row after the entry, are those of *)
(* its rows put in order, counted from the entry.                          *)
LEMMA LaterHits ==
  ASSUME NEW hits, hits \subseteq 1..LookAhead, NEW later,
         later = {k + 1 : k \in hits}
  PROVE  /\ later # {} <=> hits # {}
         /\ hits # {} => Min(later) = Min(hits) + 1
<1>1. ASSUME hits # {} PROVE Min(later) = Min(hits) + 1
  <2>. PICK m : m = Min(hits)
    OBVIOUS
  <2>1. m \in hits /\ (\A k \in hits : m <= k) /\ m \in Nat
    BY <1>1, FirstHit
  <2>2. hits \subseteq Nat
    BY SetsAssumption
  <2>3. later \subseteq Int /\ m + 1 \in later /\ \A k \in later : m + 1 <= k
    BY <2>1, <2>2
  <2>4. Min(later) = m + 1
    BY <2>3, MinIs
  <2>. QED
    BY <2>4
<1>. QED
  BY <1>1

(* What label_entry_points decides: which hit comes first, of two sets of  *)
(* rows that have none in common.                                          *)
Decides(ups, downs) ==
  LET up == IF ups = {} THEN 1 ELSE Min(ups)
      down == IF downs = {} THEN 1 ELSE Min(downs)
  IN IF up \in ups /\ down \in downs THEN IF up < down THEN 1 ELSE 0
     ELSE IF up \in ups THEN 1 ELSE IF down \in downs THEN 0 ELSE -1

LEMMA DecidesTruly ==
  ASSUME NEW ups, ups \subseteq 1..LookAhead, NEW downs, downs \subseteq 1..LookAhead,
         ups \cap downs = {}, Decides(ups, downs) # -1
  PROVE  IF Decides(ups, downs) = 1 THEN ups # {} /\ \A k \in downs : Min(ups) < k
         ELSE downs # {} /\ \A k \in ups : Min(downs) < k
<1>. PICK u, d : u = Min(ups) /\ d = Min(downs)
  OBVIOUS
<1>1. ups # {} => u \in ups /\ (\A k \in ups : u <= k) /\ u \in Nat
  BY FirstHit
<1>2. downs # {} => d \in downs /\ (\A k \in downs : d <= k) /\ d \in Nat
  BY FirstHit
<1>3. \A k \in ups \union downs : k \in Nat
  BY SetsAssumption
<1>4. CASE ups = {}
  BY <1>2, <1>4 DEF Decides
<1>5. CASE downs = {} /\ ups # {}
  <2>1. Decides(ups, downs) = 1
    BY <1>1, <1>5 DEF Decides
  <2>. QED
    BY <1>5, <2>1
<1>6. CASE downs # {} /\ ups # {}
  <2>1. Decides(ups, downs) = IF u < d THEN 1 ELSE 0
    BY <1>1, <1>2, <1>6 DEF Decides
  <2>2. u # d
    BY <1>1, <1>2, <1>6
  <2>3. CASE u < d
    <3>1. \A k \in downs : u < k
      BY <1>1, <1>2, <1>3, <1>6, <2>3
    <3>. QED
      BY <1>6, <2>1, <2>3, <3>1
  <2>4. CASE ~(u < d)
    <3>1. \A k \in ups : d < k
      BY <1>1, <1>2, <1>3, <1>6, <2>2, <2>4
    <3>. QED
      BY <1>6, <2>1, <2>4, <3>1
  <2>. QED
    BY <2>3, <2>4
<1>. QED
  BY <1>4, <1>5, <1>6

Ups(rows, i) == {k \in 1..LookAhead : Gains(close[rows[i]], close[rows[i + k]])}
Downs(rows, i) == {k \in 1..LookAhead : Loses(close[rows[i]], close[rows[i + k]])}

LEMMA LabelDecides ==
  ASSUME NEW rows, NEW i
  PROVE  EntryLabel(rows, i) = Decides(Ups(rows, i), Downs(rows, i))
<1>. DEFINE Upper(k) == Gains(close[rows[i]], close[rows[i + k]])
            Lower(k) == Loses(close[rows[i]], close[rows[i + k]])
            ups == Ups(rows, i)
            downs == Downs(rows, i)
            up == IF ups = {} THEN 1 ELSE Min(ups)
            down == IF downs = {} THEN 1 ELSE Min(downs)
<1>1. 1 \in 1..LookAhead
  BY SetsAssumption
<1>2. ArgMax(Upper) = up /\ ArgMax(Lower) = down
  BY DEF ArgMax, Ups, Downs
<1>3. up \in 1..LookAhead /\ down \in 1..LookAhead
  <2>1. ups \subseteq 1..LookAhead /\ downs \subseteq 1..LookAhead
    BY DEF Ups, Downs
  <2>. HIDE DEF ups, downs
  <2>2. ups # {} => Min(ups) \in ups
    BY <2>1, FirstHit
  <2>3. downs # {} => Min(downs) \in downs
    BY <2>1, FirstHit
  <2>. QED
    BY <1>1, <2>1, <2>2, <2>3
<1>4. \A k \in 1..LookAhead : (k \in ups <=> Upper(k)) /\ (k \in downs <=> Lower(k))
  BY DEF Ups, Downs
<1>5. EntryLabel(rows, i) =
        IF Upper(up) /\ Lower(down) THEN IF up < down THEN 1 ELSE 0
        ELSE IF Upper(up) THEN 1 ELSE IF Lower(down) THEN 0 ELSE -1
  BY <1>2 DEF EntryLabel
<1>6. Decides(ups, downs) =
        IF up \in ups /\ down \in downs THEN IF up < down THEN 1 ELSE 0
        ELSE IF up \in ups THEN 1 ELSE IF down \in downs THEN 0 ELSE -1
  BY DEF Decides
<1>7. (up \in ups <=> Upper(up)) /\ (down \in downs <=> Lower(down))
  BY <1>3, <1>4
<1>. HIDE DEF up, down, ups, downs, Upper, Lower
<1>8. EntryLabel(rows, i) = Decides(ups, downs)
  BY <1>5, <1>6, <1>7
<1>. QED
  BY <1>8 DEF ups, downs

(* A sample's label is the one LabelsAreTrue asks for.                     *)
TrueLabel(x) ==
  LET rows  == Ordered(x.label)
      ups   == {k \in 2..Len(rows) : Gains(close[rows[1]], close[rows[k]])}
      downs == {k \in 2..Len(rows) : Loses(close[rows[1]], close[rows[k]])}
  IN IF x.enters = 1 THEN ups # {} /\ \A k \in downs : Min(ups) < k
     ELSE downs # {} /\ \A k \in ups : Min(downs) < k

LEMMA EntriesTrue ==
  ASSUME WorldTypes, NEW from, NEW to, NEW x \in EntrySamples(from, to)
  PROVE  TrueLabel(x)
<1>. PICK rows : rows = JoinedRows(from, to)
  OBVIOUS
<1>1. /\ JoinedWell(rows, from, to) /\ rows \in Seq(Nat) /\ Len(rows) \in Nat /\ Rising(rows)
      /\ LookAhead \in Nat
  BY EntriesAre, SetsAssumption DEF JoinedWell
<1>2. PICK i \in Nat \ {0} :
        /\ i + LookAhead <= Len(rows) /\ x.label = Slice(rows, i, LookAhead + 1)
        /\ x.enters = EntryLabel(rows, i) /\ x.enters # -1
  BY EntriesAre
<1>. PICK again : again = Ordered(x.label)
  OBVIOUS
<1>3. Len(again) = LookAhead + 1 /\ \A k \in 1..(LookAhead + 1) : again[k] = rows[i + k - 1]
  <2>. PICK m : m = LookAhead + 1
    OBVIOUS
  <2>1. m \in Nat /\ i + m - 1 <= Len(rows)
    BY <1>1, <1>2
  <2>2. Len(Ordered(Slice(rows, i, m))) = m
        /\ \A k \in 1..m : Ordered(Slice(rows, i, m))[k] = rows[i + k - 1]
    BY <1>1, <2>1, OrderedSlice
  <2>. QED
    BY <1>2, <2>2
<1>. DEFINE hits  == Ups(rows, i)
            sinks == Downs(rows, i)
            ups   == {k \in 2..Len(again) : Gains(close[again[1]], close[again[k]])}
            downs == {k \in 2..Len(again) : Loses(close[again[1]], close[again[k]])}
<1>4. again[1] = rows[i] /\ \A k \in 1..LookAhead : again[k + 1] = rows[i + k]
  <2>1. again[1] = rows[i + 1 - 1]
    BY <1>1, <1>3
  <2>2. ASSUME NEW k \in 1..LookAhead PROVE again[k + 1] = rows[i + k]
    <3>1. k + 1 \in 1..(LookAhead + 1) /\ i + (k + 1) - 1 = i + k
      BY <1>1, <1>2
    <3>. QED
      BY <1>3, <3>1
  <2>. QED
    BY <2>1, <2>2
<1>5. \A k \in 2..Len(again) : k - 1 \in 1..LookAhead /\ again[k] = rows[i + (k - 1)]
  <2>1. ASSUME NEW k \in 2..Len(again) PROVE k - 1 \in 1..LookAhead /\ again[k] = rows[i + (k - 1)]
    <3>1. k - 1 \in 1..LookAhead /\ (k - 1) + 1 = k
      BY <1>1, <1>3
    <3>. QED
      BY <1>4, <3>1
  <2>. QED
    BY <2>1
<1>6. ups = {k + 1 : k \in hits}
  <2>1. ASSUME NEW k \in ups PROVE k - 1 \in hits /\ k = (k - 1) + 1
    BY <1>4, <1>5 DEF Ups
  <2>2. ASSUME NEW k \in hits PROVE k + 1 \in ups
    <3>1. k \in 1..LookAhead /\ Gains(close[rows[i]], close[rows[i + k]])
      BY DEF Ups
    <3>. QED
      BY <1>1, <1>3, <1>4, <3>1
  <2>. QED
    BY <2>1, <2>2
<1>7. downs = {k + 1 : k \in sinks}
  <2>1. ASSUME NEW k \in downs PROVE k - 1 \in sinks /\ k = (k - 1) + 1
    BY <1>4, <1>5 DEF Downs
  <2>2. ASSUME NEW k \in sinks PROVE k + 1 \in downs
    <3>1. k \in 1..LookAhead /\ Loses(close[rows[i]], close[rows[i + k]])
      BY DEF Downs
    <3>. QED
      BY <1>1, <1>3, <1>4, <3>1
  <2>. QED
    BY <2>1, <2>2
<1>8. hits \subseteq 1..LookAhead /\ sinks \subseteq 1..LookAhead
  BY DEF Ups, Downs
<1>9. hits \cap sinks = {}
  <2>. SUFFICES ASSUME NEW k \in 1..LookAhead,
                       Gains(close[rows[i]], close[rows[i + k]]), Loses(close[rows[i]], close[rows[i + k]])
                PROVE  FALSE
    BY DEF Ups, Downs
  <2>1. i \in 1..Len(rows) /\ i + k \in 1..Len(rows)
    BY <1>1, <1>2
  <2>2. close[rows[i]] \in Nat \ {0} /\ close[rows[i + k]] \in Nat
    BY <1>1, <2>1 DEF JoinedWell
  <2>. QED
    BY <2>2, NotBoth
<1>10. x.enters = Decides(hits, sinks) /\ Decides(hits, sinks) # -1
  BY <1>2, LabelDecides
<1>. HIDE DEF hits, sinks, ups, downs
<1>11. IF x.enters = 1 THEN hits # {} /\ \A k \in sinks : Min(hits) < k
       ELSE sinks # {} /\ \A k \in hits : Min(sinks) < k
  BY <1>8, <1>9, <1>10, DecidesTruly
<1>12. /\ ups # {} <=> hits # {}
       /\ hits # {} => Min(ups) = Min(hits) + 1 /\ Min(hits) \in Nat
  BY <1>6, <1>8, LaterHits, FirstHit
<1>13. /\ downs # {} <=> sinks # {}
       /\ sinks # {} => Min(downs) = Min(sinks) + 1 /\ Min(sinks) \in Nat
  BY <1>7, <1>8, LaterHits, FirstHit
<1>14. hits \subseteq Nat /\ sinks \subseteq Nat
  BY <1>1, <1>8
<1>15. IF x.enters = 1 THEN ups # {} /\ \A k \in downs : Min(ups) < k
       ELSE downs # {} /\ \A k \in ups : Min(downs) < k
  <2>1. CASE x.enters = 1
    <3>1. ASSUME NEW k \in sinks PROVE Min(ups) < k + 1
      BY <1>11, <1>12, <1>14, <2>1
    <3>. QED
      BY <1>7, <1>11, <1>12, <2>1, <3>1
  <2>2. CASE x.enters # 1
    <3>1. ASSUME NEW k \in hits PROVE Min(downs) < k + 1
      BY <1>11, <1>13, <1>14, <2>2
    <3>. QED
      BY <1>6, <1>11, <1>13, <2>2, <3>1
  <2>. QED
    BY <2>1, <2>2
<1>. QED
  BY <1>15 DEF TrueLabel, ups, downs

(* Samples are cut by one of three scripts and stay as they are.           *)
SetsInv == sets # NoSets => study \in {"ml", "tcn", "entry"} /\ SamplesAreSound

LEMMA CutsAreSound ==
  ASSUME WorldTypes, TrainSequences \/ TrainTcn \/ TrainEntry
  PROVE  SamplesAreSound' /\ study' \in {"ml", "tcn", "entry"}
<1>. DEFINE Three == {"train", "val", "test"}
<1>a. ASSUME NEW script, NEW splits, NEW S, sets' = [script |-> script, splits |-> S],
             script # "entry"
      PROVE  LabelsAreTrue'
  BY <1>a DEF LabelsAreTrue
<1>1. CASE TrainSequences
  <2>. DEFINE S == [s \in Three |-> SequenceSamples(LoaderSplits[s][1], LoaderSplits[s][2])]
  <2>1. Candles # {} /\ study = "ml" /\ study' = study /\ sets' = [script |-> "ml", splits |-> S]
    BY <1>1 DEF TrainSequences, Cut
  <2>2. Apart(LoaderSplits)
    BY <2>1, LoaderApart
  <2>3. DOMAIN S = Three /\ \A s \in Three : \A x \in S[s] : Within(x, LoaderSplits[s][1], LoaderSplits[s][2])
    BY SequencesWithin
  <2>. HIDE DEF S
  <2>4. SplitsDoNotTouch'
    BY <2>1, <2>2, <2>3, CutsDoNotTouch
  <2>. QED
    BY <1>a, <2>1, <2>4 DEF SamplesAreSound
<1>2. CASE TrainTcn
  <2>. DEFINE S == [s \in Three |-> TradingSamples(TcnSplits[s][1], TcnSplits[s][2])]
  <2>1. vector # {} /\ study = "tcn" /\ study' = study /\ sets' = [script |-> "tcn", splits |-> S]
    BY <1>2 DEF TrainTcn, Cut
  <2>2. Apart(TcnSplits)
    <3>1. Max(vector) \in Int
      <4>. PICK m : m = Max(vector)
        OBVIOUS
      <4>1. vector \subseteq Nat /\ IsFiniteSet(vector)
        BY SecondsFinite DEF WorldTypes
      <4>2. m \in vector
        BY <2>1, <4>1, FirstAndLast
      <4>. QED
        BY <4>1, <4>2
    <3>2. Hours["tcn"] \in Int /\ 2 * Stride \in Nat
      BY SetsAssumption
    <3>. QED
      BY <3>1, <3>2, GappedApart DEF TcnSplits
  <2>3. DOMAIN S = Three /\ \A s \in Three : \A x \in S[s] : Within(x, TcnSplits[s][1], TcnSplits[s][2])
    BY TradingWithin
  <2>. HIDE DEF S
  <2>4. SplitsDoNotTouch'
    BY <2>1, <2>2, <2>3, CutsDoNotTouch
  <2>. QED
    BY <1>a, <2>1, <2>4 DEF SamplesAreSound
<1>3. CASE TrainEntry
  <2>. DEFINE S == [s \in Three |-> EntrySamples(EntrySplits[s][1], EntrySplits[s][2])]
  <2>1. study = "entry" /\ study' = study /\ sets' = [script |-> "entry", splits |-> S] /\ close' = close
    BY <1>3 DEF TrainEntry, Cut, world
  <2>2. Apart(EntrySplits)
    <3>1. clock + 1 \in Int /\ Hours["entry"] \in Int /\ LookAhead \in Nat
      BY SetsAssumption DEF WorldTypes
    <3>. QED
      BY <3>1, GappedApart DEF EntrySplits
  <2>3. DOMAIN S = Three /\ \A s \in Three : \A x \in S[s] : Within(x, EntrySplits[s][1], EntrySplits[s][2])
    BY EntriesWithin
  <2>4. \A s \in Three : \A x \in S[s] : TrueLabel(x)
    BY EntriesTrue
  <2>. HIDE DEF S
  <2>5. SplitsDoNotTouch'
    BY <2>1, <2>2, <2>3, CutsDoNotTouch
  <2>6. sets'.script = "entry" /\ sets'.splits = S
    BY <2>1
  <2>7. LabelsAreTrue'
    BY <2>1, <2>3, <2>4, <2>6 DEF LabelsAreTrue, TrueLabel
  <2>. QED
    BY <2>1, <2>5, <2>7 DEF SamplesAreSound
<1>. QED
  BY <1>1, <1>2, <1>3

LEMMA SetsInvKept ==
  ASSUME WorldTypes, SetsInv, [ResearchNext]_rvars
  PROVE  SetsInv'
<1>1. CASE TrainSequences \/ TrainTcn \/ TrainEntry
  BY <1>1, CutsAreSound DEF SetsInv
<1>2. CASE Record
  <2>1. sets' = NoSets
    BY <1>2 DEF Record
  <2>. QED
    BY <2>1 DEF SetsInv, NoSets
<1>3. CASE Fill
  <2>1. study = "targets" /\ sets' = sets
    BY <1>3 DEF Fill
  <2>2. sets = NoSets
    BY <2>1 DEF SetsInv
  <2>. QED
    BY <2>1, <2>2 DEF SetsInv, NoSets
<1>4. CASE ~(TrainSequences \/ TrainTcn \/ TrainEntry \/ Record \/ Fill)
  <2>1. UNCHANGED <<study, close, sets>>
    BY <1>4 DEF ResearchNext, BeginTargets, UpdateTargets, ClearFirst, ClearLast, BeginPrediction,
       SavePredictions, TestSignals, TrainAndServe, rvars, world
  <2>. QED
    BY <2>1 DEF SetsInv, SamplesAreSound, SplitsDoNotTouch, LabelsAreTrue, NoSets
<1>. QED
  BY <1>1, <1>2, <1>3, <1>4

(* SamplesAreSound (create_data_loaders, train_trading_tcn, label_entry_   *)
(* points): the splits do not touch, an input ends where its label begins, *)
(* and an entry's label is the one a trade would earn.                     *)
THEOREM SamplesAlwaysSound == ResearchSpec => []SamplesAreSound
<1>1. ResearchInit => SetsInv
  BY DEF ResearchInit, SetsInv
<1>2. BacktestInv /\ SetsInv /\ [ResearchNext]_rvars => SetsInv'
  BY SetsInvKept DEF BacktestInv
<1>3. SetsInv => SamplesAreSound
  BY DEF SetsInv, SamplesAreSound, SplitsDoNotTouch, LabelsAreTrue
<1>. QED
  BY <1>1, <1>2, <1>3, BacktestInvHolds, PTL DEF ResearchSpec

-----------------------------------------------------------------------------
(* Files.  A training is followed by what its record says of its best epoch,*)
(* and by what the file under its name then holds.                         *)
Names      == Types \X (1..Days)
LossOrNaN  == Losses \union {NaN}
Bests      == [loss : LossOrNaN, set : BOOLEAN]
Ideals     == [loss : LossOrNaN, epoch : Nat]
WeightSets == [run : Runs \union {0}, epoch : Int]
Stages     == {"epoch", "checkpoint", "best", "norm", "judge", "test", "done"}

Trained ==
  [at : Stages, type : Types, epoch : Nat, best : Bests, improved : BOOLEAN,
   path : Names \union {NoName}, stop : Bests, counter : Nat, last : LossOrNaN,
   ideal : Ideals, tested : WeightSets]

Trainings == Trained \union [at : {"dead"}, type : Types] \union [at : {"new"}]

FilesTypes ==
  /\ run \in [Runs -> Trainings] /\ day \in 1..Days /\ shared \in Runs \union {0}
  /\ checkpoint \in [run : Runs \union {0}, epoch : Nat, loss : LossOrNaN]
  /\ files \in [Names -> WeightSets] /\ norms \in [Types -> Runs \union {0}]
  /\ loading \in {NoName} \union [name : Names, weights : WeightSets]
  /\ cache \in [Names -> [weights : WeightSets, norm : Runs \union {0, -1}]]

(* What a training knows of its best epoch: the loss to beat is that of    *)
(* the best epoch once it has saved or is to save it; before that it is    *)
(* the one it was resumed with, which no epoch has been better than.       *)
Saved(t)   == t.path # NoName
Pending(t) == t.improved /\ t.at \in {"checkpoint", "best"}

Steady(t) ==
  /\ t.epoch # 0
  /\ t.at = "epoch" /\ t.epoch = 1 => ~t.improved /\ ~Saved(t) /\ t.ideal.epoch = 0
  /\ t.at = "best" => t.improved
  /\ t.at = "norm" => Saved(t)
  /\ t.improved => Saved(t) \/ Pending(t)
  /\ Pending(t) => t.ideal.epoch = t.epoch
  /\ t.ideal.epoch # 0 => t.ideal.loss # NaN
  /\ t.at # "done" =>
       IF t.improved \/ Saved(t)
         THEN t.best.set /\ t.ideal.epoch # 0 /\ t.ideal.loss = t.best.loss
         ELSE t.ideal.epoch # 0 =>
                t.best.set /\ (t.best.loss = NaN \/ t.best.loss <= t.ideal.loss)

(* The file a training saved last holds its best epoch, unless one that    *)
(* bears the same name has been written over it.                           *)
HasItsFile(r) ==
  LET t == run[r]  w == files[t.path]
  IN Saved(t) =>
       IF w.run = r THEN Pending(t) \/ w.epoch = t.ideal.epoch
       ELSE w.run \in Runs /\ {r, w.run} \in rivals

Tested(r) ==
  LET t == run[r]  w == t.tested
  IN \/ w.run # r /\ {r, w.run} \in rivals
     \/ w.run = r /\ w.epoch = IF t.path = NoName THEN t.epoch - 1 ELSE t.ideal.epoch

BestKept ==
  /\ checkpoint.run # 0 => checkpoint.epoch # 0
  /\ \A r \in Runs : run[r] \in Trained =>
       /\ Steady(run[r]) /\ HasItsFile(r)
       /\ run[r].at = "done" => Tested(r)

(* The parameters in save_dir are those of whoever began last, so a        *)
(* training that is under way ran beside it.                               *)
Began(c, type) == run[c].at # "new" /\ run[c].type = type
Beside(c, m)   == c = m \/ {c, m} \in met

NormsExplained ==
  /\ \A c \in Runs : Alive(c) => Beside(c, shared)
  /\ \A type \in Types : norms[type] # 0 => \E c \in Runs : Began(c, type) /\ Beside(c, norms[type])
  /\ \A n \in Names :
       \/ cache[n] = NotLoaded \/ cache[n].norm = 0
       \/ \E c \in Runs : Began(c, n[1]) /\ Beside(c, cache[n].norm)

FilesInv == FilesTypes /\ BestKept /\ NormsExplained

LEMMA AtIs ==
  ASSUME NEW t \in Trained, NEW v \in Stages
  PROVE  LET n == [t EXCEPT !.at = v]
         IN /\ n \in Trained /\ n.at = v
            /\ n.type = t.type /\ n.epoch = t.epoch /\ n.best = t.best /\ n.improved = t.improved /\ n.path = t.path /\ n.stop = t.stop /\ n.counter = t.counter /\ n.last = t.last /\ n.ideal = t.ideal /\ n.tested = t.tested
  BY DEF Trained

LEMMA EpochIs ==
  ASSUME NEW t \in Trained, NEW v \in Nat
  PROVE  LET n == [t EXCEPT !.epoch = v]
         IN /\ n \in Trained /\ n.epoch = v
            /\ n.at = t.at /\ n.type = t.type /\ n.best = t.best /\ n.improved = t.improved /\ n.path = t.path /\ n.stop = t.stop /\ n.counter = t.counter /\ n.last = t.last /\ n.ideal = t.ideal /\ n.tested = t.tested
  BY DEF Trained

LEMMA BestIs ==
  ASSUME NEW t \in Trained, NEW v \in Bests
  PROVE  LET n == [t EXCEPT !.best = v]
         IN /\ n \in Trained /\ n.best = v
            /\ n.at = t.at /\ n.type = t.type /\ n.epoch = t.epoch /\ n.improved = t.improved /\ n.path = t.path /\ n.stop = t.stop /\ n.counter = t.counter /\ n.last = t.last /\ n.ideal = t.ideal /\ n.tested = t.tested
  BY DEF Trained

LEMMA ImprovedIs ==
  ASSUME NEW t \in Trained, NEW v \in BOOLEAN
  PROVE  LET n == [t EXCEPT !.improved = v]
         IN /\ n \in Trained /\ n.improved = v
            /\ n.at = t.at /\ n.type = t.type /\ n.epoch = t.epoch /\ n.best = t.best /\ n.path = t.path /\ n.stop = t.stop /\ n.counter = t.counter /\ n.last = t.last /\ n.ideal = t.ideal /\ n.tested = t.tested
  BY DEF Trained

LEMMA PathIs ==
  ASSUME NEW t \in Trained, NEW v \in Names \union {NoName}
  PROVE  LET n == [t EXCEPT !.path = v]
         IN /\ n \in Trained /\ n.path = v
            /\ n.at = t.at /\ n.type = t.type /\ n.epoch = t.epoch /\ n.best = t.best /\ n.improved = t.improved /\ n.stop = t.stop /\ n.counter = t.counter /\ n.last = t.last /\ n.ideal = t.ideal /\ n.tested = t.tested
  BY DEF Trained

LEMMA StopIs ==
  ASSUME NEW t \in Trained, NEW v \in Bests
  PROVE  LET n == [t EXCEPT !.stop = v]
         IN /\ n \in Trained /\ n.stop = v
            /\ n.at = t.at /\ n.type = t.type /\ n.epoch = t.epoch /\ n.best = t.best /\ n.improved = t.improved /\ n.path = t.path /\ n.counter = t.counter /\ n.last = t.last /\ n.ideal = t.ideal /\ n.tested = t.tested
  BY DEF Trained

LEMMA CounterIs ==
  ASSUME NEW t \in Trained, NEW v \in Nat
  PROVE  LET n == [t EXCEPT !.counter = v]
         IN /\ n \in Trained /\ n.counter = v
            /\ n.at = t.at /\ n.type = t.type /\ n.epoch = t.epoch /\ n.best = t.best /\ n.improved = t.improved /\ n.path = t.path /\ n.stop = t.stop /\ n.last = t.last /\ n.ideal = t.ideal /\ n.tested = t.tested
  BY DEF Trained

LEMMA LastIs ==
  ASSUME NEW t \in Trained, NEW v \in LossOrNaN
  PROVE  LET n == [t EXCEPT !.last = v]
         IN /\ n \in Trained /\ n.last = v
            /\ n.at = t.at /\ n.type = t.type /\ n.epoch = t.epoch /\ n.best = t.best /\ n.improved = t.improved /\ n.path = t.path /\ n.stop = t.stop /\ n.counter = t.counter /\ n.ideal = t.ideal /\ n.tested = t.tested
  BY DEF Trained

LEMMA IdealIs ==
  ASSUME NEW t \in Trained, NEW v \in Ideals
  PROVE  LET n == [t EXCEPT !.ideal = v]
         IN /\ n \in Trained /\ n.ideal = v
            /\ n.at = t.at /\ n.type = t.type /\ n.epoch = t.epoch /\ n.best = t.best /\ n.improved = t.improved /\ n.path = t.path /\ n.stop = t.stop /\ n.counter = t.counter /\ n.last = t.last /\ n.tested = t.tested
  BY DEF Trained

LEMMA TestedIs ==
  ASSUME NEW t \in Trained, NEW v \in WeightSets
  PROVE  LET n == [t EXCEPT !.tested = v]
         IN /\ n \in Trained /\ n.tested = v
            /\ n.at = t.at /\ n.type = t.type /\ n.epoch = t.epoch /\ n.best = t.best /\ n.improved = t.improved /\ n.path = t.path /\ n.stop = t.stop /\ n.counter = t.counter /\ n.last = t.last /\ n.ideal = t.ideal
  BY DEF Trained

(* Epoch and Judge as they change the record of a training.                *)
EpochOf(t, loss) ==
  [t EXCEPT !.at = "checkpoint", !.last = loss, !.improved = Improves(t, loss),
            !.ideal = IF loss # NaN /\ (@.epoch = 0 \/ loss < @.loss)
                        THEN [loss |-> loss, epoch |-> t.epoch] ELSE @,
            !.best = IF Improves(t, loss) THEN [loss |-> loss, set |-> TRUE] ELSE @]

LEMMA EpochEffect ==
  ASSUME NEW t \in Trained, NEW loss \in LossOrNaN
  PROVE  LET n == EpochOf(t, loss)
         IN /\ n \in Trained
            /\ n.at = "checkpoint" /\ n.type = t.type /\ n.epoch = t.epoch
            /\ n.path = t.path
            /\ n.improved <=> Improves(t, loss)
            /\ n.best = IF Improves(t, loss) THEN [loss |-> loss, set |-> TRUE] ELSE t.best
            /\ n.ideal = IF loss # NaN /\ (t.ideal.epoch = 0 \/ loss < t.ideal.loss)
                           THEN [loss |-> loss, epoch |-> t.epoch] ELSE t.ideal
<1>. DEFINE better == Improves(t, loss)
            best   == IF better THEN [loss |-> loss, set |-> TRUE] ELSE t.best
            ideal  == IF loss # NaN /\ (t.ideal.epoch = 0 \/ loss < t.ideal.loss)
                        THEN [loss |-> loss, epoch |-> t.epoch] ELSE t.ideal
            a == [t EXCEPT !.at = "checkpoint"]
            b == [a EXCEPT !.last = loss]
            c == [b EXCEPT !.improved = better]
            d == [c EXCEPT !.ideal = ideal]
            e == [d EXCEPT !.best = best]
<1>0. EpochOf(t, loss) = e
  BY DEF EpochOf
<1>1. better \in BOOLEAN
  BY DEF Improves, Less
<1>2. t.epoch \in Nat /\ t.best \in Bests /\ t.ideal \in Ideals
  BY DEF Trained
<1>3. best \in Bests /\ ideal \in Ideals
  BY <1>2 DEF Bests, Ideals
<1>. HIDE DEF better, best, ideal
<1>4. /\ a \in Trained /\ a.at = "checkpoint" /\ a.type = t.type /\ a.epoch = t.epoch
      /\ a.path = t.path
  BY AtIs DEF Stages
<1>. HIDE DEF a
<1>5. /\ b \in Trained /\ b.at = "checkpoint" /\ b.type = t.type /\ b.epoch = t.epoch
      /\ b.path = t.path
  BY <1>4, LastIs
<1>. HIDE DEF b
<1>6. /\ c \in Trained /\ c.at = "checkpoint" /\ c.type = t.type /\ c.epoch = t.epoch
      /\ c.path = t.path /\ c.improved = better
  BY <1>5, <1>1, ImprovedIs
<1>. HIDE DEF c
<1>7. /\ d \in Trained /\ d.at = "checkpoint" /\ d.type = t.type /\ d.epoch = t.epoch
      /\ d.path = t.path /\ d.improved = better /\ d.ideal = ideal
  BY <1>6, <1>3, IdealIs
<1>. HIDE DEF d
<1>8. /\ e \in Trained /\ e.at = "checkpoint" /\ e.type = t.type /\ e.epoch = t.epoch
      /\ e.path = t.path /\ e.improved = better /\ e.ideal = ideal /\ e.best = best
  BY <1>7, <1>3, BestIs
<1>. HIDE DEF e
<1>. QED
  BY <1>0, <1>8 DEF better, best, ideal

JudgeOf(t, loss) ==
  LET s == EarlyStopping(t, loss)
      ends == s.counter >= Patience \/ s.epoch >= MaxEpochs
  IN [s EXCEPT !.at = IF ends THEN "test" ELSE "epoch", !.epoch = @ + 1]

LEMMA JudgeEffect ==
  ASSUME NEW t \in Trained, NEW loss \in LossOrNaN
  PROVE  LET n == JudgeOf(t, loss)
         IN /\ n \in Trained
            /\ n.at \in {"test", "epoch"} /\ n.type = t.type /\ n.epoch = t.epoch + 1
            /\ n.path = t.path /\ n.improved = t.improved
            /\ n.best = t.best /\ n.ideal = t.ideal
<1>. DEFINE s == EarlyStopping(t, loss)
<1>1. /\ s \in Trained /\ s.type = t.type /\ s.epoch = t.epoch /\ s.path = t.path
      /\ s.improved = t.improved /\ s.best = t.best /\ s.ideal = t.ideal
  <2>1. CASE Worse(t, loss)
    <3>1. t.counter + 1 \in Nat
      BY DEF Trained
    <3>2. s = [t EXCEPT !.counter = t.counter + 1]
      BY <2>1 DEF EarlyStopping
    <3>. QED
      BY <3>1, <3>2, CounterIs
  <2>2. CASE ~Worse(t, loss)
    <3>. DEFINE counter == IF t.stop.set THEN 0 ELSE t.counter
                stop == [loss |-> loss, set |-> TRUE]
                u == [t EXCEPT !.stop = stop]
    <3>1. s = [u EXCEPT !.counter = counter]
      BY <2>2 DEF EarlyStopping
    <3>2. counter \in Nat
      BY DEF Trained
    <3>3. stop \in Bests
      BY DEF Bests
    <3>. HIDE DEF counter, stop
    <3>4. /\ u \in Trained /\ u.type = t.type /\ u.epoch = t.epoch /\ u.path = t.path
          /\ u.improved = t.improved /\ u.best = t.best /\ u.ideal = t.ideal
      BY <3>3, StopIs
    <3>. HIDE DEF u
    <3>. QED
      BY <3>1, <3>2, <3>4, CounterIs
  <2>. QED
    BY <2>1, <2>2
<1>. HIDE DEF s
<1>. DEFINE at == IF s.counter >= Patience \/ s.epoch >= MaxEpochs THEN "test" ELSE "epoch"
            epoch == s.epoch + 1
            u == [s EXCEPT !.at = at]
<1>2. JudgeOf(t, loss) = [u EXCEPT !.epoch = epoch]
  BY DEF JudgeOf, s
<1>3. epoch \in Nat /\ epoch = t.epoch + 1
  BY <1>1 DEF Trained
<1>4. at \in {"test", "epoch"} /\ at \in Stages
  BY DEF Stages
<1>. HIDE DEF at, epoch
<1>5. /\ u \in Trained /\ u.at = at /\ u.type = t.type /\ u.path = t.path
      /\ u.improved = t.improved /\ u.best = t.best /\ u.ideal = t.ideal
  BY <1>1, <1>4, AtIs
<1>. HIDE DEF u
<1>. QED
  BY <1>2, <1>3, <1>4, <1>5, EpochIs

TestOf(t, w) ==
  [t EXCEPT !.at = "done", !.stop = Unset, !.best = Unset, !.counter = 0,
            !.improved = FALSE, !.last = NaN, !.tested = w]

LEMMA TestEffect ==
  ASSUME NEW t \in Trained, NEW w \in WeightSets
  PROVE  LET n == TestOf(t, w)
         IN /\ n \in Trained
            /\ n.at = "done" /\ n.type = t.type /\ n.epoch = t.epoch
            /\ n.path = t.path /\ n.ideal = t.ideal /\ n.tested = w /\ ~n.improved
<1>. DEFINE a == [t EXCEPT !.at = "done"]
            b == [a EXCEPT !.stop = Unset]
            c == [b EXCEPT !.best = Unset]
            d == [c EXCEPT !.counter = 0]
            e == [d EXCEPT !.improved = FALSE]
            f == [e EXCEPT !.last = NaN]
            g == [f EXCEPT !.tested = w]
            Same(n) == n.type = t.type /\ n.epoch = t.epoch /\ n.path = t.path /\ n.ideal = t.ideal
<1>0. TestOf(t, w) = g
  BY DEF TestOf
<1>1. Unset \in Bests /\ NaN \in LossOrNaN
  BY DEF Unset, Bests, LossOrNaN
<1>2. a \in Trained /\ a.at = "done" /\ Same(a)
  BY AtIs DEF Stages
<1>. HIDE DEF a
<1>3. b \in Trained /\ b.at = "done" /\ Same(b)
  BY <1>1, <1>2, StopIs
<1>. HIDE DEF b
<1>4. c \in Trained /\ c.at = "done" /\ Same(c)
  BY <1>1, <1>3, BestIs
<1>. HIDE DEF c
<1>5. d \in Trained /\ d.at = "done" /\ Same(d)
  BY <1>4, CounterIs
<1>. HIDE DEF d
<1>6. e \in Trained /\ e.at = "done" /\ Same(e) /\ e.improved = FALSE
  BY <1>5, ImprovedIs
<1>. HIDE DEF e
<1>7. f \in Trained /\ f.at = "done" /\ Same(f) /\ f.improved = FALSE
  BY <1>1, <1>6, LastIs
<1>. HIDE DEF f
<1>. QED
  BY <1>0, <1>7, TestedIs

(* A training's step: its record goes from one of Trained to another.      *)
Trains(r) ==
  \/ Resume(r) \/ Epoch(r) \/ SaveCheckpoint(r) \/ SaveBest(r) \/ CopyNorm(r)
  \/ Judge(r) \/ Test(r)

LEMMA AtTrained ==
  ASSUME FilesTypes, NEW r \in Runs, run[r].at \in Stages
  PROVE  run[r] \in Trained
BY DEF FilesTypes, Trainings, Stages

LEMMA GoesEffect ==
  ASSUME FilesTypes, NEW r \in Runs, run[r] \in Trained, NEW at \in Stages, Goes(r, at)
  PROVE  /\ run' = [run EXCEPT ![r] = run'[r]] /\ run'[r] \in Trained
         /\ run'[r].at = at
         /\ run'[r].type = run[r].type /\ run'[r].epoch = run[r].epoch
         /\ run'[r].best = run[r].best /\ run'[r].improved = run[r].improved
         /\ run'[r].path = run[r].path /\ run'[r].ideal = run[r].ideal
         /\ run'[r].last = run[r].last
<1>. PICK n : n = [run[r] EXCEPT !.at = at]
  OBVIOUS
<1>1. run' = [run EXCEPT ![r] = n]
  BY DEF Goes, Becomes
<1>2. run'[r] = n
  BY <1>1 DEF FilesTypes
<1>3. /\ n \in Trained /\ n.at = at /\ n.type = run[r].type /\ n.epoch = run[r].epoch
      /\ n.best = run[r].best /\ n.improved = run[r].improved
      /\ n.path = run[r].path /\ n.ideal = run[r].ideal /\ n.last = run[r].last
  BY AtIs
<1>. QED
  BY <1>1, <1>2, <1>3

LEMMA ResumeEffect ==
  ASSUME FilesTypes, NEW r \in Runs, Resume(r)
  PROVE  /\ run[r] \in Trained /\ run[r].at = "epoch" /\ run[r].epoch = 1 /\ checkpoint.run # 0
         /\ run' = [run EXCEPT ![r] = run'[r]] /\ run'[r] \in Trained
         /\ run'[r].at = "epoch" /\ run'[r].type = run[r].type
         /\ run'[r].epoch = checkpoint.epoch + 1
         /\ run'[r].best = [loss |-> checkpoint.loss, set |-> TRUE]
         /\ run'[r].improved = run[r].improved /\ run'[r].path = run[r].path
         /\ run'[r].ideal = run[r].ideal
<1>. DEFINE best  == [loss |-> checkpoint.loss, set |-> TRUE]
            epoch == checkpoint.epoch + 1
            u == [run[r] EXCEPT !.epoch = epoch]
<1>0. run[r] \in Trained /\ run[r].at = "epoch" /\ run[r].epoch = 1 /\ checkpoint.run # 0
  BY AtTrained DEF Resume, At, Stages
<1>1. best \in Bests /\ epoch \in Nat
  BY DEF FilesTypes, Bests
<1>2. run' = [run EXCEPT ![r] = [u EXCEPT !.best = best]]
  BY DEF Resume, Becomes
<1>. HIDE DEF best, epoch
<1>3. /\ u \in Trained /\ u.at = "epoch" /\ u.type = run[r].type /\ u.epoch = epoch
      /\ u.improved = run[r].improved /\ u.path = run[r].path /\ u.ideal = run[r].ideal
  BY <1>0, <1>1, EpochIs
<1>. HIDE DEF u
<1>. PICK n : n = [u EXCEPT !.best = best]
  OBVIOUS
<1>4. /\ n \in Trained /\ n.at = "epoch" /\ n.type = run[r].type /\ n.epoch = epoch
      /\ n.best = best
      /\ n.improved = run[r].improved /\ n.path = run[r].path /\ n.ideal = run[r].ideal
  BY <1>1, <1>3, BestIs
<1>5. run' = [run EXCEPT ![r] = n]
  BY <1>2
<1>6. run'[r] = n
  BY <1>5 DEF FilesTypes
<1>. QED
  BY <1>0, <1>4, <1>5, <1>6 DEF best, epoch

LEMMA EpochMoves ==
  ASSUME FilesTypes, NEW r \in Runs, Epoch(r)
  PROVE  /\ run[r] \in Trained /\ run[r].at = "epoch"
         /\ run' = [run EXCEPT ![r] = run'[r]]
         /\ \E loss \in LossOrNaN : run'[r] = EpochOf(run[r], loss)
<1>1. run[r] \in Trained /\ run[r].at = "epoch"
  BY AtTrained DEF Epoch, At, Stages
<1>2. PICK loss \in LossOrNaN : run' = [run EXCEPT ![r] = EpochOf(run[r], loss)]
  BY DEF Epoch, EpochOf, Becomes, LossOrNaN
<1>3. run'[r] = EpochOf(run[r], loss)
  BY <1>2 DEF FilesTypes
<1>. QED
  BY <1>1, <1>2, <1>3

LEMMA JudgeMoves ==
  ASSUME FilesTypes, NEW r \in Runs, Judge(r)
  PROVE  /\ run[r] \in Trained /\ run[r].at = "judge"
         /\ run' = [run EXCEPT ![r] = run'[r]]
         /\ run'[r] = JudgeOf(run[r], run[r].last) /\ run[r].last \in LossOrNaN
<1>1. run[r] \in Trained /\ run[r].at = "judge"
  BY AtTrained DEF Judge, At, Stages
<1>2. run' = [run EXCEPT ![r] = JudgeOf(run[r], run[r].last)]
  BY DEF Judge, JudgeOf, Becomes
<1>3. run'[r] = JudgeOf(run[r], run[r].last)
  BY <1>2 DEF FilesTypes
<1>. QED
  BY <1>1, <1>2, <1>3 DEF Trained

LEMMA TestMoves ==
  ASSUME FilesTypes, NEW r \in Runs, Test(r)
  PROVE  /\ run[r] \in Trained /\ run[r].at = "test"
         /\ run' = [run EXCEPT ![r] = run'[r]]
         /\ LET w == IF run[r].path = NoName THEN Weights(r, run[r].epoch - 1)
                     ELSE files[run[r].path]
            IN w \in WeightSets /\ run'[r] = TestOf(run[r], w)
<1>. DEFINE w == IF run[r].path = NoName THEN Weights(r, run[r].epoch - 1)
                 ELSE files[run[r].path]
<1>1. run[r] \in Trained /\ run[r].at = "test"
  BY AtTrained DEF Test, At, Stages
<1>2. w \in WeightSets
  BY <1>1 DEF FilesTypes, Trained, Weights, WeightSets
<1>3. run' = [run EXCEPT ![r] = TestOf(run[r], w)]
  BY DEF Test, TestOf, Becomes
<1>. HIDE DEF w
<1>4. run'[r] = TestOf(run[r], w)
  BY <1>3 DEF FilesTypes
<1>5. run' = [run EXCEPT ![r] = run'[r]]
  BY <1>3, <1>4
<1>. QED
  BY <1>1, <1>2, <1>4, <1>5 DEF w

LEMMA SaveBestMoves ==
  ASSUME FilesTypes, NEW r \in Runs, SaveBest(r)
  PROVE  /\ run[r] \in Trained /\ run[r].at = "best" /\ Name(r) \in Names
         /\ run' = [run EXCEPT ![r] = run'[r]] /\ run'[r] \in Trained
         /\ run'[r].at = "norm" /\ run'[r].path = Name(r)
         /\ run'[r].type = run[r].type /\ run'[r].epoch = run[r].epoch
         /\ run'[r].best = run[r].best /\ run'[r].improved = run[r].improved
         /\ run'[r].ideal = run[r].ideal
         /\ files' = [files EXCEPT ![Name(r)] = Weights(r, run[r].epoch)]
         /\ Weights(r, run[r].epoch) \in WeightSets
<1>. DEFINE u == [run[r] EXCEPT !.at = "norm"]
<1>0. run[r] \in Trained /\ run[r].at = "best"
  BY AtTrained DEF SaveBest, At, Stages
<1>1. Name(r) \in Names /\ Weights(r, run[r].epoch) \in WeightSets
  BY <1>0 DEF Name, Names, FilesTypes, Trained, Weights, WeightSets
<1>2. /\ run' = [run EXCEPT ![r] = [u EXCEPT !.path = Name(r)]]
      /\ files' = [files EXCEPT ![Name(r)] = Weights(r, run[r].epoch)]
  BY DEF SaveBest, Becomes
<1>3. /\ u \in Trained /\ u.at = "norm" /\ u.type = run[r].type /\ u.epoch = run[r].epoch
      /\ u.best = run[r].best /\ u.improved = run[r].improved /\ u.ideal = run[r].ideal
  BY <1>0, AtIs DEF Stages
<1>. HIDE DEF u
<1>. PICK n : n = [u EXCEPT !.path = Name(r)]
  OBVIOUS
<1>4. /\ n \in Trained /\ n.at = "norm" /\ n.type = run[r].type /\ n.epoch = run[r].epoch
      /\ n.best = run[r].best /\ n.improved = run[r].improved /\ n.ideal = run[r].ideal
      /\ n.path = Name(r)
  BY <1>1, <1>3, PathIs
<1>5. run' = [run EXCEPT ![r] = n]
  BY <1>2
<1>6. run'[r] = n
  BY <1>5 DEF FilesTypes
<1>. QED
  BY <1>0, <1>1, <1>2, <1>4, <1>5, <1>6

LEMMA TrainsShape ==
  ASSUME FilesTypes, NEW r \in Runs, Trains(r)
  PROVE  /\ run[r] \in Trained /\ run[r].at # "done"
         /\ run' = [run EXCEPT ![r] = run'[r]]
         /\ run'[r] \in Trained /\ run'[r].type = run[r].type
         /\ UNCHANGED <<day, shared, loading, cache, met>>
<1>1. CASE Resume(r)
  BY <1>1, ResumeEffect DEF Resume, FilesUnchanged
<1>2. CASE Epoch(r)
  <2>1. UNCHANGED <<day, shared, loading, cache, met>>
    BY <1>2 DEF Epoch, FilesUnchanged
  <2>2. run[r] \in Trained /\ run[r].at = "epoch" /\ run' = [run EXCEPT ![r] = run'[r]]
    BY <1>2, EpochMoves
  <2>3. PICK loss \in LossOrNaN : run'[r] = EpochOf(run[r], loss)
    BY <1>2, EpochMoves
  <2>4. EpochOf(run[r], loss) \in Trained /\ EpochOf(run[r], loss).type = run[r].type
    BY <2>2, EpochEffect, Zenon
  <2>. QED
    BY <2>1, <2>2, <2>3, <2>4
<1>3. CASE SaveCheckpoint(r)
  <2>1. run[r] \in Trained /\ run[r].at = "checkpoint"
    BY <1>3, AtTrained DEF SaveCheckpoint, At, Stages
  <2>2. PICK at \in {"best", "judge"} : Goes(r, at)
    BY <1>3 DEF SaveCheckpoint
  <2>3. at \in Stages
    BY DEF Stages
  <2>. QED
    BY <1>3, <2>1, <2>2, <2>3, GoesEffect DEF SaveCheckpoint
<1>4. CASE SaveBest(r)
  BY <1>4, SaveBestMoves DEF SaveBest
<1>5. CASE CopyNorm(r)
  <2>1. run[r] \in Trained /\ run[r].at = "norm"
    BY <1>5, AtTrained DEF CopyNorm, At, Stages
  <2>2. "judge" \in Stages
    BY DEF Stages
  <2>. QED
    BY <1>5, <2>1, <2>2, GoesEffect DEF CopyNorm
<1>6. CASE Judge(r)
  <2>1. UNCHANGED <<day, shared, loading, cache, met>>
    BY <1>6 DEF Judge, FilesUnchanged
  <2>. QED
    BY <1>6, <2>1, JudgeMoves, JudgeEffect
<1>7. CASE Test(r)
  <2>1. UNCHANGED <<day, shared, loading, cache, met>>
    BY <1>7 DEF Test, FilesUnchanged
  <2>2. run[r] \in Trained /\ run[r].at = "test" /\ run' = [run EXCEPT ![r] = run'[r]]
    BY <1>7, TestMoves
  <2>3. PICK w \in WeightSets : run'[r] = TestOf(run[r], w)
    BY <1>7, TestMoves
  <2>4. TestOf(run[r], w) \in Trained /\ TestOf(run[r], w).type = run[r].type
    BY <2>2, TestEffect, Zenon
  <2>. QED
    BY <2>1, <2>2, <2>3, <2>4
<1>. QED
  BY <1>1, <1>2, <1>3, <1>4, <1>5, <1>6, <1>7 DEF Trains

(* The record a training begins with.                                      *)
Fresh(type) ==
  [at |-> "epoch", type |-> type, epoch |-> 1,
   best |-> Unset, improved |-> FALSE, path |-> NoName, stop |-> Unset,
   counter |-> 0, last |-> NaN, ideal |-> [loss |-> NaN, epoch |-> 0],
   tested |-> NoWeights]

LEMMA FreshTrained ==
  ASSUME NEW type \in Types
  PROVE  LET n == Fresh(type)
         IN /\ n \in Trained /\ n.at = "epoch" /\ n.type = type /\ n.epoch = 1
            /\ ~n.improved /\ n.path = NoName /\ n.ideal.epoch = 0
<1>1. /\ Unset \in Bests /\ NaN \in LossOrNaN /\ NoWeights \in WeightSets
      /\ [loss |-> NaN, epoch |-> 0] \in Ideals
  BY DEF Unset, Bests, LossOrNaN, Weights, NoWeights, WeightSets, Ideals
<1>. QED
  BY <1>1 DEF Fresh, Trained, Stages

LEMMA SetupMoves ==
  ASSUME FilesTypes, NEW r \in Runs, NEW type \in Types, Setup(r, type)
  PROVE  /\ run[r] = NoRun /\ run'[r] = Fresh(type)
         /\ run' = [run EXCEPT ![r] = Fresh(type)]
         /\ shared' = r
         /\ met' = met \union {{r, s} : s \in {s \in Runs : Alive(s)}}
         /\ UNCHANGED <<day, checkpoint, files, norms, loading, cache, rivals>>
<1>1. run' = [run EXCEPT ![r] = Fresh(type)]
  BY DEF Setup, Becomes, Fresh
<1>. QED
  BY <1>1 DEF Setup, FilesTypes

LEMMA KilledMoves ==
  ASSUME FilesTypes, NEW r \in Runs, Killed(r)
  PROVE  /\ run[r] \in Trained /\ Alive(r)
         /\ run'[r] = [at |-> "dead", type |-> run[r].type] /\ run'[r] \in Trainings
         /\ run' = [run EXCEPT ![r] = run'[r]]
         /\ UNCHANGED <<day, shared, checkpoint, files, norms, loading, cache, met, rivals>>
<1>1. run[r] \in Trained /\ Alive(r)
  BY DEF Killed, Alive, FilesTypes, Trainings
<1>2. run' = [run EXCEPT ![r] = [at |-> "dead", type |-> run[r].type]]
  BY DEF Killed, Becomes
<1>3. run[r].type \in Types
  BY <1>1 DEF Trained
<1>4. [at |-> "dead", type |-> run[r].type] \in Trainings
  BY <1>3 DEF Trainings
<1>. QED
  BY <1>1, <1>2, <1>4 DEF Killed, FilesUnchanged, FilesTypes

LEMMA FilesTypesInit == FilesInit => FilesTypes
<1>. SUFFICES ASSUME FilesInit PROVE FilesTypes
  OBVIOUS
<1>1. NoRun \in Trainings /\ NoWeights \in WeightSets
  BY DEF NoRun, Trainings, NoWeights, Weights, WeightSets
<1>2. NotLoaded \in [weights : WeightSets, norm : Runs \union {0, -1}]
  BY <1>1 DEF NotLoaded
<1>3. 1 \in 1..Days /\ NaN \in LossOrNaN
  BY FilesAssumption DEF LossOrNaN
<1>. QED
  BY <1>1, <1>2, <1>3 DEF FilesInit, FilesTypes, Names

LEMMA FilesTypesKept ==
  ASSUME FilesTypes, FilesNext
  PROVE  FilesTypes'
<1>1. ASSUME NEW r \in Runs, Trains(r) PROVE FilesTypes'
  <2>0. /\ run' \in [Runs -> Trainings] /\ run[r] \in Trained
        /\ UNCHANGED <<day, shared, loading, cache, met>>
    BY <1>1, TrainsShape DEF FilesTypes, Trainings
  <2>1. run[r].epoch \in Nat /\ run[r].last \in LossOrNaN /\ run[r].type \in Types
    BY <2>0 DEF Trained
  <2>2. checkpoint' \in [run : Runs \union {0}, epoch : Nat, loss : LossOrNaN]
    <3>1. CASE SaveCheckpoint(r)
      BY <3>1, <2>1 DEF SaveCheckpoint
    <3>2. CASE ~SaveCheckpoint(r)
      BY <1>1, <3>2 DEF FilesTypes, Trains, Resume, Epoch, SaveBest, CopyNorm, Judge, Test, FilesUnchanged
    <3>. QED
      BY <3>1, <3>2
  <2>3. norms' \in [Types -> Runs \union {0}]
    BY <1>1, <2>1 DEF FilesTypes, Trains, Resume, Epoch, SaveCheckpoint, SaveBest, CopyNorm, Judge, Test,
                      FilesUnchanged
  <2>4. files' \in [Names -> WeightSets]
    <3>1. CASE SaveBest(r)
      BY <3>1, SaveBestMoves DEF FilesTypes
    <3>2. CASE ~SaveBest(r)
      BY <1>1, <3>2 DEF FilesTypes, Trains, Resume, Epoch, SaveCheckpoint, CopyNorm, Judge, Test,
                      FilesUnchanged
    <3>. QED
      BY <3>1, <3>2
  <2>. QED
    BY <2>0, <2>2, <2>3, <2>4 DEF FilesTypes
<1>2. ASSUME NEW r \in Runs, NEW type \in Types, Setup(r, type) PROVE FilesTypes'
  <2>1. run' \in [Runs -> Trainings]
    BY <1>2, SetupMoves, FreshTrained DEF FilesTypes, Trainings
  <2>. QED
    BY <1>2, <2>1, SetupMoves DEF FilesTypes
<1>3. ASSUME NEW r \in Runs, Killed(r) PROVE FilesTypes'
  BY <1>3, KilledMoves DEF FilesTypes
<1>4. ASSUME NEW n \in DOMAIN files, LoadWeights(n) PROVE FilesTypes'
  BY <1>4 DEF FilesTypes, LoadWeights
<1>5. CASE LoadNorm
  <2>1. loading \in [name : Names, weights : WeightSets]
    BY <1>5 DEF LoadNorm, FilesTypes
  <2>2. norms[loading.name[1]] \in Runs \union {0}
    BY <2>1 DEF FilesTypes, Names
  <2>3. [weights |-> loading.weights, norm |-> norms[loading.name[1]]]
          \in [weights : WeightSets, norm : Runs \union {0, -1}]
    BY <2>1, <2>2
  <2>. QED
    BY <1>5, <2>1, <2>3 DEF LoadNorm, FilesTypes
<1>6. CASE Restart
  <2>1. NotLoaded \in [weights : WeightSets, norm : Runs \union {0, -1}]
    BY DEF NotLoaded, NoWeights, Weights, WeightSets
  <2>. QED
    BY <1>6, <2>1 DEF Restart, FilesTypes
<1>7. CASE Midnight
  BY <1>7, FilesAssumption DEF Midnight, FilesTypes
<1>. QED
  BY <1>1, <1>2, <1>3, <1>4, <1>5, <1>6, <1>7 DEF FilesNext, Training, Trains

(* No training forgets its type, and only Setup begins one.                *)
LEMMA TrainingsGoOn ==
  ASSUME FilesTypes, FilesNext
  PROVE  /\ \A c \in Runs, type \in Types : Began(c, type) => Began(c, type)'
         /\ met \subseteq met'
         /\ (\A r \in Runs, type \in Types : ~Setup(r, type)) =>
              shared' = shared /\ \A c \in Runs : Alive(c)' => Alive(c)
<1>1. ASSUME NEW r \in Runs, Trains(r)
      PROVE  /\ \A c \in Runs, type \in Types : Began(c, type) => Began(c, type)'
             /\ \A c \in Runs : Alive(c)' => Alive(c)
             /\ met' = met /\ shared' = shared
  <2>1. /\ run[r] \in Trained /\ run[r].at # "done" /\ run' = [run EXCEPT ![r] = run'[r]]
        /\ run'[r] \in Trained /\ run'[r].type = run[r].type
        /\ met' = met /\ shared' = shared
    BY <1>1, TrainsShape
  <2>2. run[r].at \in Stages /\ run'[r].at \in Stages
    BY <2>1 DEF Trained
  <2>. QED
    BY <2>1, <2>2 DEF Began, Alive, FilesTypes, Stages
<1>2. ASSUME NEW r \in Runs, NEW type \in Types, Setup(r, type)
      PROVE  /\ \A c \in Runs, ty \in Types : Began(c, ty) => Began(c, ty)'
             /\ met \subseteq met'
  <2>1. /\ run[r] = NoRun /\ run' = [run EXCEPT ![r] = Fresh(type)] /\ met \subseteq met'
    BY <1>2, SetupMoves
  <2>. QED
    BY <2>1 DEF Began, NoRun, FilesTypes
<1>3. ASSUME NEW r \in Runs, Killed(r)
      PROVE  /\ \A c \in Runs, type \in Types : Began(c, type) => Began(c, type)'
             /\ \A c \in Runs : Alive(c)' => Alive(c)
             /\ met' = met /\ shared' = shared
  <2>1. /\ run[r] \in Trained /\ Alive(r) /\ run' = [run EXCEPT ![r] = run'[r]]
        /\ run'[r] = [at |-> "dead", type |-> run[r].type] /\ met' = met /\ shared' = shared
    BY <1>3, KilledMoves
  <2>2. run'[r].at = "dead" /\ run'[r].type = run[r].type
    BY <2>1
  <2>. QED
    BY <2>1, <2>2 DEF Began, Alive, FilesTypes
<1>4. ASSUME \/ \E n \in DOMAIN files : LoadWeights(n)
             \/ LoadNorm \/ Restart \/ Midnight
      PROVE  /\ run' = run /\ met' = met /\ shared' = shared
  BY <1>4 DEF LoadWeights, LoadNorm, Restart, Midnight
<1>5. CASE \E r \in Runs : Trains(r)
  BY <1>1, <1>5
<1>6. CASE \E r \in Runs, type \in Types : Setup(r, type)
  BY <1>2, <1>6
<1>7. CASE \E r \in Runs : Killed(r)
  BY <1>3, <1>7
<1>8. CASE ~(\E r \in Runs : Training(r))
  BY <1>4, <1>8 DEF FilesNext, Began, Alive
<1>. QED
  BY <1>5, <1>6, <1>7, <1>8 DEF Training, Trains

LEMMA NormsExplainedInit == FilesInit => NormsExplained
BY DEF FilesInit, NormsExplained, Alive, NoRun, NotLoaded, Names

LEMMA NormsExplainedKept ==
  ASSUME FilesTypes, NormsExplained, FilesNext
  PROVE  NormsExplained'
<1>1. /\ \A c \in Runs, type \in Types : Began(c, type) => Began(c, type)'
      /\ met \subseteq met'
  BY TrainingsGoOn
<1>2. \A c, m : Beside(c, m) => c = m \/ {c, m} \in met'
  BY <1>1 DEF Beside
<1>3. ASSUME NEW c \in Runs, Alive(c)' PROVE c = shared' \/ {c, shared'} \in met'
  <2>1. CASE \E r \in Runs, type \in Types : Setup(r, type)
    <3>1. PICK r \in Runs, type \in Types : Setup(r, type)
      BY <2>1
    <3>2. /\ run[r] = NoRun /\ run' = [run EXCEPT ![r] = Fresh(type)] /\ shared' = r
          /\ met' = met \union {{r, s} : s \in {s \in Runs : Alive(s)}}
      BY <3>1, SetupMoves
    <3>3. CASE c = r
      BY <3>2, <3>3 DEF Beside
    <3>4. CASE c # r
      <4>1. Alive(c)
        BY <1>3, <3>2, <3>4 DEF Alive, FilesTypes
      <4>2. {c, r} \in met'
        BY <3>2, <4>1
      <4>. QED
        BY <3>2, <4>2 DEF Beside
    <3>. QED
      BY <3>3, <3>4
  <2>2. CASE \A r \in Runs, type \in Types : ~Setup(r, type)
    <3>1. shared' = shared /\ Alive(c)
      BY <1>3, <2>2, TrainingsGoOn
    <3>. QED
      BY <1>2, <3>1 DEF NormsExplained, Beside
  <2>. QED
    BY <2>1, <2>2
<1>4. ASSUME NEW type \in Types, norms'[type] # 0
      PROVE  \E c \in Runs : Began(c, type)' /\ (c = norms'[type] \/ {c, norms'[type]} \in met')
  <2>1. CASE norms'[type] = norms[type]
    <3>1. PICK c \in Runs : Began(c, type) /\ Beside(c, norms[type])
      BY <1>4, <2>1 DEF NormsExplained
    <3>. QED
      BY <1>1, <1>2, <2>1, <3>1 DEF Beside
  <2>2. CASE norms'[type] # norms[type]
    <3>1. PICK r \in Runs : CopyNorm(r)
      BY <2>2 DEF FilesNext, Training, Setup, Resume, Epoch, SaveCheckpoint, SaveBest, Judge, Test, Killed,
                  FilesUnchanged, LoadWeights, LoadNorm, Restart, Midnight
    <3>2. run[r].at = "norm" /\ norms' = [norms EXCEPT ![run[r].type] = shared]
      BY <3>1 DEF CopyNorm, At
    <3>3. type = run[r].type /\ norms'[type] = shared
      BY <2>2, <3>2 DEF FilesTypes
    <3>4. Alive(r) /\ Began(r, type)
      BY <3>2, <3>3 DEF Alive, Began
    <3>5. Beside(r, shared)
      BY <3>4 DEF NormsExplained
    <3>. QED
      BY <1>1, <1>2, <3>3, <3>4, <3>5 DEF Beside
  <2>. QED
    BY <2>1, <2>2
<1>5. ASSUME NEW n \in Names, cache'[n] # NotLoaded, cache'[n].norm # 0
      PROVE  \E c \in Runs : Began(c, n[1])' /\ (c = cache'[n].norm \/ {c, cache'[n].norm} \in met')
  <2>0. n[1] \in Types
    BY DEF Names
  <2>1. CASE cache'[n] = cache[n]
    <3>1. PICK c \in Runs : Began(c, n[1]) /\ Beside(c, cache[n].norm)
      BY <1>5, <2>1 DEF NormsExplained
    <3>. QED
      BY <1>1, <1>2, <2>0, <2>1, <3>1 DEF Beside
  <2>2. CASE cache'[n] # cache[n]
    <3>1. LoadNorm \/ Restart
      BY <2>2 DEF FilesNext, Training, Setup, Resume, Epoch, SaveCheckpoint, SaveBest, CopyNorm, Judge, Test,
                  Killed, FilesUnchanged, LoadWeights, Midnight
    <3>2. CASE Restart
      BY <1>5, <3>2 DEF Restart, FilesTypes
    <3>3. CASE LoadNorm
      <4>1. loading \in [name : Names, weights : WeightSets]
        BY <3>3 DEF LoadNorm, FilesTypes
      <4>2. n = loading.name /\ cache'[n] = [weights |-> loading.weights, norm |-> norms[n[1]]]
        BY <2>2, <3>3, <4>1 DEF LoadNorm, FilesTypes
      <4>3. cache'[n].norm = norms[n[1]]
        BY <4>2
      <4>4. PICK c \in Runs : Began(c, n[1]) /\ Beside(c, norms[n[1]])
        BY <1>5, <2>0, <4>3 DEF NormsExplained
      <4>. QED
        BY <1>1, <1>2, <2>0, <4>3, <4>4 DEF Beside
    <3>. QED
      BY <3>1, <3>2, <3>3
  <2>. QED
    BY <2>1, <2>2
<1>6. \A n \in Names :
        \/ cache'[n] = NotLoaded \/ cache'[n].norm = 0
        \/ \E c \in Runs : Began(c, n[1])' /\ (c = cache'[n].norm \/ {c, cache'[n].norm} \in met')
  BY <1>5
<1>7. \A type \in Types : norms'[type] # 0 =>
        \E c \in Runs : Began(c, type)' /\ (c = norms'[type] \/ {c, norms'[type]} \in met')
  BY <1>4
<1>8. \A c \in Runs : Alive(c)' => c = shared' \/ {c, shared'} \in met'
  BY <1>3
<1>. QED
  BY <1>6, <1>7, <1>8, Zenon DEF NormsExplained, Beside, Began

HoldsBest(r) == Steady(run[r]) /\ HasItsFile(r) /\ (run[r].at = "done" => Tested(r))

(* A training whose record and file stay as they are.                      *)
LEMMA KeptByOthers ==
  ASSUME NEW s \in Runs, HoldsBest(s), run'[s] = run[s], rivals \subseteq rivals',
         files'[run[s].path] = files[run[s].path]
  PROVE  HoldsBest(s)'
BY DEF HoldsBest, HasItsFile, Tested

LEMMA TrainsAlone ==
  ASSUME FilesTypes, NEW r \in Runs, Trains(r), ~SaveBest(r)
  PROVE  files' = files /\ rivals' = rivals
BY DEF Trains, Resume, Epoch, SaveCheckpoint, CopyNorm, Judge, Test, FilesUnchanged

LEMMA EpochKeeps ==
  ASSUME FilesTypes, NEW r \in Runs, Epoch(r), run[r] \in Trained => HoldsBest(r)
  PROVE  HoldsBest(r)'
<1>. DEFINE t == run[r]  n == run'[r]
<1>1. t \in Trained /\ t.at = "epoch" /\ files' = files /\ rivals' = rivals
  BY EpochMoves DEF Epoch, FilesUnchanged
<1>2. PICK loss \in LossOrNaN : n = EpochOf(t, loss)
  BY EpochMoves
<1>. HIDE DEF t, n
<1>3. /\ n \in Trained
      /\ n.at = "checkpoint" /\ n.epoch = t.epoch /\ n.path = t.path
      /\ n.improved <=> Improves(t, loss)
      /\ n.best = IF Improves(t, loss) THEN [loss |-> loss, set |-> TRUE] ELSE t.best
      /\ n.ideal = IF loss # NaN /\ (t.ideal.epoch = 0 \/ loss < t.ideal.loss)
                     THEN [loss |-> loss, epoch |-> t.epoch] ELSE t.ideal
  BY <1>1, <1>2, EpochEffect
<1>4. HoldsBest(r)
  BY <1>1 DEF t
<1>5. /\ t.best \in Bests /\ t.ideal \in Ideals /\ t.epoch \in Nat /\ t.improved \in BOOLEAN
      /\ LossOrNaN \subseteq Nat
  BY <1>1, FilesAssumption DEF Trained, LossOrNaN, NaN
<1>6. Steady(t)
  BY <1>4 DEF HoldsBest, t
<1>9. t.best.loss \in Nat /\ t.ideal.loss \in Nat /\ loss \in Nat
  <2>1. t.best.loss \in LossOrNaN /\ t.ideal.loss \in LossOrNaN
    BY <1>5 DEF Bests, Ideals
  <2>. QED
    BY <1>5, <2>1
<1>7. CASE Improves(t, loss)
  <2>1. loss # NaN /\ (t.ideal.epoch = 0 \/ loss < t.ideal.loss)
    <3>1. loss # NaN
      BY <1>7 DEF Improves, Less
    <3>2. CASE t.ideal.epoch # 0
      <4>1. t.best.set /\ (t.best.loss = NaN \/ t.best.loss <= t.ideal.loss)
        BY <1>1, <1>6, <1>9, <3>2 DEF Steady
      <4>2. Less(loss, t.best.loss)
        BY <1>7, <4>1 DEF Improves
      <4>. QED
        BY <1>9, <3>1, <4>1, <4>2 DEF Less, NaN
    <3>. QED
      BY <3>1, <3>2
  <2>2. n.best = [loss |-> loss, set |-> TRUE] /\ n.ideal = [loss |-> loss, epoch |-> t.epoch]
    BY <1>3, <1>7, <2>1
  <2>3. n.improved
    BY <1>3, <1>7
  <2>4. n.best.set /\ n.best.loss = loss /\ n.ideal.loss = loss /\ n.ideal.epoch = t.epoch
    BY <2>2
  <2>5. Steady(n) /\ Pending(n)
    BY <1>3, <1>6, <2>1, <2>3, <2>4 DEF Steady, Pending
  <2>6. HasItsFile(r)'
    BY <1>1, <1>3, <1>4, <2>5 DEF HoldsBest, HasItsFile, Saved, t, n
  <2>. QED
    BY <1>3, <2>5, <2>6 DEF HoldsBest, n
<1>8. CASE ~Improves(t, loss)
  <2>1. n.best = t.best /\ ~n.improved
    BY <1>3, <1>8
  <2>2. CASE Saved(t)
    <3>1. t.best.set /\ t.ideal.epoch # 0 /\ t.ideal.loss = t.best.loss /\ t.ideal.loss # NaN
      BY <1>1, <1>6, <2>2 DEF Steady
    <3>2. ~(loss # NaN /\ loss < t.ideal.loss)
      BY <1>8, <3>1 DEF Improves, Less
    <3>3. n.ideal = t.ideal
      BY <1>3, <3>1, <3>2
    <3>4. Steady(n)
      BY <1>3, <1>6, <2>1, <2>2, <3>1, <3>3 DEF Steady, Pending, Saved
    <3>5. HasItsFile(r)'
      BY <1>1, <1>3, <1>4, <3>3 DEF HoldsBest, HasItsFile, Saved, Pending, t, n
    <3>. QED
      BY <1>3, <3>4, <3>5 DEF HoldsBest, n
  <2>3. CASE ~Saved(t)
    <3>1. ~t.improved
      BY <1>1, <1>6, <2>3 DEF Steady, Pending
    <3>2. /\ t.ideal.epoch # 0 => t.best.set /\ (t.best.loss = NaN \/ t.best.loss <= t.ideal.loss)
          /\ t.ideal.epoch # 0 => t.ideal.loss # NaN
      BY <1>1, <1>6, <2>3, <3>1 DEF Steady
    <3>3. /\ n.ideal.epoch # 0 => t.best.set /\ (t.best.loss = NaN \/ t.best.loss <= n.ideal.loss)
          /\ n.ideal.epoch # 0 => n.ideal.loss # NaN
      <4>1. CASE loss # NaN /\ (t.ideal.epoch = 0 \/ loss < t.ideal.loss)
        <5>1. n.ideal.loss = loss
          BY <1>3, <4>1
        <5>2. t.best.set /\ ~Less(loss, t.best.loss)
          BY <1>8, <4>1 DEF Improves
        <5>. QED
          BY <1>9, <4>1, <5>1, <5>2 DEF Less, NaN
      <4>2. CASE ~(loss # NaN /\ (t.ideal.epoch = 0 \/ loss < t.ideal.loss))
        BY <1>3, <3>2, <4>2
      <4>. QED
        BY <4>1, <4>2
    <3>4. Steady(n)
      BY <1>3, <1>6, <2>1, <2>3, <3>3 DEF Steady, Pending, Saved
    <3>5. HasItsFile(r)'
      BY <1>3, <2>3 DEF HasItsFile, Saved, t, n
    <3>. QED
      BY <1>3, <3>4, <3>5 DEF HoldsBest, n
  <2>. QED
    BY <2>2, <2>3
<1>. QED
  BY <1>7, <1>8

(* Steps that leave what a training knows of its best epoch.               *)
LEMMA ResumeKeeps ==
  ASSUME FilesTypes, BestKept, NEW r \in Runs, Resume(r)
  PROVE  HoldsBest(r)'
<1>. DEFINE t == run[r]  n == run'[r]
<1>1. /\ t \in Trained /\ t.at = "epoch" /\ t.epoch = 1 /\ checkpoint.run # 0
      /\ n \in Trained /\ n.at = "epoch" /\ n.epoch = checkpoint.epoch + 1
      /\ n.improved = t.improved /\ n.path = t.path /\ n.ideal = t.ideal
  BY ResumeEffect
<1>2. files' = files /\ rivals' = rivals
  BY DEF Resume, FilesUnchanged
<1>3. checkpoint.epoch \in Nat /\ checkpoint.epoch # 0
  BY <1>1 DEF FilesTypes, BestKept
<1>4. Steady(t)
  BY <1>1 DEF BestKept
<1>. HIDE DEF t, n
<1>5. ~t.improved /\ ~Saved(t) /\ t.ideal.epoch = 0
  BY <1>1, <1>4 DEF Steady
<1>6. Steady(n)
  BY <1>1, <1>3, <1>5 DEF Steady, Saved, Pending
<1>7. ~Saved(n)
  BY <1>1, <1>5 DEF Saved
<1>. QED
  BY <1>1, <1>6, <1>7 DEF HoldsBest, HasItsFile, n

LEMMA GoesKeeps ==
  ASSUME FilesTypes, NEW r \in Runs, HoldsBest(r), files' = files, rivals' = rivals,
         LET t == run[r]  n == run'[r]
         IN /\ t.epoch \in Nat /\ n.epoch \in {t.epoch, t.epoch + 1}
            /\ n.best = t.best /\ n.improved = t.improved
            /\ n.path = t.path /\ n.ideal = t.ideal
            /\ t.at # "done" /\ n.at \notin {"done", "norm"} /\ (n.at = "best" => t.improved)
            /\ n.at = "epoch" => n.epoch = t.epoch + 1
            /\ Pending(t) <=> Pending(n) 
            /\ Pending(t) => n.epoch = t.epoch
  PROVE  HoldsBest(r)'
<1>. DEFINE t == run[r]  n == run'[r]
<1>1. Steady(t)
  BY DEF HoldsBest
<1>2. HasItsFile(r)
  BY DEF HoldsBest
<1>3. Steady(n)
  BY <1>1 DEF Steady, Saved
<1>4. HasItsFile(r)'
  BY <1>2 DEF HasItsFile, Saved
<1>. QED
  BY <1>3, <1>4 DEF HoldsBest

LEMMA SaveCheckpointKeeps ==
  ASSUME FilesTypes, NEW r \in Runs, SaveCheckpoint(r), run[r] \in Trained => HoldsBest(r)
  PROVE  HoldsBest(r)' /\ checkpoint'.epoch # 0
<1>1. run[r] \in Trained /\ run[r].at = "checkpoint"
  BY AtTrained DEF SaveCheckpoint, At, Stages
<1>2. PICK at \in {"best", "judge"} : Goes(r, at) /\ (at = "best" <=> run[r].improved)
  BY DEF SaveCheckpoint
<1>3. at \in Stages
  BY DEF Stages
<1>4. /\ run'[r].at = at /\ run'[r].epoch = run[r].epoch /\ run'[r].best = run[r].best
      /\ run'[r].improved = run[r].improved /\ run'[r].path = run[r].path
      /\ run'[r].ideal = run[r].ideal
  BY <1>1, <1>2, <1>3, GoesEffect
<1>5. Pending(run[r]) <=> Pending(run'[r])
  BY <1>1, <1>2, <1>4 DEF Pending
<1>6. run[r].epoch \in Nat
  BY <1>1 DEF Trained
<1>7. files' = files /\ rivals' = rivals /\ checkpoint'.epoch = run[r].epoch
  BY DEF SaveCheckpoint
<1>8. HoldsBest(r)'
  BY <1>1, <1>2, <1>4, <1>5, <1>6, <1>7, GoesKeeps
<1>9. run[r].epoch # 0
  BY <1>1 DEF HoldsBest, Steady
<1>. QED
  BY <1>7, <1>8, <1>9

LEMMA CopyNormKeeps ==
  ASSUME FilesTypes, NEW r \in Runs, CopyNorm(r), run[r] \in Trained => HoldsBest(r)
  PROVE  HoldsBest(r)'
<1>1. run[r] \in Trained /\ run[r].at = "norm" /\ Goes(r, "judge")
  BY AtTrained DEF CopyNorm, At, Stages
<1>2. "judge" \in Stages
  BY DEF Stages
<1>3. /\ run'[r].at = "judge" /\ run'[r].epoch = run[r].epoch /\ run'[r].best = run[r].best
      /\ run'[r].improved = run[r].improved /\ run'[r].path = run[r].path
      /\ run'[r].ideal = run[r].ideal
  BY <1>1, <1>2, GoesEffect
<1>4. ~Pending(run[r]) /\ ~Pending(run'[r]) /\ run[r].epoch \in Nat
  BY <1>1, <1>3 DEF Pending, Trained
<1>5. files' = files /\ rivals' = rivals
  BY DEF CopyNorm
<1>. QED
  BY <1>1, <1>3, <1>4, <1>5, GoesKeeps

LEMMA JudgeKeeps ==
  ASSUME FilesTypes, NEW r \in Runs, Judge(r), run[r] \in Trained => HoldsBest(r)
  PROVE  HoldsBest(r)'
<1>1. run[r] \in Trained /\ run[r].at = "judge"
  BY JudgeMoves
<1>2. run'[r] = JudgeOf(run[r], run[r].last) /\ run[r].last \in LossOrNaN
  BY JudgeMoves
<1>3. /\ run'[r].at \in {"test", "epoch"} /\ run'[r].epoch = run[r].epoch + 1
      /\ run'[r].best = run[r].best /\ run'[r].improved = run[r].improved
      /\ run'[r].path = run[r].path /\ run'[r].ideal = run[r].ideal
  <2>. PICK t \in Trained, loss \in LossOrNaN : t = run[r] /\ loss = run[r].last
    BY <1>1, <1>2
  <2>. PICK n : n = run'[r]
    OBVIOUS
  <2>1. n = JudgeOf(t, loss)
    BY <1>2
  <2>. QED
    BY <2>1, JudgeEffect
<1>4. ~Pending(run[r]) /\ ~Pending(run'[r]) /\ run[r].epoch \in Nat
  BY <1>1, <1>3 DEF Pending, Trained
<1>5. files' = files /\ rivals' = rivals
  BY DEF Judge, FilesUnchanged
<1>. QED
  BY <1>1, <1>3, <1>4, <1>5, GoesKeeps

(* What is evaluated in the end.                                           *)
LEMMA TestKeeps ==
  ASSUME FilesTypes, NEW r \in Runs, Test(r), run[r] \in Trained => HoldsBest(r)
  PROVE  HoldsBest(r)'
<1>. DEFINE t == run[r]  n == run'[r]
            w == IF t.path = NoName THEN Weights(r, t.epoch - 1) ELSE files[t.path]
<1>1. /\ t \in Trained /\ t.at = "test" /\ files' = files /\ rivals' = rivals
      /\ w \in WeightSets /\ n = TestOf(t, w)
  BY TestMoves DEF Test, FilesUnchanged
<1>2. HoldsBest(r)
  BY <1>1
<1>3. Steady(t) /\ HasItsFile(r)
  BY <1>2 DEF HoldsBest
<1>4. /\ n.at = "done" /\ n.epoch = t.epoch /\ n.path = t.path /\ n.ideal = t.ideal
      /\ n.tested = w /\ ~n.improved
  <2>. PICK u \in Trained, v \in WeightSets : u = t /\ v = w
    BY <1>1
  <2>. PICK m : m = n
    OBVIOUS
  <2>1. m = TestOf(u, v)
    BY <1>1
  <2>. HIDE DEF t, n, w
  <2>. QED
    BY <2>1, TestEffect
<1>5. Tested(r)'
  <2>1. CASE t.path = NoName
    <3>1. w.run = r /\ w.epoch = t.epoch - 1
      BY <2>1 DEF Weights
    <3>. QED
      BY <1>4, <2>1, <3>1 DEF Tested
  <2>2. CASE t.path # NoName
    <3>1. w = files[t.path] /\ ~Pending(t)
      BY <1>1, <2>2 DEF Pending
    <3>. HIDE DEF w
    <3>2. IF w.run = r THEN w.epoch = t.ideal.epoch ELSE {r, w.run} \in rivals
      BY <1>3, <2>2, <3>1 DEF HasItsFile, Saved
    <3>. QED
      BY <1>1, <1>4, <2>2, <3>2 DEF Tested
  <2>. QED
    BY <2>1, <2>2
<1>6. HasItsFile(r)'
  <2>1. ~Pending(t)
    BY <1>1 DEF Pending
  <2>. QED
    BY <1>1, <1>3, <1>4, <2>1 DEF HasItsFile, Saved, Pending
<1>7. Steady(n)
  <2>. HIDE DEF t, n, w
  <2>. QED
    BY <1>1, <1>3, <1>4 DEF Steady, Saved, Pending
<1>. QED
  BY <1>5, <1>6, <1>7 DEF HoldsBest

LEMMA SaveBestKeeps ==
  ASSUME FilesTypes, NEW r \in Runs, SaveBest(r), \A s \in Runs : run[s] \in Trained => HoldsBest(s)
  PROVE  \A s \in Runs : run'[s] \in Trained => HoldsBest(s)'
<1>1. /\ run[r] \in Trained /\ run[r].at = "best" /\ Name(r) \in Names
      /\ run' = [run EXCEPT ![r] = run'[r]] /\ run'[r] \in Trained
      /\ run'[r].at = "norm" /\ run'[r].path = Name(r)
      /\ run'[r].epoch = run[r].epoch /\ run'[r].best = run[r].best
      /\ run'[r].improved = run[r].improved /\ run'[r].ideal = run[r].ideal
      /\ files' = [files EXCEPT ![Name(r)] = Weights(r, run[r].epoch)]
  BY SaveBestMoves
<1>2. rivals' = rivals \union {{r, s} : s \in Namesakes(r)}
  BY DEF SaveBest
<1>3. Name(r) # NoName
  BY DEF Name, NoName
<1>4. files'[Name(r)] = Weights(r, run[r].epoch) /\ Weights(r, run[r].epoch).run = r
      /\ Weights(r, run[r].epoch).epoch = run[r].epoch
  BY <1>1 DEF FilesTypes, Weights
<1>5. ASSUME NEW s \in Runs, run'[s] \in Trained, s # r
      PROVE  HoldsBest(s)'
  <2>1. run'[s] = run[s] /\ HoldsBest(s)
    BY <1>1, <1>5 DEF FilesTypes
  <2>2. CASE run[s].path # Name(r)
    <3>1. run[s].path = NoName \/ files'[run[s].path] = files[run[s].path]
      BY <1>1, <1>5, <2>1, <2>2 DEF FilesTypes, Trained
    <3>2. HasItsFile(s)'
      BY <1>2, <2>1, <3>1 DEF HoldsBest, HasItsFile, Saved
    <3>3. Steady(run'[s]) /\ (run'[s].at = "done" => Tested(s)')
      BY <1>2, <2>1 DEF HoldsBest, Tested
    <3>. QED
      BY <3>2, <3>3 DEF HoldsBest
  <2>3. CASE run[s].path = Name(r)
    <3>1. s \in Namesakes(r)
      BY <1>5, <2>1, <2>3 DEF Namesakes, Trained, Stages
    <3>2. {s, r} \in rivals'
      BY <1>2, <3>1
    <3>3. files'[run'[s].path].run = r
      BY <1>4, <2>1, <2>3
    <3>4. HasItsFile(s)'
      BY <1>5, <2>1, <3>2, <3>3 DEF HasItsFile
    <3>5. Steady(run'[s]) /\ (run'[s].at = "done" => Tested(s)')
      BY <1>2, <2>1 DEF HoldsBest, Tested
    <3>. QED
      BY <3>4, <3>5 DEF HoldsBest
  <2>. QED
    BY <2>2, <2>3
<1>6. HoldsBest(r)'
  <2>1. Steady(run[r]) /\ Pending(run[r])
    BY <1>1 DEF HoldsBest, Steady, Pending
  <2>2. run[r].ideal.epoch = run[r].epoch
    BY <2>1 DEF Steady
  <2>3. Steady(run'[r])
    BY <1>1, <1>3, <2>1, <2>2 DEF Steady, Saved, Pending
  <2>4. HasItsFile(r)'
    BY <1>1, <1>4, <2>2 DEF HasItsFile
  <2>. QED
    BY <1>1, <2>3, <2>4 DEF HoldsBest
<1>. QED
  BY <1>5, <1>6

LEMMA BestKeptKept ==
  ASSUME FilesTypes, BestKept, FilesNext
  PROVE  BestKept'
<1>0. \A s \in Runs : run[s] \in Trained => HoldsBest(s)
  BY DEF BestKept, HoldsBest
<1>1. ASSUME NEW r \in Runs, Trains(r)
      PROVE  \A s \in Runs : run'[s] \in Trained => HoldsBest(s)'
  <2>1. CASE SaveBest(r)
    BY <1>0, <2>1, SaveBestKeeps
  <2>2. CASE ~SaveBest(r)
    <3>1. files' = files /\ rivals' = rivals /\ run' = [run EXCEPT ![r] = run'[r]]
      BY <1>1, <2>2, TrainsAlone, TrainsShape
    <3>2. HoldsBest(r)'
      BY <1>0, <1>1, <2>2, ResumeKeeps, EpochKeeps, SaveCheckpointKeeps, CopyNormKeeps, JudgeKeeps, TestKeeps
         DEF Trains
    <3>3. ASSUME NEW s \in Runs, s # r, run'[s] \in Trained PROVE HoldsBest(s)'
      BY <1>0, <3>1, <3>3, KeptByOthers DEF FilesTypes
    <3>. QED
      BY <3>2, <3>3
  <2>. QED
    BY <2>1, <2>2
<1>2. ASSUME NEW r \in Runs, NEW type \in Types, Setup(r, type)
      PROVE  \A s \in Runs : run'[s] \in Trained => HoldsBest(s)'
  <2>1. /\ run' = [run EXCEPT ![r] = Fresh(type)] /\ files' = files /\ rivals' = rivals
        /\ run'[r] = Fresh(type)
    BY <1>2, SetupMoves
  <2>2. HoldsBest(r)'
    <3>. PICK n : n = Fresh(type)
      OBVIOUS
    <3>1. n.at = "epoch" /\ n.epoch = 1 /\ ~n.improved /\ n.path = NoName /\ n.ideal.epoch = 0
      BY FreshTrained
    <3>2. Steady(n) /\ ~Saved(n)
      BY <3>1 DEF Steady, Saved, Pending
    <3>. QED
      BY <2>1, <3>1, <3>2 DEF HoldsBest, HasItsFile
  <2>3. ASSUME NEW s \in Runs, s # r, run'[s] \in Trained PROVE HoldsBest(s)'
    BY <1>0, <2>1, <2>3, KeptByOthers DEF FilesTypes
  <2>. QED
    BY <2>2, <2>3
<1>3. ASSUME NEW r \in Runs, Killed(r)
      PROVE  \A s \in Runs : run'[s] \in Trained => HoldsBest(s)'
  <2>1. /\ run'[r] = [at |-> "dead", type |-> run[r].type]
        /\ run' = [run EXCEPT ![r] = run'[r]] /\ files' = files /\ rivals' = rivals
    BY <1>3, KilledMoves
  <2>2. run'[r] \notin Trained
    BY <2>1 DEF Trained, Stages
  <2>3. ASSUME NEW s \in Runs, s # r, run'[s] \in Trained PROVE HoldsBest(s)'
    BY <1>0, <2>1, <2>3, KeptByOthers DEF FilesTypes
  <2>. QED
    BY <2>2, <2>3
<1>4. ASSUME ~(\E r \in Runs : Training(r))
      PROVE  \A s \in Runs : run'[s] \in Trained => HoldsBest(s)'
  <2>1. run' = run /\ files' = files /\ rivals' = rivals
    BY <1>4 DEF FilesNext, LoadWeights, LoadNorm, Restart, Midnight
  <2>. QED
    BY <1>0, <2>1, KeptByOthers
<1>5. \A s \in Runs : run'[s] \in Trained => HoldsBest(s)'
  BY <1>1, <1>2, <1>3, <1>4 DEF Training, Trains
<1>6. checkpoint'.run # 0 => checkpoint'.epoch # 0
  <2>1. CASE \E r \in Runs : SaveCheckpoint(r)
    BY <1>0, <2>1, SaveCheckpointKeeps
  <2>2. CASE ~(\E r \in Runs : SaveCheckpoint(r))
    <3>1. checkpoint' = checkpoint
      BY <2>2 DEF FilesNext, Training, Setup, Resume, Epoch, SaveBest, CopyNorm, Judge, Test, Killed,
                  FilesUnchanged, LoadWeights, LoadNorm, Restart, Midnight
    <3>. QED
      BY <3>1 DEF BestKept
  <2>. QED
    BY <2>1, <2>2
<1>. QED
  BY <1>5, <1>6, Zenon DEF BestKept, HoldsBest

LEMMA FilesInvHolds == FilesInv => FilesAreTheirs
<1>. SUFFICES ASSUME FilesInv PROVE FilesAreTheirs
  OBVIOUS
<1>1. TestsItsBest
  <2>. SUFFICES ASSUME NEW r \in Runs, At(r, "done") PROVE Tested(r)
    BY DEF TestsItsBest, Tested
  <2>1. run[r] \in Trained /\ run[r].at = "done"
    BY AtTrained DEF FilesInv, At, Stages
  <2>. QED
    BY <2>1 DEF FilesInv, BestKept
<1>2. ServedAsTrained
  <2>. SUFFICES ASSUME NEW n \in DOMAIN cache, cache[n] # NotLoaded, cache[n].norm # 0
                PROVE  \E c \in Runs : /\ run[c].at # "new" /\ run[c].type = n[1]
                                       /\ c = cache[n].norm \/ {c, cache[n].norm} \in met
    BY DEF ServedAsTrained
  <2>1. n \in Names
    BY DEF FilesInv, FilesTypes
  <2>. QED
    BY <2>1 DEF FilesInv, NormsExplained, Began, Beside
<1>. QED
  BY <1>1, <1>2 DEF FilesAreTheirs

LEMMA FilesInvInit == FilesInit => FilesInv
<1>. SUFFICES ASSUME FilesInit PROVE FilesInv
  OBVIOUS
<1>1. \A r \in Runs : run[r] \notin Trained
  BY DEF FilesInit, NoRun, Trained, Stages
<1>2. checkpoint.run = 0
  BY DEF FilesInit
<1>. QED
  BY <1>1, <1>2, FilesTypesInit, NormsExplainedInit DEF FilesInv, BestKept

(* Whatever is studied besides, trainings and server move by FilesNext.    *)
LEMMA FilesStep == ResearchNext => FilesNext \/ UNCHANGED fvars
BY DEF ResearchNext, Record, Fill, TrainSequences, TrainTcn, TrainEntry, Cut, BeginTargets, UpdateTargets,
       ClearFirst, ClearLast, BeginPrediction, SavePredictions, TestSignals, TrainAndServe

LEMMA FilesInvStutters == FilesInv /\ UNCHANGED fvars => FilesInv'
<1>. SUFFICES ASSUME FilesInv, UNCHANGED fvars PROVE FilesInv'
  OBVIOUS
<1>1. FilesTypes'
  BY DEF FilesInv, FilesTypes, fvars
<1>2. BestKept'
  BY DEF FilesInv, BestKept, fvars, HasItsFile, Tested
<1>3. NormsExplained'
  BY DEF FilesInv, NormsExplained, fvars, Alive, Beside, Began
<1>. QED
  BY <1>1, <1>2, <1>3 DEF FilesInv

(* FilesAreTheirs (ml.train, _load_model): the model evaluated in the end  *)
(* is the training's best one and is served with its own parameters,       *)
(* unless trainings met or their files bore one name.                      *)
THEOREM FilesAlwaysTheirs == ResearchSpec => []FilesAreTheirs
<1>1. ResearchInit => FilesInv
  BY FilesInvInit DEF ResearchInit
<1>2. FilesInv /\ [ResearchNext]_rvars => FilesInv'
  <2>. SUFFICES ASSUME FilesInv, [ResearchNext]_rvars PROVE FilesInv'
    OBVIOUS
  <2>1. FilesNext \/ UNCHANGED fvars
    BY FilesStep DEF rvars
  <2>2. CASE FilesNext
    BY <2>2, FilesTypesKept, BestKeptKept, NormsExplainedKept DEF FilesInv
  <2>. QED
    BY <2>1, <2>2, FilesInvStutters
<1>. QED
  BY <1>1, <1>2, FilesInvHolds, PTL DEF ResearchSpec

-----------------------------------------------------------------------------
(* Induction, by the smallest number or set for which it would be wrong.   *)
LEMMA SmallestOf ==
  ASSUME NEW Bad, Bad \subseteq Nat, Bad # {}
  PROVE  \E n \in Bad : \A m \in Bad : n <= m
<1>1. PICK n \in Bad : \A m \in Bad : ~(<<m, n>> \in OpToRel(<, Nat))
  BY NatLessThanWellFounded, WFMin
<1>2. SUFFICES ASSUME NEW m \in Bad, m < n PROVE FALSE
  OBVIOUS
<1>3. <<m, n>> \in OpToRel(<, Nat)
  BY <1>2 DEF OpToRel
<1> QED
  BY <1>1, <1>3

LEMMA SmallestWithin ==
  ASSUME NEW S, IsFiniteSet(S), NEW Bad, Bad \subseteq SUBSET S, Bad # {}
  PROVE  \E T \in Bad : \A U \in Bad : U \subseteq T => U = T
<1>1. FiniteSubsetsOf(S) = SUBSET S
  BY FS_FiniteSubsetsOfFinite
<1>2. IsWellFoundedOn(StrictSubsetOrdering(S), SUBSET S)
  BY <1>1, FS_StrictSubsetOrderingWellFounded
<1>3. PICK T \in Bad : \A U \in Bad : ~(<<U, T>> \in StrictSubsetOrdering(S))
  BY <1>2, WFMin
<1>4. SUFFICES ASSUME NEW U \in Bad, U \subseteq T, U # T PROVE FALSE
  OBVIOUS
<1>5. <<U, T>> \in StrictSubsetOrdering(S)
  BY <1>4 DEF StrictSubsetOrdering
<1> QED
  BY <1>3, <1>4, <1>5

(* What holds of 0, and of each number up to n if of the one before it.    *)
LEMMA Climb ==
  ASSUME NEW n \in Nat, NEW S, 0 \in S, \A i \in 1..n : i - 1 \in S => i \in S
  PROVE  \A i \in 0..n : i \in S
<1> DEFINE Bad == {i \in 0..n : i \notin S}
<1>1. SUFFICES ASSUME Bad # {} PROVE FALSE
  OBVIOUS
<1>2. PICK b \in Bad : \A m \in Bad : b <= m
  <2>1. Bad \subseteq Nat
    OBVIOUS
  <2> HIDE DEF Bad
  <2> QED
    BY <1>1, <2>1, SmallestOf
<1>3. b \in 0..n /\ b \notin S
  OBVIOUS
<1>4. b \in 1..n
  BY <1>3
<1>5. b - 1 \in 0..n /\ b - 1 \notin Bad
  BY <1>2, <1>4
<1> QED
  BY <1>3, <1>4, <1>5

(* A function that is given by its first value and a step from each value  *)
(* to the next exists.                                                     *)
Follows(f, a, n, g) == f[0] = a /\ \A i \in 1..n : f[i] = g[<<i, f[i - 1]>>]

LEMMA StepsExist ==
  ASSUME NEW n \in Nat, NEW X, NEW a \in X, NEW g \in [(1..n) \X X -> X]
  PROVE  \E f \in [0..n -> X] : Follows(f, a, n, g)
<1> DEFINE S == {m \in 0..n : \E f \in [0..n -> X] : Follows(f, a, m, g)}
<1>1. 0 \in S
  <2> DEFINE h == [i \in 0..n |-> a]
  <2>1. h \in [0..n -> X] /\ Follows(h, a, 0, g)
    BY DEF Follows
  <2> HIDE DEF h
  <2>2. \E f \in [0..n -> X] : Follows(f, a, 0, g)
    BY <2>1
  <2>3. 0 \in 0..n
    OBVIOUS
  <2> QED
    BY <2>2, <2>3
<1>2. ASSUME NEW m \in 1..n, m - 1 \in S PROVE m \in S
  <2>1. PICK f \in [0..n -> X] : Follows(f, a, m - 1, g)
    BY <1>2
  <2>2. m - 1 \in 0..n /\ f[m - 1] \in X
    BY <1>2
  <2>3. g[<<m, f[m - 1]>>] \in X
    BY <2>2
  <2> DEFINE h == [f EXCEPT ![m] = g[<<m, f[m - 1]>>]]
  <2>4. h \in [0..n -> X]
    BY <2>3
  <2>5. h[0] = a
    BY <1>2, <2>1 DEF Follows
  <2>6. ASSUME NEW i \in 1..m PROVE h[i] = g[<<i, h[i - 1]>>]
    <3>1. i - 1 \in 0..n /\ i \in 0..n /\ i - 1 # m
      OBVIOUS
    <3>2. h[i - 1] = f[i - 1]
      BY <3>1
    <3>3. CASE i = m
      BY <3>1, <3>2, <3>3
    <3>4. CASE i # m
      <4>1. i \in 1..(m - 1)
        BY <3>4
      <4> QED
        BY <2>1, <3>1, <3>2, <3>4, <4>1 DEF Follows
    <3> QED
      BY <3>3, <3>4
  <2>7. Follows(h, a, m, g)
    BY <2>5, <2>6 DEF Follows
  <2> HIDE DEF h
  <2>8. \E e \in [0..n -> X] : Follows(e, a, m, g)
    BY <2>4, <2>7
  <2>9. m \in 0..n
    OBVIOUS
  <2> QED
    BY <2>8, <2>9
<1> HIDE DEF S
<1>3. \A i \in 0..n : i \in S
  BY <1>1, <1>2, Climb
<1>4. n \in S
  BY <1>3
<1> QED
  BY <1>4 DEF S

-----------------------------------------------------------------------------
(* Sums of functions over finite sets.                                     *)

(* The element that a sum takes out of a set.                              *)
Taken(T) == CHOOSE x \in T : TRUE

(* The sums over all subsets of S, by the sums over smaller ones.          *)
SumsStep(f, S, g) ==
  [T \in SUBSET S |-> IF T = {} THEN 0 ELSE f[Taken(T)] + g[T \ {Taken(T)}]]

SumsOver(f, S) == CHOOSE g : g = SumsStep(f, S, g)

LEMMA SumIsOver ==
  ASSUME NEW f, NEW S
  PROVE  SumFunctionOnSet(f, S) = SumsOver(f, S)[S]
BY DEF SumFunctionOnSet, FoldFunctionOnSet, MapThenFoldSet, Taken, SumsOver, SumsStep

LEMMA TakenIsThere ==
  ASSUME NEW T, T # {}
  PROVE  Taken(T) \in T
BY DEF Taken

LEMMA WithoutTaken ==
  ASSUME NEW S, IsFiniteSet(S), NEW T \in SUBSET S, T # {}
  PROVE  /\ Taken(T) \in S
         /\ T \ {Taken(T)} \in SUBSET S
         /\ Cardinality(T \ {Taken(T)}) = Cardinality(T) - 1
         /\ Cardinality(T) \in Nat \ {0}
<1>1. Taken(T) \in T
  BY TakenIsThere
<1>2. IsFiniteSet(T)
  BY FS_Subset
<1>3. Cardinality(T) \in Nat /\ Cardinality(T \ {Taken(T)}) = Cardinality(T) - 1
  BY <1>1, <1>2, FS_RemoveElement, FS_CardinalityType
<1>4. Cardinality(T) # 0
  BY <1>2, FS_EmptySet
<1> QED
  BY <1>1, <1>3, <1>4

LEMMA SumsExist ==
  ASSUME NEW f, NEW S, IsFiniteSet(S)
  PROVE  SumsOver(f, S) = SumsStep(f, S, SumsOver(f, S))
<1> DEFINE Upto(n, g) == \A T \in SUBSET S : Cardinality(T) <= n => g[T] = SumsStep(f, S, g)[T]
           Good == {n \in 0..Cardinality(S) : \E g : Upto(n, g)}
<1>c. Cardinality(S) \in Nat
  BY FS_CardinalityType
<1>1. 0 \in Good
  <2> DEFINE g == [T \in SUBSET S |-> 0]
  <2>1. SUFFICES ASSUME NEW T \in SUBSET S, Cardinality(T) <= 0
                 PROVE  g[T] = SumsStep(f, S, g)[T]
    BY <1>c
  <2>2. T = {}
    <3>1. SUFFICES ASSUME T # {} PROVE FALSE
      OBVIOUS
    <3>2. Cardinality(T) \in Nat /\ Cardinality(T) > 0
      <4>1. Cardinality(T) \in Nat \ {0}
        BY <3>1, WithoutTaken
      <4> QED
        BY <4>1
    <3> QED
      BY <2>1, <3>2
  <2> QED
    BY <2>2 DEF SumsStep
<1>2. ASSUME NEW n \in 1..Cardinality(S), n - 1 \in Good PROVE n \in Good
  <2>1. PICK g : Upto(n - 1, g)
    BY <1>2
  <2> DEFINE e == SumsStep(f, S, g)
  <2>2. ASSUME NEW T \in SUBSET S, Cardinality(T) <= n
        PROVE  e[T] = SumsStep(f, S, e)[T]
    <3>1. CASE T = {}
      BY <3>1 DEF SumsStep
    <3>2. CASE T # {}
      <4> DEFINE U == T \ {Taken(T)}
      <4>1. U \in SUBSET S /\ Cardinality(U) <= n - 1
        BY <1>c, <2>2, <3>2, WithoutTaken
      <4>2. g[U] = e[U]
        BY <2>1, <4>1
      <4>3. e[T] = f[Taken(T)] + g[U]
        BY <3>2 DEF SumsStep
      <4>4. SumsStep(f, S, e)[T] = f[Taken(T)] + e[U]
        <5> HIDE DEF e
        <5> QED
          BY <3>2 DEF SumsStep
      <4> QED
        BY <4>2, <4>3, <4>4
    <3> QED
      BY <3>1, <3>2
  <2>3. Upto(n, e)
    BY <2>2
  <2> QED
    BY <2>3
<1>3. Cardinality(S) \in Good
  <2> HIDE DEF Good
  <2>1. \A i \in 0..Cardinality(S) : i \in Good
    BY <1>c, <1>1, <1>2, Climb
  <2> QED
    BY <1>c, <2>1
<1>4. PICK g : Upto(Cardinality(S), g)
  BY <1>3
<1> DEFINE e == SumsStep(f, S, g)
<1>5. \A T \in SUBSET S : g[T] = e[T]
  <2>1. \A T \in SUBSET S : Cardinality(T) <= Cardinality(S)
    BY FS_Subset
  <2> QED
    BY <1>4, <2>1
<1>6. e = SumsStep(f, S, e)
  <2>1. ASSUME NEW T \in SUBSET S, T # {}
        PROVE  g[T \ {Taken(T)}] = e[T \ {Taken(T)}]
    BY <1>5, <2>1, WithoutTaken
  <2> HIDE DEF e
  <2>2. e = [T \in SUBSET S |-> IF T = {} THEN 0 ELSE f[Taken(T)] + g[T \ {Taken(T)}]]
    BY DEF e, SumsStep
  <2>3. SumsStep(f, S, e) = [T \in SUBSET S |-> IF T = {} THEN 0 ELSE f[Taken(T)] + e[T \ {Taken(T)}]]
    BY DEF SumsStep
  <2> QED
    BY <2>1, <2>2, <2>3
<1>7. \E h : h = SumsStep(f, S, h)
  BY <1>6
<1> QED
  BY <1>7 DEF SumsOver

LEMMA SumsAre ==
  ASSUME NEW f, NEW S, IsFiniteSet(S), NEW T \in SUBSET S
  PROVE  SumsOver(f, S)[T] = IF T = {} THEN 0 ELSE f[Taken(T)] + SumsOver(f, S)[T \ {Taken(T)}]
<1> DEFINE g == SumsOver(f, S)
<1>1. g = SumsStep(f, S, g)
  BY SumsExist
<1> HIDE DEF g
<1>2. g[T] = SumsStep(f, S, g)[T]
  BY <1>1
<1>3. g[T] = IF T = {} THEN 0 ELSE f[Taken(T)] + g[T \ {Taken(T)}]
  BY <1>2 DEF SumsStep
<1> QED
  BY <1>3 DEF g

(* A sum depends on what is summed up only.                                *)
LEMMA SumsAgree ==
  ASSUME NEW f, NEW g, NEW S, NEW R, IsFiniteSet(S), IsFiniteSet(R),
         NEW T, T \subseteq S, T \subseteq R, \A x \in T : f[x] = g[x]
  PROVE  SumsOver(f, S)[T] = SumsOver(g, R)[T]
<1> DEFINE Bad == {U \in SUBSET T : SumsOver(f, S)[U] # SumsOver(g, R)[U]}
<1>1. SUFFICES ASSUME Bad # {} PROVE FALSE
  OBVIOUS
<1>t. IsFiniteSet(T)
  BY FS_Subset
<1>2. PICK U \in Bad : \A V \in Bad : V \subseteq U => V = U
  <2>1. Bad \subseteq SUBSET T
    OBVIOUS
  <2> HIDE DEF Bad
  <2> QED
    BY <1>1, <1>t, <2>1, SmallestWithin
<1>3. U \in SUBSET T /\ U \in SUBSET S /\ U \in SUBSET R /\ SumsOver(f, S)[U] # SumsOver(g, R)[U]
  OBVIOUS
<1>4. U # {}
  <2>1. SUFFICES ASSUME U = {} PROVE FALSE
    OBVIOUS
  <2>2. SumsOver(f, S)[U] = 0 /\ SumsOver(g, R)[U] = 0
    BY <1>3, <2>1, SumsAre
  <2> QED
    BY <1>3, <2>2
<1> DEFINE x == Taken(U)
           V == U \ {x}
<1>5. x \in T /\ V \in SUBSET T /\ V \subseteq U /\ V # U
  BY <1>3, <1>4, TakenIsThere
<1>6. SumsOver(f, S)[V] = SumsOver(g, R)[V]
  BY <1>2, <1>5
<1>7. /\ SumsOver(f, S)[U] = f[x] + SumsOver(f, S)[V]
      /\ SumsOver(g, R)[U] = g[x] + SumsOver(g, R)[V]
  BY <1>3, <1>4, SumsAre
<1> QED
  BY <1>3, <1>5, <1>6, <1>7

(* A sum is the sum without one of its summands, and that one.             *)
LEMMA SumsWithout ==
  ASSUME NEW f, NEW S, IsFiniteSet(S), \A x \in S : f[x] \in Int, NEW T \in SUBSET S
  PROVE  /\ SumsOver(f, S)[T] \in Int
         /\ \A x \in T : SumsOver(f, S)[T] = f[x] + SumsOver(f, S)[T \ {x}]
<1> DEFINE s == SumsOver(f, S)
           Right(U) == s[U] \in Int /\ \A x \in U : s[U] = f[x] + s[U \ {x}]
           Bad == {U \in SUBSET S : ~Right(U)}
<1>1. SUFFICES ASSUME Bad # {} PROVE FALSE
  OBVIOUS
<1>2. PICK U \in Bad : \A V \in Bad : V \subseteq U => V = U
  <2>1. Bad \subseteq SUBSET S
    OBVIOUS
  <2> HIDE DEF Bad
  <2> QED
    BY <1>1, <2>1, SmallestWithin
<1>3. U \in SUBSET S /\ ~Right(U)
  OBVIOUS
<1>4. U # {}
  <2>1. SUFFICES ASSUME U = {} PROVE FALSE
    OBVIOUS
  <2>2. s[U] = 0
    BY <1>3, <2>1, SumsAre
  <2> QED
    BY <1>3, <2>1, <2>2
<1> DEFINE y == Taken(U)
           V == U \ {y}
<1>5. y \in U /\ y \in S /\ V \in SUBSET S /\ V \subseteq U /\ V # U /\ f[y] \in Int
  BY <1>3, <1>4, TakenIsThere
<1>6. Right(V)
  BY <1>2, <1>5
<1>7. s[U] = f[y] + s[V]
  BY <1>3, <1>4, SumsAre
<1> HIDE DEF s, y
<1>8. s[U] \in Int
  BY <1>5, <1>6, <1>7
<1>9. ASSUME NEW x \in U PROVE s[U] = f[x] + s[U \ {x}]
  <2>1. CASE x = y
    BY <1>7, <2>1
  <2>2. CASE x # y
    <3> DEFINE W == U \ {x}
    <3>1. W \in SUBSET S /\ W \subseteq U /\ W # U /\ y \in W /\ x \in V
      BY <1>3, <1>5, <1>9, <2>2
    <3>2. Right(W)
      BY <1>2, <3>1
    <3>3. s[W] = f[y] + s[W \ {y}]
      BY <3>1, <3>2
    <3>4. s[V] = f[x] + s[V \ {x}]
      BY <1>6, <3>1
    <3>5. V \ {x} = W \ {y}
      OBVIOUS
    <3>6. s[V \ {x}] \in Int
      <4>1. V \ {x} \in SUBSET S /\ V \ {x} \subseteq U /\ V \ {x} # U
        BY <1>3, <1>9
      <4> HIDE DEF V
      <4>2. Right(V \ {x})
        BY <1>2, <4>1
      <4> QED
        BY <4>2
    <3>7. f[x] \in Int
      BY <1>3, <1>9
    <3> HIDE DEF V, W
    <3>8. s[W] = f[y] + s[V \ {x}]
      BY <3>3, <3>5
    <3>9. s[U] = f[y] + (f[x] + s[V \ {x}])
      BY <1>7, <3>4
    <3>10. s[U] = f[x] + s[W]
      BY <1>5, <3>6, <3>7, <3>8, <3>9
    <3> QED
      BY <3>10 DEF W
  <2> QED
    BY <2>1, <2>2
<1> QED
  BY <1>3, <1>8, <1>9

LEMMA SumOnFacts ==
  ASSUME NEW f, NEW S, IsFiniteSet(S), \A x \in S : f[x] \in Int
  PROVE  /\ SumFunctionOnSet(f, S) \in Int
         /\ \A x \in S : SumFunctionOnSet(f, S) = f[x] + SumFunctionOnSet(f, S \ {x})
<1>1. SumsOver(f, S)[S] \in Int /\ \A x \in S : SumsOver(f, S)[S] = f[x] + SumsOver(f, S)[S \ {x}]
  <2>1. S \in SUBSET S
    OBVIOUS
  <2>2. \A T \in SUBSET S :
          /\ SumsOver(f, S)[T] \in Int
          /\ \A x \in T : SumsOver(f, S)[T] = f[x] + SumsOver(f, S)[T \ {x}]
    BY SumsWithout
  <2> QED
    BY <2>1, <2>2
<1>2. ASSUME NEW x \in S PROVE SumsOver(f, S)[S \ {x}] = SumsOver(f, S \ {x})[S \ {x}]
  <2>1. IsFiniteSet(S \ {x})
    BY FS_Subset
  <2> QED
    BY <2>1, SumsAgree
<1> QED
  BY <1>1, <1>2, SumIsOver

LEMMA SumOfNone ==
  ASSUME NEW f
  PROVE  SumFunctionOnSet(f, {}) = 0
<1>1. IsFiniteSet({})
  BY FS_EmptySet
<1>2. {} \in SUBSET {}
  OBVIOUS
<1>3. SumsOver(f, {})[{}] = 0
  BY <1>1, <1>2, SumsAre
<1> QED
  BY <1>3, SumIsOver

LEMMA SumOnAgree ==
  ASSUME NEW f, NEW g, NEW S, IsFiniteSet(S), \A x \in S : f[x] = g[x]
  PROVE  SumFunctionOnSet(f, S) = SumFunctionOnSet(g, S)
<1>1. SumsOver(f, S)[S] = SumsOver(g, S)[S]
  BY SumsAgree
<1> QED
  BY <1>1, SumIsOver
-----------------------------------------------------------------------------
(* Sums along sequences: one number more, one number less.                 *)
LEMMA SumUpTo ==
  ASSUME NEW n \in Nat, NEW h, \A i \in 1..n : h[i] \in Int
  PROVE  /\ SumFunctionOnSet(h, 1..n) \in Int
         /\ n > 0 => SumFunctionOnSet(h, 1..n) = h[n] + SumFunctionOnSet(h, 1..(n - 1))
<1>1. IsFiniteSet(1..n)
  BY FS_Interval
<1>2. SumFunctionOnSet(h, 1..n) \in Int
  BY <1>1, SumOnFacts
<1>3. ASSUME n > 0
      PROVE  SumFunctionOnSet(h, 1..n) = h[n] + SumFunctionOnSet(h, 1..(n - 1))
  <2>1. n \in 1..n /\ (1..n) \ {n} = 1..(n - 1)
    BY <1>3
  <2>2. SumFunctionOnSet(h, 1..n) = h[n] + SumFunctionOnSet(h, (1..n) \ {n})
    <3>1. \A x \in 1..n :
            SumFunctionOnSet(h, 1..n) = h[x] + SumFunctionOnSet(h, (1..n) \ {x})
      BY <1>1, SumOnFacts
    <3> QED
      BY <2>1, <3>1
  <2> QED
    BY <2>1, <2>2
<1> QED
  BY <1>2, <1>3

LEMMA SumAppended ==
  ASSUME NEW n \in Nat, NEW h \in [1..(n + 1) -> Int], NEW g \in [1..n -> Int],
         \A i \in 1..n : g[i] = h[i]
  PROVE  /\ SumFunction(g) \in Int
         /\ SumFunction(h) = SumFunction(g) + h[n + 1]
<1>1. SumFunctionOnSet(g, 1..n) \in Int
  BY SumUpTo
<1>2. SumFunctionOnSet(h, 1..n) = SumFunctionOnSet(g, 1..n)
  <2>1. IsFiniteSet(1..n)
    BY FS_Interval
  <2> QED
    BY <2>1, SumOnAgree
<1>3. SumFunctionOnSet(h, 1..(n + 1)) = h[n + 1] + SumFunctionOnSet(h, 1..n)
  <2>1. n + 1 \in Nat /\ n + 1 > 0 /\ (n + 1) - 1 = n /\ \A i \in 1..(n + 1) : h[i] \in Int
    OBVIOUS
  <2>2. SumFunctionOnSet(h, 1..(n + 1)) = h[n + 1] + SumFunctionOnSet(h, 1..((n + 1) - 1))
    BY <2>1, SumUpTo
  <2> QED
    BY <2>1, <2>2
<1>4. h[n + 1] \in Int
  OBVIOUS
<1>5. DOMAIN h = 1..(n + 1) /\ DOMAIN g = 1..n
  OBVIOUS
<1> QED
  BY <1>1, <1>2, <1>3, <1>4, <1>5 DEF SumFunction

LEMMA SumRemoved ==
  ASSUME NEW n \in Nat, NEW h \in [1..n -> Int], NEW j \in 1..n, NEW g \in [1..(n - 1) -> Int],
         \A i \in 1..(n - 1) : g[i] = IF i < j THEN h[i] ELSE h[i + 1]
  PROVE  SumFunction(h) = SumFunction(g) + h[j]
<1> DEFINE H(m) == SumFunctionOnSet(h, 1..m)
           G(m) == SumFunctionOnSet(g, 1..m)
           Right(m) == IF m < j THEN G(m) = H(m) ELSE H(m + 1) = G(m) + h[j]
           S == {m \in 0..(n - 1) : Right(m)}
<1>h. \A m \in 1..n : H(m) \in Int /\ H(m) = h[m] + H(m - 1)
  <2>1. SUFFICES ASSUME NEW m \in 1..n PROVE H(m) \in Int /\ H(m) = h[m] + H(m - 1)
    OBVIOUS
  <2>2. m \in Nat /\ m > 0 /\ \A i \in 1..m : h[i] \in Int
    OBVIOUS
  <2> QED
    BY <2>2, SumUpTo
<1>g. \A m \in 1..(n - 1) : G(m) \in Int /\ G(m) = g[m] + G(m - 1)
  <2>1. SUFFICES ASSUME NEW m \in 1..(n - 1) PROVE G(m) \in Int /\ G(m) = g[m] + G(m - 1)
    OBVIOUS
  <2>2. m \in Nat /\ m > 0 /\ \A i \in 1..m : g[i] \in Int
    OBVIOUS
  <2> QED
    BY <2>2, SumUpTo
<1>o. H(0) = 0 /\ G(0) = 0
  <2>1. 1..0 = {}
    OBVIOUS
  <2> QED
    BY <2>1, SumOfNone
<1> HIDE DEF H, G
<1>1. 0 \in S
  <2>1. 0 \in 0..(n - 1) /\ 0 < j
    OBVIOUS
  <2> QED
    BY <1>o, <2>1
<1>2. ASSUME NEW m \in 1..(n - 1), m - 1 \in S PROVE m \in S
  <2>1. /\ G(m) = g[m] + G(m - 1) /\ H(m) = h[m] + H(m - 1) /\ H(m + 1) = h[m + 1] + H(m)
        /\ H(m) \in Int /\ H(m + 1) \in Int /\ h[m] \in Int /\ h[m + 1] \in Int
    <3>1. m \in 1..n /\ m + 1 \in 1..n /\ (m + 1) - 1 = m
      OBVIOUS
    <3> QED
      BY <1>h, <1>g, <3>1
  <2>2. G(m - 1) \in Int /\ H(m - 1) \in Int
    <3>1. CASE m = 1
      BY <1>o, <3>1
    <3>2. CASE m # 1
      <4>1. m - 1 \in 1..(n - 1) /\ m - 1 \in 1..n
        BY <3>2
      <4> QED
        BY <1>h, <1>g, <4>1
    <3> QED
      BY <3>1, <3>2
  <2>3. Right(m - 1)
    BY <1>2
  <2>4. CASE m < j
    <3>1. g[m] = h[m] /\ m - 1 < j
      BY <2>4
    <3>2. G(m) = H(m)
      BY <2>1, <2>3, <3>1
    <3> QED
      BY <2>4, <3>2
  <2>5. CASE m = j
    <3>1. g[m] = h[m + 1] /\ m - 1 < j
      BY <2>5
    <3>2. H(m + 1) = G(m) + h[j]
      BY <2>1, <2>2, <2>3, <2>5, <3>1
    <3> QED
      BY <2>5, <3>2
  <2>6. CASE m > j
    <3>1. g[m] = h[m + 1] /\ ~(m - 1 < j) /\ (m - 1) + 1 = m
      BY <2>6
    <3>2. H(m) = G(m - 1) + h[j]
      BY <2>3, <3>1
    <3>3. h[j] \in Int
      OBVIOUS
    <3>4. H(m + 1) = G(m) + h[j]
      BY <2>1, <2>2, <3>1, <3>2, <3>3
    <3> QED
      BY <2>6, <3>4
  <2> QED
    BY <2>4, <2>5, <2>6
<1>3. n - 1 \in S
  <2> HIDE DEF S
  <2>1. n - 1 \in Nat
    OBVIOUS
  <2>2. \A m \in 0..(n - 1) : m \in S
    BY <1>1, <1>2, <2>1, Climb
  <2> QED
    BY <2>1, <2>2
<1>4. ~(n - 1 < j) \/ n = j
  OBVIOUS
<1>5. H(n) = G(n - 1) + h[j]
  <2>1. CASE n = j
    <3>1. n - 1 < j /\ n \in 1..n /\ h[n] \in Int
      BY <2>1
    <3>2. G(n - 1) = H(n - 1) /\ H(n) = h[n] + H(n - 1) /\ H(n) \in Int
      BY <1>3, <1>h, <3>1
    <3>3. H(n - 1) \in Int
      <4>1. CASE n = 1
        BY <1>o, <4>1
      <4>2. CASE n # 1
        <5>1. n - 1 \in 1..n
          BY <4>2
        <5> QED
          BY <1>h, <5>1
      <4> QED
        BY <4>1, <4>2
    <3> QED
      BY <2>1, <3>1, <3>2, <3>3
  <2>2. CASE n # j
    <3>1. ~(n - 1 < j) /\ (n - 1) + 1 = n
      BY <2>2
    <3> QED
      BY <1>3, <3>1
  <2> QED
    BY <2>1, <2>2
<1>6. DOMAIN h = 1..n /\ DOMAIN g = 1..(n - 1)
  OBVIOUS
<1> QED
  BY <1>5, <1>6 DEF SumFunction, H, G

(* What the elements of a sequence are worth by v.                         *)
Worths(s, v) == SumFunction([i \in DOMAIN s |-> v[s[i]]])

LEMMA WorthsOfNone ==
  ASSUME NEW v
  PROVE  Worths(<<>>, v) = 0
<1>1. DOMAIN [i \in DOMAIN <<>> |-> v[<<>>[i]]] = {}
  OBVIOUS
<1> QED
  BY <1>1, SumOfNone DEF Worths, SumFunction

LEMMA WorthsType ==
  ASSUME NEW R, NEW s \in Seq(R), NEW v \in [R -> Int]
  PROVE  Worths(s, v) \in Int
<1> DEFINE h == [i \in DOMAIN s |-> v[s[i]]]
<1>1. DOMAIN h = 1..Len(s) /\ Len(s) \in Nat /\ \A i \in 1..Len(s) : h[i] \in Int
  OBVIOUS
<1> HIDE DEF h
<1>2. SumFunctionOnSet(h, 1..Len(s)) \in Int
  BY <1>1, SumUpTo
<1> QED
  BY <1>1, <1>2 DEF Worths, SumFunction, h

LEMMA WorthsAppended ==
  ASSUME NEW R, NEW s \in Seq(R), NEW v \in [R -> Int], NEW e \in R
  PROVE  Worths(Append(s, e), v) = Worths(s, v) + v[e]
<1> DEFINE t == Append(s, e)
           h == [i \in DOMAIN t |-> v[t[i]]]
           g == [i \in DOMAIN s |-> v[s[i]]]
           n == Len(s)
<1>1. n \in Nat /\ DOMAIN t = 1..(n + 1) /\ t[n + 1] = e /\ \A i \in 1..n : t[i] = s[i]
  OBVIOUS
<1>2. t \in Seq(R) /\ DOMAIN s = 1..n
  OBVIOUS
<1>3. \A i \in 1..(n + 1) : t[i] \in R
  <2>1. \A i \in 1..n : s[i] \in R
    OBVIOUS
  <2> HIDE DEF t
  <2> QED
    BY <1>1, <2>1
<1> HIDE DEF t, n
<1>4. h \in [1..(n + 1) -> Int] /\ g \in [1..n -> Int] /\ \A i \in 1..n : g[i] = h[i]
  BY <1>1, <1>2, <1>3
<1>5. h[n + 1] = v[e]
  BY <1>1
<1> HIDE DEF h, g
<1>6. SumFunction(h) = SumFunction(g) + h[n + 1]
  BY <1>1, <1>4, SumAppended
<1> QED
  BY <1>5, <1>6 DEF Worths, h, g, t

(* Removing one element.                                                   *)
LEMMA RemovedIs ==
  ASSUME NEW R, NEW s \in Seq(R), NEW j \in 1..Len(s)
  PROVE  /\ RemoveAt(s, j) \in Seq(R)
         /\ Len(RemoveAt(s, j)) = Len(s) - 1
         /\ \A i \in 1..(Len(s) - 1) : RemoveAt(s, j)[i] = IF i < j THEN s[i] ELSE s[i + 1]
<1> DEFINE a == SubSeq(s, 1, j - 1)
           b == SubSeq(s, j + 1, Len(s))
           n == Len(s)
<1>1. /\ n \in Nat /\ j - 1 \in Nat /\ n - j \in Nat
      /\ a \in Seq(R) /\ b \in Seq(R)
      /\ Len(a) = j - 1 /\ Len(b) = n - j
      /\ \A i \in 1..(j - 1) : a[i] = s[i]
      /\ \A i \in 1..(n - j) : b[i] = s[j + i]
  <2>1. \A i \in 1..n : s[i] \in R
    OBVIOUS
  <2> QED
    BY <2>1
<1> HIDE DEF a, b, n
<1>2. a \o b \in Seq(R) /\ Len(a \o b) = n - 1
  <2>1. a \o b \in Seq(R)
    BY <1>1
  <2>2. Len(a \o b) = Len(a) + Len(b)
    BY <1>1
  <2> QED
    BY <1>1, <2>1, <2>2
<1>3. ASSUME NEW i \in 1..(n - 1) PROVE (a \o b)[i] = IF i < j THEN s[i] ELSE s[i + 1]
  <2>1. CASE i < j
    <3>1. i \in 1..(j - 1)
      BY <2>1
    <3>2. (a \o b)[i] = a[i]
      BY <1>1, <3>1
    <3> QED
      BY <1>1, <2>1, <3>1, <3>2
  <2>2. CASE ~(i < j)
    <3>1. i - (j - 1) \in 1..(n - j) /\ j + (i - (j - 1)) = i + 1
      BY <1>1, <2>2
    <3>2. (a \o b)[i] = b[i - (j - 1)]
      BY <1>1, <2>2, <3>1
    <3> QED
      BY <1>1, <2>2, <3>1, <3>2
  <2> QED
    BY <2>1, <2>2
<1>4. RemoveAt(s, j) = a \o b
  BY DEF RemoveAt, a, b
<1> QED
  BY <1>2, <1>3, <1>4 DEF n

LEMMA WorthsRemoved ==
  ASSUME NEW R, NEW s \in Seq(R), NEW v \in [R -> Int], NEW j \in 1..Len(s)
  PROVE  Worths(s, v) = Worths(RemoveAt(s, j), v) + v[s[j]]
<1> DEFINE t == RemoveAt(s, j)
           h == [i \in DOMAIN s |-> v[s[i]]]
           g == [i \in DOMAIN t |-> v[t[i]]]
           n == Len(s)
<1>1. n \in Nat /\ DOMAIN s = 1..n /\ \A i \in 1..n : s[i] \in R
  OBVIOUS
<1>2. t \in Seq(R) /\ Len(t) = n - 1 /\ \A i \in 1..(n - 1) : t[i] = IF i < j THEN s[i] ELSE s[i + 1]
  BY RemovedIs
<1>3. j \in 1..n /\ n - 1 \in Nat
  BY <1>1
<1> HIDE DEF t, n
<1>4. DOMAIN t = 1..(n - 1) /\ \A i \in 1..(n - 1) : t[i] \in R
  BY <1>2
<1>5. h \in [1..n -> Int] /\ g \in [1..(n - 1) -> Int]
  BY <1>1, <1>4
<1>6. ASSUME NEW i \in 1..(n - 1) PROVE g[i] = IF i < j THEN h[i] ELSE h[i + 1]
  <2>1. i \in 1..n /\ i + 1 \in 1..n
    BY <1>1
  <2> QED
    BY <1>1, <1>2, <1>4, <2>1
<1>7. h[j] = v[s[j]]
  BY <1>1, <1>3
<1> HIDE DEF h, g
<1>8. SumFunction(h) = SumFunction(g) + h[j]
  BY <1>1, <1>3, <1>5, <1>6, SumRemoved
<1> QED
  BY <1>7, <1>8 DEF Worths, h, g, t

(* Sums of differences.                                                    *)
Minus(d, v, w, R) == \A r \in R : d[r] = v[r] - w[r]

LEMMA WorthsMinus ==
  ASSUME NEW R, NEW s \in Seq(R), NEW v \in [R -> Int], NEW w \in [R -> Int],
         NEW d \in [R -> Int], Minus(d, v, w, R)
  PROVE  Worths(s, v) = Worths(s, d) + Worths(s, w)
<1> DEFINE n == Len(s)
           V == [i \in DOMAIN s |-> v[s[i]]]
           W == [i \in DOMAIN s |-> w[s[i]]]
           D == [i \in DOMAIN s |-> d[s[i]]]
           A(m) == SumFunctionOnSet(V, 1..m)
           B(m) == SumFunctionOnSet(W, 1..m)
           C(m) == SumFunctionOnSet(D, 1..m)
           S == {m \in 0..n : A(m) = C(m) + B(m)}
<1>1. n \in Nat /\ DOMAIN s = 1..n /\ \A i \in 1..n : s[i] \in R
  OBVIOUS
<1>2. /\ DOMAIN V = 1..n /\ DOMAIN W = 1..n /\ DOMAIN D = 1..n
      /\ \A i \in 1..n : V[i] \in Int /\ W[i] \in Int /\ D[i] \in Int /\ D[i] = V[i] - W[i]
  BY <1>1 DEF Minus
<1> HIDE DEF n, V, W, D
<1>3. 0 \in S
  <2>1. 1..0 = {} /\ 0 \in 0..n
    BY <1>1
  <2>2. A(0) = 0 /\ B(0) = 0 /\ C(0) = 0
    BY <2>1, SumOfNone
  <2> QED
    BY <2>1, <2>2
<1>4. ASSUME NEW m \in 1..n, m - 1 \in S PROVE m \in S
  <2>1. m \in Nat /\ m > 0 /\ m - 1 \in Nat /\ m \in 0..n /\ m \in 1..n
    BY <1>1
  <2>2. \A i \in 1..m : V[i] \in Int /\ W[i] \in Int /\ D[i] \in Int
    BY <1>1, <1>2
  <2>3. /\ A(m) = V[m] + A(m - 1) /\ B(m) = W[m] + B(m - 1) /\ C(m) = D[m] + C(m - 1)
    BY <2>1, <2>2, SumUpTo
  <2>4. B(m - 1) \in Int /\ C(m - 1) \in Int
    <3>1. \A i \in 1..(m - 1) : W[i] \in Int /\ D[i] \in Int
      BY <2>2
    <3> QED
      BY <2>1, <3>1, SumUpTo
  <2>5. V[m] \in Int /\ D[m] \in Int /\ W[m] \in Int /\ D[m] = V[m] - W[m] /\ A(m - 1) = C(m - 1) + B(m - 1)
    BY <1>2, <1>4, <2>1
  <2> HIDE DEF A, B, C
  <2>6. A(m) = C(m) + B(m)
    BY <2>3, <2>4, <2>5
  <2> QED
    BY <2>1, <2>6
<1>5. n \in S
  <2> HIDE DEF S
  <2>1. \A m \in 0..n : m \in S
    BY <1>1, <1>3, <1>4, Climb
  <2> QED
    BY <1>1, <2>1
<1> QED
  BY <1>2, <1>5 DEF Worths, SumFunction, V, W, D
-----------------------------------------------------------------------------
(* How often a record is in a sequence.                                    *)
LEMMA CopiesAre ==
  ASSUME NEW R, NEW s \in Seq(R), NEW r
  PROVE  /\ Copies(s, r) = Cardinality({i \in 1..Len(s) : s[i] = r})
         /\ IsFiniteSet({i \in 1..Len(s) : s[i] = r})
         /\ Copies(s, r) \in Nat
<1> DEFINE A == {i \in 1..Len(s) : s[i] = r}
<1>1. DOMAIN s = 1..Len(s) /\ Len(s) \in Nat /\ 1 \in Int
  OBVIOUS
<1>2. Copies(s, r) = Cardinality(A)
  BY <1>1 DEF Copies, Quantify
<1>3. IsFiniteSet(1..Len(s)) /\ A \in SUBSET (1..Len(s))
  BY <1>1, FS_Interval
<1>4. IsFiniteSet(A)
  BY <1>3, FS_Subset
<1>5. Cardinality(A) \in Nat
  BY <1>4, FS_CardinalityType
<1> QED
  BY <1>2, <1>4, <1>5

LEMMA CopiesAppended ==
  ASSUME NEW R, NEW s \in Seq(R), NEW e \in R, NEW r
  PROVE  Copies(Append(s, e), r) = Copies(s, r) + (IF e = r THEN 1 ELSE 0)
<1> DEFINE t == Append(s, e)
           n == Len(s)
           A == {i \in 1..n : s[i] = r}
           B == {i \in 1..(n + 1) : t[i] = r}
<1>1. t \in Seq(R) /\ Len(t) = n + 1 /\ n \in Nat /\ t[n + 1] = e /\ \A i \in 1..n : t[i] = s[i]
  OBVIOUS
<1> HIDE DEF t
<1>2. Copies(t, r) = Cardinality(B)
  BY <1>1, CopiesAre
<1>3. Copies(s, r) = Cardinality(A) /\ IsFiniteSet(A) /\ Copies(s, r) \in Nat
  BY CopiesAre
<1> HIDE DEF n
<1>4. CASE e = r
  <2>1. B = A \cup {n + 1} /\ n + 1 \notin A
    BY <1>1, <1>4
  <2>2. Cardinality(B) = Cardinality(A) + 1
    BY <1>3, <2>1, FS_AddElement
  <2> QED
    BY <1>2, <1>3, <1>4, <2>2 DEF t
<1>5. CASE e # r
  <2>1. B = A
    BY <1>1, <1>5
  <2> HIDE DEF A, B
  <2> QED
    BY <1>2, <1>3, <1>5, <2>1 DEF t
<1> QED
  BY <1>4, <1>5

LEMMA CopiesRemoved ==
  ASSUME NEW R, NEW s \in Seq(R), NEW j \in 1..Len(s), NEW r
  PROVE  Copies(s, r) = Copies(RemoveAt(s, j), r) + (IF s[j] = r THEN 1 ELSE 0)
<1> DEFINE t == RemoveAt(s, j)
           n == Len(s)
           A == {i \in 1..n : s[i] = r}
           C == A \ {j}
           B == {i \in 1..(n - 1) : t[i] = r}
           f == [i \in C |-> IF i < j THEN i ELSE i - 1]
<1>1. t \in Seq(R) /\ Len(t) = n - 1 /\ \A i \in 1..(n - 1) : t[i] = IF i < j THEN s[i] ELSE s[i + 1]
  BY RemovedIs
<1>2. Copies(s, r) = Cardinality(A) /\ IsFiniteSet(A) /\ Copies(s, r) \in Nat
  BY CopiesAre
<1> HIDE DEF t
<1>3. Copies(t, r) = Cardinality(B) /\ Copies(t, r) \in Nat
  BY <1>1, CopiesAre
<1>4. n \in Nat /\ j \in 1..n
  OBVIOUS
<1> HIDE DEF n
<1>5. f \in [C -> B]
  <2>1. SUFFICES ASSUME NEW i \in C PROVE f[i] \in B
    OBVIOUS
  <2>2. i \in 1..n /\ s[i] = r /\ i # j
    OBVIOUS
  <2>3. CASE i < j
    <3>1. i \in 1..(n - 1) /\ f[i] = i
      BY <1>4, <2>2, <2>3
    <3> QED
      BY <1>1, <2>2, <2>3, <3>1
  <2>4. CASE ~(i < j)
    <3>1. i - 1 \in 1..(n - 1) /\ f[i] = i - 1 /\ ~(i - 1 < j) /\ (i - 1) + 1 = i
      BY <1>4, <2>2, <2>4
    <3> QED
      BY <1>1, <2>2, <3>1
  <2> QED
    BY <2>3, <2>4
<1>6. \A i, k \in C : f[i] = f[k] => i = k
  <2>1. SUFFICES ASSUME NEW i \in C, NEW k \in C, f[i] = f[k] PROVE i = k
    OBVIOUS
  <2>2. i \in 1..n /\ k \in 1..n /\ i # j /\ k # j
    OBVIOUS
  <2>3. /\ f[i] = (IF i < j THEN i ELSE i - 1)
        /\ f[k] = (IF k < j THEN k ELSE k - 1)
    OBVIOUS
  <2> QED
    BY <1>4, <2>1, <2>2, <2>3
<1>7. \A b \in B : \E i \in C : f[i] = b
  <2>1. SUFFICES ASSUME NEW b \in B PROVE \E i \in C : f[i] = b
    OBVIOUS
  <2>2. b \in 1..(n - 1) /\ t[b] = r
    OBVIOUS
  <2>3. CASE b < j
    <3>1. b \in 1..n /\ s[b] = r /\ b # j
      BY <1>1, <1>4, <2>2, <2>3
    <3>2. b \in C /\ f[b] = b
      BY <2>3, <3>1
    <3> QED
      BY <3>2
  <2>4. CASE ~(b < j)
    <3>0. b + 1 \in 1..n /\ b + 1 # j /\ ~(b + 1 < j) /\ (b + 1) - 1 = b
      BY <1>4, <2>2, <2>4
    <3>1. b + 1 \in 1..n /\ s[b + 1] = r /\ b + 1 # j /\ ~(b + 1 < j) /\ (b + 1) - 1 = b
      BY <1>1, <1>4, <2>2, <2>4, <3>0
    <3>2. b + 1 \in C /\ f[b + 1] = b
      BY <3>1
    <3> QED
      BY <3>2
  <2> QED
    BY <2>3, <2>4
<1>8. ExistsBijection(C, B)
  <2> HIDE DEF f, C, B
  <2>1. f \in Bijection(C, B)
    BY <1>5, <1>6, <1>7 DEF Bijection, Injection, Surjection, IsInjective
  <2> QED
    BY <2>1 DEF ExistsBijection
<1>9. IsFiniteSet(C)
  BY <1>2, FS_Subset
<1>10. Cardinality(B) = Cardinality(C)
  <2> HIDE DEF C, B
  <2> QED
    BY <1>8, <1>9, FS_Bijection
<1>11. CASE s[j] = r
  <2>1. j \in A
    BY <1>4, <1>11
  <2>2. Cardinality(C) = Cardinality(A) - 1
    BY <1>2, <2>1, FS_RemoveElement
  <2> QED
    BY <1>2, <1>3, <1>10, <1>11, <2>2 DEF t
<1>12. CASE s[j] # r
  <2>1. C = A
    BY <1>12
  <2> HIDE DEF A, B, C
  <2> QED
    BY <1>2, <1>3, <1>10, <1>12, <2>1 DEF t
<1> QED
  BY <1>11, <1>12

LEMMA CopyIsThere ==
  ASSUME NEW R, NEW s \in Seq(R), NEW r
  PROVE  Copies(s, r) > 0 <=> \E i \in 1..Len(s) : s[i] = r
<1> DEFINE A == {i \in 1..Len(s) : s[i] = r}
<1>1. Copies(s, r) = Cardinality(A) /\ IsFiniteSet(A) /\ Copies(s, r) \in Nat
  BY CopiesAre
<1>2. Cardinality(A) = 0 <=> A = {}
  BY <1>1, FS_EmptySet
<1>3. A # {} <=> \E i \in 1..Len(s) : s[i] = r
  OBVIOUS
<1> HIDE DEF A
<1> QED
  BY <1>1, <1>2, <1>3

-----------------------------------------------------------------------------
(* OpenPositions, as the engine and the market service keep them.              *)
Records   == [entry : Nat, qty : Nat]
OpenPositions == [entry : Nat, qty : Nat, tp : Int, sl : Int, level : Int]

RecordsOf(s) == [i \in DOMAIN s |-> RecordOf(s[i])]

LEMMA RegisteredIs == Registered = RecordsOf(tracked)
BY DEF Registered, RecordsOf

LEMMA RecordsOfAre ==
  ASSUME NEW s \in Seq(OpenPositions)
  PROVE  /\ RecordsOf(s) \in Seq(Records) /\ Len(RecordsOf(s)) = Len(s)
         /\ \A i \in 1..Len(s) : s[i] \in OpenPositions /\ RecordsOf(s)[i] = RecordOf(s[i])
<1>1. DOMAIN s = 1..Len(s) /\ Len(s) \in Nat /\ \A i \in 1..Len(s) : s[i] \in OpenPositions
  OBVIOUS
<1>2. \A t \in OpenPositions : RecordOf(t) \in Records
  BY DEF OpenPositions, Records, RecordOf
<1>3. RecordsOf(s) \in [1..Len(s) -> Records] /\ \A i \in 1..Len(s) : RecordsOf(s)[i] = RecordOf(s[i])
  BY <1>1, <1>2 DEF RecordsOf
<1> HIDE DEF RecordsOf
<1> QED
  BY <1>1, <1>3

LEMMA RecordsOfAppended ==
  ASSUME NEW s \in Seq(OpenPositions), NEW t \in OpenPositions
  PROVE  RecordsOf(Append(s, t)) = Append(RecordsOf(s), RecordOf(t))
<1> DEFINE a == Append(s, t)
           n == Len(s)
           b == Append(RecordsOf(s), RecordOf(t))
<1>1. /\ a \in Seq(OpenPositions) /\ Len(a) = n + 1 /\ n \in Nat
      /\ a[n + 1] = t /\ \A i \in 1..n : a[i] = s[i]
  OBVIOUS
<1>2. RecordsOf(s) \in Seq(Records) /\ Len(RecordsOf(s)) = n /\ \A i \in 1..n : RecordsOf(s)[i] = RecordOf(s[i])
  BY RecordsOfAre
<1>3. RecordOf(t) \in Records
  BY DEF OpenPositions, Records, RecordOf
<1>4. /\ b \in Seq(Records) /\ Len(b) = n + 1 /\ b[n + 1] = RecordOf(t)
      /\ \A i \in 1..n : b[i] = RecordOf(s[i])
  <2> HIDE DEF n
  <2> DEFINE q == RecordsOf(s)
             e == RecordOf(t)
  <2>1. q \in Seq(Records) /\ Len(q) = n /\ e \in Records /\ \A i \in 1..n : q[i] = RecordOf(s[i])
    BY <1>2, <1>3
  <2> HIDE DEF q, e
  <2>2. Append(q, e) \in Seq(Records) /\ Len(Append(q, e)) = n + 1 /\ Append(q, e)[n + 1] = e
    BY <1>1, <2>1
  <2>3. \A i \in 1..n : Append(q, e)[i] = q[i]
    BY <1>1, <2>1
  <2> QED
    BY <2>1, <2>2, <2>3 DEF q, e
<1>5. RecordsOf(a) \in Seq(Records) /\ Len(RecordsOf(a)) = n + 1 /\ \A i \in 1..(n + 1) : RecordsOf(a)[i] = RecordOf(a[i])
  <2> HIDE DEF a, n
  <2> QED
    BY <1>1, RecordsOfAre
<1> HIDE DEF a, b, n
<1>6. \A i \in 1..(n + 1) : RecordsOf(a)[i] = b[i]
  BY <1>1, <1>4, <1>5
<1>7. RecordsOf(a) = b
  BY <1>1, <1>4, <1>5, <1>6
<1> QED
  BY <1>7 DEF a, b

LEMMA SameRecordsIs ==
  ASSUME NEW a \in Seq(Records), NEW b \in Seq(Records)
  PROVE  SameRecords(a, b) <=> \A r \in Records : Copies(a, r) = Copies(b, r)
<1>1. /\ \A i \in 1..Len(a) : a[i] \in Records
      /\ \A i \in 1..Len(b) : b[i] \in Records
      /\ DOMAIN a = 1..Len(a) /\ DOMAIN b = 1..Len(b)
  OBVIOUS
<1>2. Range(a) \subseteq Records /\ Range(b) \subseteq Records
  BY <1>1 DEF Range
<1>3. ASSUME SameRecords(a, b), NEW r \in Records
      PROVE  Copies(a, r) = Copies(b, r)
  <2>1. CASE r \in Range(a) \union Range(b)
    BY <1>3, <2>1 DEF SameRecords
  <2>2. CASE r \notin Range(a) \union Range(b)
    <3>1. ~(\E i \in 1..Len(a) : a[i] = r) /\ ~(\E i \in 1..Len(b) : b[i] = r)
      BY <1>1, <2>2 DEF Range
    <3>2. ~(Copies(a, r) > 0) /\ ~(Copies(b, r) > 0)
      BY <3>1, CopyIsThere
    <3>3. Copies(a, r) \in Nat /\ Copies(b, r) \in Nat
      BY CopiesAre
    <3> QED
      BY <3>2, <3>3
  <2> QED
    BY <2>1, <2>2
<1>4. ASSUME \A r \in Records : Copies(a, r) = Copies(b, r)
      PROVE  SameRecords(a, b)
  BY <1>2, <1>4 DEF SameRecords
<1> QED
  BY <1>3, <1>4

(* The first that matches.                                                 *)
LEMMA LeastIsThere ==
  ASSUME NEW n \in Nat, NEW I, I \subseteq 1..n, I # {}
  PROVE  Min(I) \in I /\ \A i \in I : Min(I) <= i
<1>1. I \subseteq Nat
  OBVIOUS
<1>2. \E x \in I : \A y \in I : x <= y
  BY <1>1, SmallestOf
<1> QED
  BY <1>2 DEF Min

LEMMA RemoveRecordIs ==
  ASSUME NEW s \in Seq(Records), NEW t \in OpenPositions, \E i \in 1..Len(s) : s[i] = RecordOf(t)
  PROVE  \E j \in 1..Len(s) :
           /\ s[j] = RecordOf(t)
           /\ \A i \in 1..(j - 1) : s[i] # RecordOf(t)
           /\ RemoveRecord(s, t) = RemoveAt(s, j)
<1> DEFINE I == {i \in 1..Len(s) : s[i].entry = t.entry /\ s[i].qty = t.qty}
<1>1. \A i \in 1..Len(s) : s[i] = RecordOf(t) <=> s[i].entry = t.entry /\ s[i].qty = t.qty
  <2>1. \A i \in 1..Len(s) : s[i] \in Records
    OBVIOUS
  <2>2. \A r \in Records : r = RecordOf(t) <=> r.entry = t.entry /\ r.qty = t.qty
    BY DEF Records, RecordOf, OpenPositions
  <2> QED
    BY <2>1, <2>2
<1>2. I # {} /\ I \subseteq 1..Len(s) /\ Len(s) \in Nat
  BY <1>1
<1>3. Min(I) \in I /\ \A i \in I : Min(I) <= i
  <2> HIDE DEF I
  <2> QED
    BY <1>2, LeastIsThere
<1> DEFINE j == Min(I)
<1>4. j \in 1..Len(s) /\ s[j] = RecordOf(t)
  BY <1>1, <1>3
<1>5. \A i \in 1..(j - 1) : s[i] # RecordOf(t)
  <2>1. SUFFICES ASSUME NEW i \in 1..(j - 1), s[i] = RecordOf(t) PROVE FALSE
    OBVIOUS
  <2>2. i \in 1..Len(s)
    <3> HIDE DEF j
    <3> QED
      BY <1>4
  <2>3. i \in I
    BY <1>1, <2>1, <2>2
  <2>4. j <= i
    BY <1>3, <2>3
  <2> HIDE DEF j, I
  <2> QED
    BY <1>4, <2>4
<1>6. RemoveRecord(s, t) = RemoveAt(s, j)
  <2>1. SelectInSeq(s, LAMBDA r : r.entry = t.entry /\ r.qty = t.qty) = j
    BY <1>2 DEF SelectInSeq
  <2>2. \E i \in 1..Len(s) : s[i].entry = t.entry /\ s[i].qty = t.qty
    BY <1>2
  <2> HIDE DEF j
  <2> QED
    BY <2>1, <2>2 DEF RemoveRecord, RemoveFirstMatch
<1> HIDE DEF j
<1> QED
  BY <1>4, <1>5, <1>6
-----------------------------------------------------------------------------
(* The exits of a candle.                                                  *)
BooksOfExits == [hits : Seq(OpenPositions), unhit : Seq(OpenPositions), held : Seq(Records)]

NoExits == [hits |-> <<>>, unhit |-> <<>>, held |-> held]

LEMMA ExitCases ==
  ASSUME NEW b \in BooksOfExits, NEW t \in OpenPositions, NEW p
  PROVE  /\ b.hits \in Seq(OpenPositions) /\ b.unhit \in Seq(OpenPositions) /\ b.held \in Seq(Records)
         /\ Hit(t, p) =>
              /\ Exit(b, t, p).hits = Append(b.hits, t)
              /\ Exit(b, t, p).unhit = b.unhit
              /\ Exit(b, t, p).held = RemoveRecord(b.held, t)
         /\ ~Hit(t, p) =>
              /\ Exit(b, t, p).hits = b.hits
              /\ Exit(b, t, p).unhit = Append(b.unhit, t)
              /\ Exit(b, t, p).held = b.held
BY DEF Exit, BooksOfExits

LEMMA RemoveRecordType ==
  ASSUME NEW s \in Seq(Records), NEW t \in OpenPositions
  PROVE  RemoveRecord(s, t) \in Seq(Records)
<1>1. CASE \E i \in 1..Len(s) : s[i] = RecordOf(t)
  <2>1. PICK j \in 1..Len(s) : RemoveRecord(s, t) = RemoveAt(s, j)
    BY <1>1, RemoveRecordIs
  <2> QED
    BY <2>1, RemovedIs
<1>2. CASE ~(\E i \in 1..Len(s) : s[i] = RecordOf(t))
  <2>1. \A i \in 1..Len(s) : s[i] \in Records
    OBVIOUS
  <2>2. \A r \in Records : r.entry = t.entry /\ r.qty = t.qty => r = RecordOf(t)
    BY DEF Records, RecordOf
  <2>3. ~(\E i \in 1..Len(s) : s[i].entry = t.entry /\ s[i].qty = t.qty)
    BY <1>2, <2>1, <2>2
  <2> QED
    BY <2>3 DEF RemoveRecord, RemoveFirstMatch
<1> QED
  BY <1>1, <1>2

LEMMA ExitType ==
  ASSUME NEW b \in BooksOfExits, NEW t \in OpenPositions, NEW p
  PROVE  Exit(b, t, p) \in BooksOfExits
<1>1. /\ b.hits \in Seq(OpenPositions) /\ b.unhit \in Seq(OpenPositions)
      /\ RemoveRecord(b.held, t) \in Seq(Records)
  BY RemoveRecordType DEF BooksOfExits
<1>2. Append(b.hits, t) \in Seq(OpenPositions) /\ Append(b.unhit, t) \in Seq(OpenPositions)
  BY <1>1
<1>3. CASE Hit(t, p)
  <2>1. [b EXCEPT !.hits = Append(@, t)] \in BooksOfExits
    BY <1>2 DEF BooksOfExits
  <2>2. Exit(b, t, p) = [[b EXCEPT !.hits = Append(@, t)] EXCEPT !.held = RemoveRecord(b.held, t)]
    BY <1>3 DEF Exit, BooksOfExits
  <2> DEFINE c == [b EXCEPT !.hits = Append(@, t)]
  <2> HIDE DEF c
  <2>3. [c EXCEPT !.held = RemoveRecord(b.held, t)] \in BooksOfExits
    BY <1>1, <2>1 DEF BooksOfExits, c
  <2> QED
    BY <2>2, <2>3 DEF c
<1>4. CASE ~Hit(t, p)
  <2>1. [b EXCEPT !.unhit = Append(@, t)] \in BooksOfExits
    BY <1>2 DEF BooksOfExits
  <2> QED
    BY <1>4, <2>1 DEF Exit
<1> QED
  BY <1>3, <1>4

(* The exits are what comes out of looking at each position in turn.       *)
LEMMA ExitsAre ==
  ASSUME tracked \in Seq(OpenPositions), held \in Seq(Records), NEW p
  PROVE  \E f \in [0..Len(tracked) -> BooksOfExits] :
           /\ f[0] = NoExits
           /\ \A i \in 1..Len(tracked) : f[i] = Exit(f[i - 1], tracked[i], p)
           /\ ExitsAt(p) = f[Len(tracked)]
<1> DEFINE n == Len(tracked)
           Body(f) == [i \in 0..n |-> IF i = 0 THEN NoExits ELSE Exit(f[i - 1], tracked[i], p)]
           g == [x \in (1..n) \X BooksOfExits |-> Exit(x[2], tracked[x[1]], p)]
           after == CHOOSE f : f = Body(f)
<1>1. n \in Nat /\ \A i \in 1..n : tracked[i] \in OpenPositions
  OBVIOUS
<1>2. NoExits \in BooksOfExits
  BY DEF NoExits, BooksOfExits
<1> HIDE DEF n
<1>3. g \in [(1..n) \X BooksOfExits -> BooksOfExits]
  BY <1>1, ExitType
<1>4. \A i \in 1..n, b \in BooksOfExits : g[<<i, b>>] = Exit(b, tracked[i], p)
  OBVIOUS
<1> HIDE DEF g
<1>5. PICK e \in [0..n -> BooksOfExits] : e[0] = NoExits /\ \A i \in 1..n : e[i] = g[<<i, e[i - 1]>>]
  <2> HIDE DEF Body, after
  <2>1. n \in Nat
    BY <1>1
  <2>2. \E e \in [0..n -> BooksOfExits] : Follows(e, NoExits, n, g)
    BY <2>1, <1>2, <1>3, StepsExist, Zenon
  <2> QED
    BY <2>2 DEF Follows
<1>6. \A i \in 1..n : e[i] = Exit(e[i - 1], tracked[i], p)
  <2>1. SUFFICES ASSUME NEW i \in 1..n PROVE e[i] = Exit(e[i - 1], tracked[i], p)
    OBVIOUS
  <2>2. i - 1 \in 0..n
    BY <1>1
  <2>3. e[i - 1] \in BooksOfExits
    BY <2>2
  <2> QED
    BY <1>4, <1>5, <2>3
<1>7. e = Body(e)
  <2>1. \A i \in 0..n : i # 0 => i \in 1..n
    BY <1>1
  <2>2. \A i \in 0..n : e[i] = Body(e)[i]
    BY <1>5, <1>6, <2>1
  <2> QED
    BY <2>2
<1>8. after = Body(after)
  <2>1. \E f : f = Body(f)
    BY <1>7
  <2> HIDE DEF Body
  <2> QED
    BY <2>1
<1>9. ExitsAt(p) = after[n]
  BY DEF ExitsAt, n, NoExits
<1> HIDE DEF after
<1>10. /\ DOMAIN after = 0..n /\ after[0] = NoExits
       /\ \A i \in 1..n : after[i] = Exit(after[i - 1], tracked[i], p)
  <2>1. 0 \in 0..n /\ \A i \in 1..n : i \in 0..n /\ i # 0
    BY <1>1
  <2>2. DOMAIN after = 0..n
    BY <1>8
  <2>3. \A i \in 0..n : after[i] = IF i = 0 THEN NoExits ELSE Exit(after[i - 1], tracked[i], p)
    BY <1>8
  <2> QED
    BY <2>1, <2>2, <2>3
<1>11. \A i \in 0..n : after[i] \in BooksOfExits
  <2> DEFINE S == {i \in 0..n : after[i] \in BooksOfExits}
  <2>1. 0 \in S
    BY <1>1, <1>2, <1>10
  <2>2. \A i \in 1..n : i - 1 \in S => i \in S
    BY <1>1, <1>10, ExitType
  <2> HIDE DEF S
  <2>3. \A i \in 0..n : i \in S
    BY <1>1, <2>1, <2>2, Climb
  <2> QED
    BY <2>3 DEF S
<1>12. after = [i \in 0..n |-> after[i]]
  BY <1>8, <1>10
<1>13. after \in [0..n -> BooksOfExits]
  BY <1>11, <1>12
<1> QED
  BY <1>9, <1>10, <1>13 DEF n

(* The copies of a record from the i-th tracked position on.               *)
Later(i, r) == Cardinality({k \in (i + 1)..Len(tracked) : RecordOf(tracked[k]) = r})

LEMMA LaterIs ==
  ASSUME tracked \in Seq(OpenPositions), NEW r
  PROVE  /\ Later(0, r) = Copies(RecordsOf(tracked), r)
         /\ Later(Len(tracked), r) = 0
         /\ \A i \in 1..Len(tracked) :
              /\ Later(i, r) \in Nat
              /\ Later(i - 1, r) = Later(i, r) + (IF RecordOf(tracked[i]) = r THEN 1 ELSE 0)
<1> DEFINE n == Len(tracked)
           L(i) == {k \in (i + 1)..n : RecordOf(tracked[k]) = r}
<1>1. n \in Nat
  OBVIOUS
<1>2. Later(0, r) = Copies(RecordsOf(tracked), r)
  <2> DEFINE q == RecordsOf(tracked)
  <2>1. q \in Seq(Records) /\ Len(q) = n /\ \A i \in 1..n : q[i] = RecordOf(tracked[i])
    BY RecordsOfAre
  <2> HIDE DEF q, n
  <2>2. Copies(q, r) = Cardinality({i \in 1..n : q[i] = r})
    BY <2>1, CopiesAre
  <2>3. {i \in 1..n : q[i] = r} = {k \in (0 + 1)..n : RecordOf(tracked[k]) = r}
    BY <2>1
  <2> QED
    BY <2>2, <2>3 DEF Later, q, n
<1>3. Later(n, r) = 0
  <2>1. L(n) = {}
    BY <1>1
  <2>2. Cardinality({}) = 0
    BY FS_EmptySet
  <2> QED
    BY <2>1, <2>2 DEF Later
<1>4. ASSUME NEW i \in 1..n
      PROVE  /\ Later(i, r) \in Nat
             /\ Later(i - 1, r) = Later(i, r) + (IF RecordOf(tracked[i]) = r THEN 1 ELSE 0)
  <2>1. IsFiniteSet(L(i))
    <3>1. IsFiniteSet((i + 1)..n) /\ L(i) \in SUBSET ((i + 1)..n)
      BY <1>1, FS_Interval
    <3> QED
      BY <3>1, FS_Subset
  <2>2. Cardinality(L(i)) \in Nat
    BY <2>1, FS_CardinalityType
  <2>3. Later(i, r) = Cardinality(L(i)) /\ Later(i - 1, r) = Cardinality(L(i - 1))
    BY DEF Later
  <2>4. CASE RecordOf(tracked[i]) = r
    <3>1. L(i - 1) = L(i) \cup {i} /\ i \notin L(i)
      BY <1>1, <2>4
    <3> HIDE DEF L
    <3>2. Cardinality(L(i - 1)) = Cardinality(L(i)) + 1
      BY <2>1, <3>1, FS_AddElement
    <3> QED
      BY <2>2, <2>3, <2>4, <3>2
  <2>5. CASE RecordOf(tracked[i]) # r
    <3>1. L(i - 1) = L(i)
      BY <1>1, <2>5
    <3> HIDE DEF L
    <3> QED
      BY <2>2, <2>3, <2>5, <3>1
  <2> QED
    BY <2>4, <2>5
<1> QED
  BY <1>2, <1>3, <1>4

(* What a position cost.                                                   *)
SpentOnRecords   == [r \in Records |-> Spent(r)]
SpentOnPositions == [t \in OpenPositions |-> Spent(t)]

LEMMA SpentTypes ==
  /\ SpentOnRecords \in [Records -> Int] /\ SpentOnPositions \in [OpenPositions -> Int]
  /\ \A t \in OpenPositions : SpentOnRecords[RecordOf(t)] = SpentOnPositions[t]
<1>1. Scale \in Nat /\ Fee \in Nat
  BY MarketAssumption DEF MarketAssumption
<1>2. \A x, y \in Nat : x * y * (Scale + Fee) \in Int
  BY <1>1
<1>3. \A r \in Records : Spent(r) = r.entry * r.qty * (Scale + Fee) /\ r.entry \in Nat /\ r.qty \in Nat
  BY DEF Records, Spent, Cost
<1>4. \A t \in OpenPositions : /\ Spent(t) = t.entry * t.qty * (Scale + Fee)
                           /\ t.entry \in Nat /\ t.qty \in Nat
                           /\ RecordOf(t) \in Records
                           /\ RecordOf(t).entry = t.entry /\ RecordOf(t).qty = t.qty
  BY DEF Records, OpenPositions, Spent, Cost, RecordOf
<1>5. SpentOnRecords \in [Records -> Int]
  BY <1>2, <1>3 DEF SpentOnRecords
<1>6. SpentOnPositions \in [OpenPositions -> Int]
  BY <1>2, <1>4 DEF SpentOnPositions
<1>7. ASSUME NEW t \in OpenPositions PROVE SpentOnRecords[RecordOf(t)] = SpentOnPositions[t]
  <2>1. SpentOnRecords[RecordOf(t)] = Spent(RecordOf(t))
    BY <1>4 DEF SpentOnRecords
  <2>2. SpentOnPositions[t] = Spent(t)
    BY DEF SpentOnPositions
  <2> QED
    BY <1>3, <1>4, <2>1, <2>2
<1> QED
  BY <1>5, <1>6, <1>7

(* How far the engine's books have come with the first i positions.        *)
Matched(i, b) ==
  /\ \A r \in Records : Copies(b.held, r) = Copies(RecordsOf(b.unhit), r) + Later(i, r)
  /\ Len(b.hits) + Len(b.unhit) = i
  /\ Len(b.held) = Len(tracked) - Len(b.hits)
  /\ Worths(b.held, SpentOnRecords) + Worths(b.hits, SpentOnPositions) = Worths(held, SpentOnRecords)

(* Those that stay are some of the tracked ones, in their order.           *)
Stay(i, b, p) ==
  /\ \A k \in 1..Len(b.unhit) :
       \E j \in 1..i : b.unhit[k] = tracked[j] /\ ~Hit(tracked[j], p)
  /\ \A k, l \in 1..Len(b.unhit) : k < l =>
       \E j, m \in 1..i : j < m /\ b.unhit[k] = tracked[j] /\ b.unhit[l] = tracked[m]

(* The engine's records are those of the positions that stay and of those  *)
(* that were not looked at yet, in their order.                            *)
OrderKept(i, b) ==
  /\ Len(b.held) = Len(b.unhit) + (Len(tracked) - i)
  /\ \A k \in 1..Len(b.held) :
       b.held[k] = IF k <= Len(b.unhit) THEN RecordOf(b.unhit[k])
                   ELSE RecordOf(tracked[(k - Len(b.unhit)) + i])

LEMMA MatchedStart ==
  ASSUME tracked \in Seq(OpenPositions), held \in Seq(Records), Len(held) = Len(tracked),
         \A r \in Records : Copies(held, r) = Copies(RecordsOf(tracked), r)
  PROVE  Matched(0, NoExits)
<1>1. NoExits.hits = <<>> /\ NoExits.unhit = <<>> /\ NoExits.held = held
  BY DEF NoExits
<1>2. ASSUME NEW r PROVE Copies(RecordsOf(<<>>), r) = 0
  <2>1. <<>> \in Seq(OpenPositions) /\ Len(<<>>) = 0
    OBVIOUS
  <2>2. RecordsOf(<<>>) \in Seq(Records) /\ Len(RecordsOf(<<>>)) = 0
    BY <2>1, RecordsOfAre
  <2> DEFINE q == RecordsOf(<<>>)
  <2> HIDE DEF q
  <2>3. Copies(q, r) \in Nat
    BY <2>2, CopiesAre DEF q
  <2>4. ~(\E i \in 1..Len(q) : q[i] = r)
    BY <2>2 DEF q
  <2>5. ~(Copies(q, r) > 0)
    BY <2>2, <2>4, CopyIsThere DEF q
  <2> QED
    BY <2>3, <2>5 DEF q
<1>3. \A r \in Records : Copies(held, r) \in Nat /\ Copies(held, r) = Later(0, r)
  BY LaterIs, CopiesAre
<1>4. Worths(<<>>, SpentOnPositions) = 0
  BY WorthsOfNone
<1>5. Worths(held, SpentOnRecords) \in Int
  BY SpentTypes, WorthsType
<1>6. Len(<<>>) = 0 /\ Len(tracked) \in Nat
  OBVIOUS
<1>7. \A r \in Records : Copies(held, r) = Copies(RecordsOf(<<>>), r) + Later(0, r)
  BY <1>2, <1>3
<1> QED
  BY <1>1, <1>4, <1>5, <1>6, <1>7 DEF Matched

LEMMA MatchedStep ==
  ASSUME tracked \in Seq(OpenPositions), held \in Seq(Records),
         NEW i \in 1..Len(tracked), NEW b \in BooksOfExits, NEW p, Matched(i - 1, b)
  PROVE  Matched(i, Exit(b, tracked[i], p))
<1> DEFINE t == tracked[i]
           r0 == RecordOf(t)
           c == Exit(b, t, p)
           n == Len(tracked)
<1>0. n \in Nat /\ t \in OpenPositions /\ i \in Nat
  OBVIOUS
<1>1. r0 \in Records
  BY <1>0 DEF OpenPositions, Records, RecordOf
<1>2. /\ b.hits \in Seq(OpenPositions) /\ b.unhit \in Seq(OpenPositions) /\ b.held \in Seq(Records)
  BY <1>0, ExitCases
<1>3. \A r : /\ Later(i, r) \in Nat
             /\ Later(i - 1, r) = Later(i, r) + (IF r0 = r THEN 1 ELSE 0)
  BY LaterIs
<1>4. \A r \in Records : Copies(b.held, r) = Copies(RecordsOf(b.unhit), r) + Later(i - 1, r)
  BY DEF Matched
<1>a. Len(b.hits) + Len(b.unhit) = i - 1 /\ Len(b.held) = n - Len(b.hits)
  BY DEF Matched
<1>w. Worths(b.held, SpentOnRecords) + Worths(b.hits, SpentOnPositions) = Worths(held, SpentOnRecords)
  BY DEF Matched
<1>5. RecordsOf(b.unhit) \in Seq(Records)
  BY <1>2, RecordsOfAre
<1>6. \A r : Copies(b.held, r) \in Nat /\ Copies(RecordsOf(b.unhit), r) \in Nat
  BY <1>2, <1>5, CopiesAre
<1>7. /\ Worths(b.held, SpentOnRecords) \in Int /\ Worths(b.hits, SpentOnPositions) \in Int
      /\ Worths(held, SpentOnRecords) \in Int
  BY <1>2, SpentTypes, WorthsType
<1>8. /\ Len(b.hits) \in Nat /\ Len(b.unhit) \in Nat /\ Len(b.held) \in Nat
  BY <1>2
<1> HIDE DEF t, r0, c, n
<1>9. CASE Hit(t, p)
  <2>1. c.hits = Append(b.hits, t) /\ c.unhit = b.unhit /\ c.held = RemoveRecord(b.held, t)
    BY <1>0, <1>9, ExitCases DEF c
  <2>2. \E k \in 1..Len(b.held) : b.held[k] = r0
    <3>1. Copies(b.held, r0) > 0
      BY <1>1, <1>3, <1>4, <1>6
    <3> QED
      BY <1>2, <3>1, CopyIsThere
  <2>3. PICK j \in 1..Len(b.held) : b.held[j] = r0 /\ c.held = RemoveAt(b.held, j)
    BY <1>0, <1>2, <2>1, <2>2, RemoveRecordIs DEF r0
  <2>4. /\ Len(c.held) = Len(b.held) - 1
        /\ \A r : Copies(b.held, r) = Copies(c.held, r) + (IF r0 = r THEN 1 ELSE 0)
        /\ Worths(b.held, SpentOnRecords) = Worths(c.held, SpentOnRecords) + SpentOnRecords[r0]
        /\ c.held \in Seq(Records)
    <3>1. Len(c.held) = Len(b.held) - 1 /\ c.held \in Seq(Records)
      BY <1>2, <2>3, RemovedIs
    <3>2. \A r : Copies(b.held, r) = Copies(c.held, r) + (IF r0 = r THEN 1 ELSE 0)
      BY <1>2, <2>3, CopiesRemoved
    <3>3. Worths(b.held, SpentOnRecords) = Worths(c.held, SpentOnRecords) + SpentOnRecords[r0]
      <4>1. SpentOnRecords \in [Records -> Int]
        BY SpentTypes
      <4>2. Worths(b.held, SpentOnRecords)
              = Worths(RemoveAt(b.held, j), SpentOnRecords) + SpentOnRecords[b.held[j]]
        BY <1>2, <4>1, WorthsRemoved
      <4> QED
        BY <2>3, <4>2
    <3> QED
      BY <3>1, <3>2, <3>3
  <2>5. /\ Len(c.hits) = Len(b.hits) + 1
        /\ Worths(c.hits, SpentOnPositions) = Worths(b.hits, SpentOnPositions) + SpentOnPositions[t]
    <3>1. Len(Append(b.hits, t)) = Len(b.hits) + 1
      BY <1>0, <1>2
    <3>2. Worths(Append(b.hits, t), SpentOnPositions)
            = Worths(b.hits, SpentOnPositions) + SpentOnPositions[t]
      <4>1. SpentOnPositions \in [OpenPositions -> Int]
        BY SpentTypes
      <4> QED
        BY <1>0, <1>2, <4>1, WorthsAppended
    <3> QED
      BY <2>1, <3>1, <3>2
  <2>6. SpentOnRecords[r0] = SpentOnPositions[t] /\ SpentOnPositions[t] \in Int
    BY <1>0, SpentTypes DEF r0
  <2>7. Worths(c.held, SpentOnRecords) \in Int
    BY <2>4, SpentTypes, WorthsType
  <2>8. \A r : Copies(c.held, r) \in Nat
    BY <2>4, CopiesAre
  <2>9. \A r \in Records : Copies(c.held, r) = Copies(RecordsOf(c.unhit), r) + Later(i, r)
    <3>1. SUFFICES ASSUME NEW r \in Records
                   PROVE  Copies(c.held, r) = Copies(RecordsOf(c.unhit), r) + Later(i, r)
      OBVIOUS
    <3>a. /\ Copies(b.held, r) = Copies(RecordsOf(b.unhit), r) + Later(i - 1, r)
          /\ Later(i - 1, r) = Later(i, r) + (IF r0 = r THEN 1 ELSE 0)
          /\ Copies(b.held, r) = Copies(c.held, r) + (IF r0 = r THEN 1 ELSE 0)
          /\ Copies(c.held, r) \in Nat /\ Copies(RecordsOf(b.unhit), r) \in Nat /\ Later(i, r) \in Nat
      BY <1>3, <1>4, <1>6, <2>4, <2>8
    <3> DEFINE more == IF r0 = r THEN 1 ELSE 0
               kept == Copies(RecordsOf(b.unhit), r)
               left == Copies(c.held, r)
               late == Later(i, r)
    <3>4. more \in Nat
      OBVIOUS
    <3>2. left + more = kept + (late + more) /\ left \in Nat /\ kept \in Nat /\ late \in Nat
      BY <3>a
    <3> HIDE DEF more, kept, left, late
    <3>3. left = kept + late
      BY <3>2, <3>4
    <3> QED
      BY <2>1, <3>3 DEF kept, left, late
  <2>10. Len(c.hits) + Len(c.unhit) = i /\ Len(c.held) = n - Len(c.hits)
    <3>1. Len(c.held) = Len(b.held) - 1 /\ Len(c.hits) = Len(b.hits) + 1 /\ Len(c.unhit) = Len(b.unhit)
      BY <2>1, <2>4, <2>5
    <3> DEFINE h == Len(b.hits)
               u == Len(b.unhit)
               k == Len(b.held)
               h1 == Len(c.hits)
               u1 == Len(c.unhit)
               k1 == Len(c.held)
    <3>2. /\ h \in Nat /\ u \in Nat /\ k \in Nat /\ h + u = i - 1 /\ k = n - h
          /\ k1 = k - 1 /\ h1 = h + 1 /\ u1 = u
      BY <1>a, <1>8, <3>1
    <3> HIDE DEF h, u, k, h1, u1, k1
    <3>3. h1 + u1 = i /\ k1 = n - h1
      BY <1>0, <3>2
    <3> QED
      BY <3>3 DEF h1, u1, k1
  <2>11. Worths(c.held, SpentOnRecords) + Worths(c.hits, SpentOnPositions) = Worths(held, SpentOnRecords)
    BY <1>w, <1>7, <2>4, <2>5, <2>6, <2>7
  <2> QED
    BY <2>9, <2>10, <2>11 DEF Matched, c, t, n
<1>10. CASE ~Hit(t, p)
  <2>1. c.hits = b.hits /\ c.unhit = Append(b.unhit, t) /\ c.held = b.held
    BY <1>0, <1>10, ExitCases DEF c
  <2>2. Len(c.unhit) = Len(b.unhit) + 1
    BY <1>0, <1>2, <2>1
  <2>3. \A r : Copies(RecordsOf(c.unhit), r) = Copies(RecordsOf(b.unhit), r) + (IF r0 = r THEN 1 ELSE 0)
    <3>1. RecordsOf(c.unhit) = Append(RecordsOf(b.unhit), r0)
      BY <1>0, <1>2, <2>1, RecordsOfAppended DEF r0
    <3> QED
      BY <1>1, <1>5, <3>1, CopiesAppended
  <2>4. \A r \in Records : Copies(c.held, r) = Copies(RecordsOf(c.unhit), r) + Later(i, r)
    <3>1. SUFFICES ASSUME NEW r \in Records
                   PROVE  Copies(c.held, r) = Copies(RecordsOf(c.unhit), r) + Later(i, r)
      OBVIOUS
    <3>2. CASE r0 = r
      BY <1>3, <1>4, <1>6, <2>1, <2>3, <3>2
    <3>3. CASE r0 # r
      BY <1>3, <1>4, <1>6, <2>1, <2>3, <3>3
    <3> QED
      BY <3>2, <3>3
  <2>5. Len(c.hits) + Len(c.unhit) = i /\ Len(c.held) = n - Len(c.hits)
    <3>1. Len(c.held) = Len(b.held) /\ Len(c.hits) = Len(b.hits)
      BY <2>1
    <3> DEFINE h == Len(b.hits)
               u == Len(b.unhit)
               k == Len(b.held)
               h1 == Len(c.hits)
               u1 == Len(c.unhit)
               k1 == Len(c.held)
    <3>2. /\ h \in Nat /\ u \in Nat /\ k \in Nat /\ h + u = i - 1 /\ k = n - h
          /\ k1 = k /\ h1 = h /\ u1 = u + 1
      BY <1>a, <1>8, <2>2, <3>1
    <3> HIDE DEF h, u, k, h1, u1, k1
    <3>3. h1 + u1 = i /\ k1 = n - h1
      BY <1>0, <3>2
    <3> QED
      BY <3>3 DEF h1, u1, k1
  <2> QED
    BY <1>w, <2>1, <2>4, <2>5 DEF Matched, c, t, n
<1> QED
  BY <1>9, <1>10 DEF c, t
LEMMA StayStart == ASSUME NEW p PROVE Stay(0, NoExits, p)
<1>1. NoExits.unhit = <<>> /\ Len(<<>>) = 0
  BY DEF NoExits
<1> QED
  BY <1>1 DEF Stay

LEMMA StayStep ==
  ASSUME tracked \in Seq(OpenPositions), NEW i \in 1..Len(tracked), NEW b \in BooksOfExits, NEW p,
         Stay(i - 1, b, p)
  PROVE  Stay(i, Exit(b, tracked[i], p), p)
<1> DEFINE t == tracked[i]
           c == Exit(b, t, p)
           u == b.unhit
           v == c.unhit
<1>0. t \in OpenPositions /\ i \in Nat /\ i >= 1
  OBVIOUS
<1>1. u \in Seq(OpenPositions) /\ Len(u) \in Nat
  <2>1. u \in Seq(OpenPositions)
    BY DEF BooksOfExits
  <2> HIDE DEF u
  <2> QED
    BY <2>1
<1>2. /\ \A k \in 1..Len(u) : \E j \in 1..(i - 1) : u[k] = tracked[j] /\ ~Hit(tracked[j], p)
      /\ \A k, l \in 1..Len(u) : k < l =>
           \E j, m \in 1..(i - 1) : j < m /\ u[k] = tracked[j] /\ u[l] = tracked[m]
  BY DEF Stay
<1>3. CASE Hit(t, p)
  <2>1. v = u
    BY <1>0, <1>3, ExitCases
  <2>2. \A j \in 1..(i - 1) : j \in 1..i
    BY <1>0
  <2> HIDE DEF t, c, u, v
  <2>3. /\ \A k \in 1..Len(v) : \E j \in 1..i : v[k] = tracked[j] /\ ~Hit(tracked[j], p)
        /\ \A k, l \in 1..Len(v) : k < l =>
             \E j, m \in 1..i : j < m /\ v[k] = tracked[j] /\ v[l] = tracked[m]
    BY <1>2, <2>1, <2>2
  <2> QED
    BY <2>3 DEF Stay, v, c, t
<1>4. CASE ~Hit(t, p)
  <2>1. v = Append(u, t)
    BY <1>0, <1>4, ExitCases
  <2> DEFINE n == Len(u)
  <2>2. Len(v) = n + 1 /\ v[n + 1] = t /\ \A k \in 1..n : v[k] = u[k]
    <3> HIDE DEF t, c, u, v
    <3> QED
      BY <1>0, <1>1, <2>1
  <2>3. /\ \A j \in 1..(i - 1) : j \in 1..i /\ j < i
        /\ i \in 1..i
    BY <1>0
  <2>4. \A k \in 1..(n + 1) : k \in 1..n \/ k = n + 1
    BY <1>1
  <2>5. n \in Nat
    BY <1>1
  <2>6. t = tracked[i]
    OBVIOUS
  <2> HIDE DEF t, c, u, v, n
  <2>7. ASSUME NEW k \in 1..(n + 1)
        PROVE  \E j \in 1..i : v[k] = tracked[j] /\ ~Hit(tracked[j], p)
    <3>1. CASE k = n + 1
      BY <1>4, <2>2, <2>3, <2>6, <3>1
    <3>2. CASE k \in 1..n
      BY <1>2, <2>2, <2>3, <3>2 DEF n
    <3> QED
      BY <2>4, <3>1, <3>2
  <2>8. ASSUME NEW k \in 1..(n + 1), NEW l \in 1..(n + 1), k < l
        PROVE  \E j, m \in 1..i : j < m /\ v[k] = tracked[j] /\ v[l] = tracked[m]
    <3>1. k \in 1..n
      BY <2>5, <2>8
    <3>2. CASE l \in 1..n
      <4>1. \E j, m \in 1..(i - 1) : j < m /\ u[k] = tracked[j] /\ u[l] = tracked[m]
        BY <1>2, <2>8, <3>1, <3>2 DEF n
      <4> QED
        BY <2>2, <2>3, <3>1, <3>2, <4>1
    <3>3. CASE l = n + 1
      <4>1. PICK j \in 1..(i - 1) : u[k] = tracked[j]
        BY <1>2, <3>1 DEF n
      <4> QED
        BY <2>2, <2>3, <2>6, <3>1, <3>3, <4>1
    <3> QED
      BY <2>4, <3>2, <3>3
  <2> QED
    BY <2>2, <2>7, <2>8 DEF Stay, v, c, t
<1> QED
  BY <1>3, <1>4

(* OpenPositions of one entry price leave together or not at all.              *)
Together(p) ==
  \A j, m \in 1..Len(tracked) :
    tracked[j].entry = tracked[m].entry => (Hit(tracked[j], p) <=> Hit(tracked[m], p))

LEMMA InOrderStart ==
  ASSUME tracked \in Seq(OpenPositions), held \in Seq(Records), held = Registered
  PROVE  OrderKept(0, NoExits)
<1>1. NoExits.unhit = <<>> /\ NoExits.held = held /\ Len(<<>>) = 0
  BY DEF NoExits
<1>2. Len(held) = Len(tracked) /\ \A k \in 1..Len(tracked) : held[k] = RecordOf(tracked[k])
  BY RegisteredIs, RecordsOfAre
<1>3. Len(tracked) \in Nat
  OBVIOUS
<1>4. \A k \in 1..Len(tracked) : ~(k <= 0) /\ (k - 0) + 0 = k
  BY <1>3
<1> DEFINE n == Len(tracked)
<1> HIDE DEF n
<1>5. n = 0 + (n - 0)
  BY <1>3 DEF n
<1> QED
  BY <1>1, <1>2, <1>4, <1>5 DEF OrderKept, n

LEMMA InOrderStep ==
  ASSUME tracked \in Seq(OpenPositions), NEW i \in 1..Len(tracked), NEW b \in BooksOfExits, NEW p,
         Stay(i - 1, b, p), OrderKept(i - 1, b), Together(p)
  PROVE  OrderKept(i, Exit(b, tracked[i], p))
<1> DEFINE t == tracked[i]
           c == Exit(b, t, p)
           n == Len(tracked)
           u == b.unhit
           h == b.held
           m == Len(u)
<1>0. t \in OpenPositions /\ i \in 1..n /\ n \in Nat
  OBVIOUS
<1>1. u \in Seq(OpenPositions) /\ h \in Seq(Records) /\ m \in Nat
  BY <1>0, ExitCases
<1>2. /\ Len(h) = m + (n - (i - 1))
      /\ \A k \in 1..Len(h) :
           h[k] = IF k <= m THEN RecordOf(u[k]) ELSE RecordOf(tracked[(k - m) + (i - 1)])
  BY DEF OrderKept
<1>3. \A k \in 1..m : \E j \in 1..(i - 1) : u[k] = tracked[j] /\ ~Hit(tracked[j], p)
  BY DEF Stay
<1>t. t = tracked[i]
  OBVIOUS
<1> HIDE DEF t, c, u, h, m
<1>4. m + 1 \in 1..Len(h) /\ h[m + 1] = RecordOf(t)
  <2>1. m + 1 \in 1..Len(h) /\ ~(m + 1 <= m) /\ ((m + 1) - m) + (i - 1) = i
    <3> HIDE DEF n
    <3> QED
      BY <1>0, <1>1, <1>2
  <2> QED
    BY <1>2, <1>t, <2>1
<1>5. CASE Hit(t, p)
  <2>1. c.unhit = u /\ c.held = RemoveRecord(h, t)
    BY <1>0, <1>5, ExitCases DEF c, u, h
  <2>2. PICK j \in 1..Len(h) :
          /\ h[j] = RecordOf(t)
          /\ \A k \in 1..(j - 1) : h[k] # RecordOf(t)
          /\ RemoveRecord(h, t) = RemoveAt(h, j)
    <3>1. \E k \in 1..Len(h) : h[k] = RecordOf(t)
      BY <1>4
    <3> QED
      BY <1>0, <1>1, <3>1, RemoveRecordIs
  <2>3. j <= m + 1
    <3>1. ~(m + 1 \in 1..(j - 1))
      BY <1>4, <2>2
    <3> QED
      BY <1>1, <3>1
  <2>4. ~(j <= m)
    <3>1. SUFFICES ASSUME j <= m PROVE FALSE
      OBVIOUS
    <3>2. j \in 1..m
      BY <1>1, <3>1
    <3>3. PICK k \in 1..(i - 1) : u[j] = tracked[k] /\ ~Hit(tracked[k], p)
      BY <1>3, <3>2
    <3>4. k \in 1..n
      BY <1>0
    <3>5. RecordOf(tracked[k]) = RecordOf(t)
      BY <1>2, <2>2, <3>1, <3>3
    <3>6. tracked[k].entry = t.entry
      BY <3>5 DEF RecordOf
    <3> QED
      BY <1>0, <1>5, <1>t, <3>3, <3>4, <3>6 DEF Together
  <2>5. j = m + 1
    BY <1>1, <2>3, <2>4
  <2>6. /\ Len(c.held) = Len(h) - 1
        /\ \A k \in 1..(Len(h) - 1) : c.held[k] = IF k < j THEN h[k] ELSE h[k + 1]
    BY <1>1, <2>1, <2>2, RemovedIs
  <2> DEFINE d == c.held
             g == Len(h)
  <2>7. g \in Nat /\ g = m + (n - (i - 1))
    BY <1>1, <1>2
  <2>8. /\ Len(d) = g - 1
        /\ \A k \in 1..(g - 1) : d[k] = IF k < m + 1 THEN h[k] ELSE h[k + 1]
    BY <2>5, <2>6
  <2>9. \A k \in 1..g : h[k] = IF k <= m THEN RecordOf(u[k]) ELSE RecordOf(tracked[(k - m) + (i - 1)])
    BY <1>2
  <2> HIDE DEF d, g, n
  <2>10. Len(d) = m + (n - i)
    BY <1>0, <1>1, <2>7, <2>8
  <2>11. ASSUME NEW k \in 1..Len(d)
         PROVE  d[k] = IF k <= m THEN RecordOf(u[k]) ELSE RecordOf(tracked[(k - m) + i])
    <3>1. k \in 1..(g - 1)
      BY <2>8
    <3>2. CASE k <= m
      <4>1. k < m + 1 /\ k \in 1..g
        BY <1>1, <2>7, <3>1, <3>2
      <4> QED
        BY <2>8, <2>9, <3>1, <3>2, <4>1
    <3>3. CASE ~(k <= m)
      <4>1. ~(k < m + 1) /\ k + 1 \in 1..g /\ ~(k + 1 <= m) /\ ((k + 1) - m) + (i - 1) = (k - m) + i
        BY <1>0, <1>1, <2>7, <3>1, <3>3
      <4>2. d[k] = h[k + 1]
        BY <2>8, <3>1, <4>1
      <4>3. h[k + 1] = RecordOf(tracked[((k + 1) - m) + (i - 1)])
        BY <2>9, <4>1
      <4> QED
        BY <3>3, <4>1, <4>2, <4>3
    <3> QED
      BY <3>2, <3>3
  <2> QED
    BY <2>1, <2>10, <2>11 DEF OrderKept, c, d, m, t, n
<1>6. CASE ~Hit(t, p)
  <2>1. c.unhit = Append(u, t) /\ c.held = h
    BY <1>0, <1>6, ExitCases DEF c, u, h
  <2> DEFINE w == Append(u, t)
             g == Len(h)
  <2>2. Len(w) = m + 1 /\ w[m + 1] = t /\ \A k \in 1..m : w[k] = u[k]
    BY <1>0, <1>1 DEF m
  <2>3. g \in Nat /\ g = m + (n - (i - 1))
    BY <1>1, <1>2
  <2>4. \A k \in 1..g : h[k] = IF k <= m THEN RecordOf(u[k]) ELSE RecordOf(tracked[(k - m) + (i - 1)])
    BY <1>2
  <2> HIDE DEF w, g, n
  <2>5. g = (m + 1) + (n - i)
    BY <1>0, <1>1, <2>3
  <2>6. ASSUME NEW k \in 1..g
        PROVE  h[k] = IF k <= m + 1 THEN RecordOf(w[k]) ELSE RecordOf(tracked[(k - (m + 1)) + i])
    <3>1. CASE k <= m
      <4>1. k <= m + 1 /\ k \in 1..m
        BY <1>1, <2>3, <3>1
      <4> QED
        BY <2>2, <2>4, <3>1, <4>1
    <3>2. CASE k = m + 1
      <4>1. k <= m + 1
        BY <1>1, <3>2
      <4> QED
        BY <1>4, <2>2, <3>2, <4>1
    <3>3. CASE ~(k <= m + 1)
      <4>1. ~(k <= m) /\ (k - (m + 1)) + i = (k - m) + (i - 1)
        BY <1>0, <1>1, <2>3, <3>3
      <4> QED
        BY <2>4, <3>3, <4>1
    <3>4. k <= m \/ k = m + 1 \/ ~(k <= m + 1)
      BY <1>1, <2>3
    <3> QED
      BY <3>1, <3>2, <3>3, <3>4
  <2>7. Len(h) = (m + 1) + (n - i)
    BY <2>5 DEF g
  <2>8. \A k \in 1..Len(h) :
          h[k] = IF k <= m + 1 THEN RecordOf(w[k]) ELSE RecordOf(tracked[(k - (m + 1)) + i])
    BY <2>6 DEF g
  <2>9. c.unhit = w /\ c.held = h
    BY <2>1 DEF w
  <2>10. OrderKept(i, c)
    BY <2>2, <2>7, <2>8, <2>9 DEF OrderKept, n
  <2> QED
    BY <2>10 DEF c, t
<1> QED
  BY <1>5, <1>6
(* All exits of a candle: nobody is lost, no record but those of the       *)
(* positions that left is removed, and what they cost goes with them.      *)
LEMMA ExitsFacts ==
  ASSUME tracked \in Seq(OpenPositions), held \in Seq(Records), Len(held) = Len(tracked),
         SameRecords(held, Registered), NEW p
  PROVE  /\ ExitsAt(p) \in BooksOfExits
         /\ Matched(Len(tracked), ExitsAt(p))
         /\ Stay(Len(tracked), ExitsAt(p), p)
         /\ held = Registered /\ Together(p) => OrderKept(Len(tracked), ExitsAt(p))
<1> DEFINE n == Len(tracked)
<1>1. n \in Nat /\ \A i \in 1..n : tracked[i] \in OpenPositions
  OBVIOUS
<1>2. PICK f \in [0..n -> BooksOfExits] :
        /\ f[0] = NoExits
        /\ \A i \in 1..n : f[i] = Exit(f[i - 1], tracked[i], p)
        /\ ExitsAt(p) = f[n]
  BY ExitsAre
<1>3. \A r \in Records : Copies(held, r) = Copies(RecordsOf(tracked), r)
  <2>1. RecordsOf(tracked) \in Seq(Records)
    BY RecordsOfAre
  <2>2. SameRecords(held, RecordsOf(tracked))
    BY RegisteredIs
  <2> QED
    BY <2>1, <2>2, SameRecordsIs
<1>4. Matched(0, f[0]) /\ Stay(0, f[0], p) /\ (held = Registered => OrderKept(0, f[0]))
  BY <1>2, <1>3, MatchedStart, StayStart, InOrderStart
<1> DEFINE S == {i \in 0..n : Matched(i, f[i]) /\ Stay(i, f[i], p)}
           T == {i \in 0..n : held = Registered /\ Together(p) => OrderKept(i, f[i])}
<1> HIDE DEF n
<1>5. \A i \in 1..n : i - 1 \in 0..n /\ i \in 0..n /\ f[i - 1] \in BooksOfExits
  <2>1. \A i \in 1..n : i - 1 \in 0..n /\ i \in 0..n
    BY <1>1
  <2> QED
    BY <2>1
<1>6. ASSUME NEW i \in 1..n, Matched(i - 1, f[i - 1]), Stay(i - 1, f[i - 1], p)
      PROVE  Matched(i, f[i]) /\ Stay(i, f[i], p)
  <2> DEFINE b == f[i - 1]
  <2>1. b \in BooksOfExits /\ i \in 1..Len(tracked) /\ f[i] = Exit(b, tracked[i], p)
    BY <1>2, <1>5 DEF n
  <2>2. Matched(i - 1, b) /\ Stay(i - 1, b, p)
    BY <1>6
  <2> HIDE DEF b
  <2>3. Matched(i, Exit(b, tracked[i], p))
    BY <2>1, <2>2, MatchedStep
  <2>4. Stay(i, Exit(b, tracked[i], p), p)
    BY <2>1, <2>2, StayStep
  <2> QED
    BY <2>1, <2>3, <2>4
<1>7. ASSUME NEW i \in 1..n, Stay(i - 1, f[i - 1], p), OrderKept(i - 1, f[i - 1]), Together(p)
      PROVE  OrderKept(i, f[i])
  <2> DEFINE b == f[i - 1]
  <2>1. b \in BooksOfExits /\ i \in 1..Len(tracked) /\ f[i] = Exit(b, tracked[i], p)
    BY <1>2, <1>5 DEF n
  <2>2. OrderKept(i - 1, b) /\ Stay(i - 1, b, p)
    BY <1>7
  <2> HIDE DEF b
  <2>3. OrderKept(i, Exit(b, tracked[i], p))
    BY <1>7, <2>1, <2>2, InOrderStep
  <2> QED
    BY <2>1, <2>3
<1>8. 0 \in 0..n /\ n \in 0..n
  BY <1>1
<1>9. \A i \in 0..n : i \in S
  <2>1. 0 \in S
    BY <1>4, <1>8
  <2>2. \A i \in 1..n : i - 1 \in S => i \in S
    BY <1>5, <1>6
  <2> HIDE DEF S
  <2> QED
    BY <1>1, <2>1, <2>2, Climb
<1>10. \A i \in 0..n : i \in T
  <2>1. 0 \in T
    BY <1>4, <1>8
  <2>2. \A i \in 1..n : i - 1 \in T => i \in T
    <3>1. \A i \in 1..n : Stay(i - 1, f[i - 1], p)
      BY <1>5, <1>9
    <3> QED
      BY <1>5, <1>7, <3>1
  <2> HIDE DEF T
  <2> QED
    BY <1>1, <2>1, <2>2, Climb
<1>11. f[n] \in BooksOfExits
  BY <1>8
<1> QED
  BY <1>2, <1>8, <1>9, <1>10, <1>11 DEF n

LEMMA AfterExits ==
  ASSUME tracked \in Seq(OpenPositions), held \in Seq(Records), Len(held) = Len(tracked),
         SameRecords(held, Registered), NEW p
  PROVE  /\ Hits(p) \in Seq(OpenPositions) /\ Unhit(p) \in Seq(OpenPositions) /\ HeldAfterExits(p) \in Seq(Records)
         /\ Len(HeldAfterExits(p)) = Len(Unhit(p))
         /\ Len(HeldAfterExits(p)) + Len(Hits(p)) = Len(held)
         /\ SameRecords(HeldAfterExits(p), RecordsOf(Unhit(p)))
         /\ Worths(HeldAfterExits(p), SpentOnRecords) + Worths(Hits(p), SpentOnPositions)
              = Worths(held, SpentOnRecords)
         /\ held = Registered /\ Together(p) => HeldAfterExits(p) = RecordsOf(Unhit(p))
<1> DEFINE e == ExitsAt(p)
           n == Len(tracked)
<1>1. /\ e \in BooksOfExits /\ Matched(n, e) /\ Stay(n, e, p)
      /\ held = Registered /\ Together(p) => OrderKept(n, e)
  BY ExitsFacts
<1>2. /\ e.hits = Hits(p) /\ e.unhit = Unhit(p) /\ e.held = HeldAfterExits(p)
  BY DEF Hits, Unhit, HeldAfterExits
<1>n. n \in Nat
  OBVIOUS
<1> HIDE DEF e, n
<1>3. e.hits \in Seq(OpenPositions) /\ e.unhit \in Seq(OpenPositions) /\ e.held \in Seq(Records)
  BY <1>1 DEF BooksOfExits
<1>4. RecordsOf(e.unhit) \in Seq(Records) /\ Len(RecordsOf(e.unhit)) = Len(e.unhit)
      /\ \A k \in 1..Len(e.unhit) : RecordsOf(e.unhit)[k] = RecordOf(e.unhit[k])
  BY <1>3, RecordsOfAre
<1>5. Len(e.hits) + Len(e.unhit) = n /\ Len(e.held) = n - Len(e.hits)
  BY <1>1 DEF Matched, n
<1>6. Len(e.held) = Len(e.unhit) /\ Len(e.held) + Len(e.hits) = n
  <2> DEFINE a == Len(e.hits)
             b == Len(e.unhit)
             c == Len(e.held)
  <2>0. a \in Nat /\ b \in Nat
    BY <1>3
  <2>1. a + b = n /\ c = n - a
    BY <1>5
  <2> HIDE DEF a, b, c
  <2>2. c = b /\ c + a = n
    BY <1>n, <2>0, <2>1
  <2> QED
    BY <2>2 DEF a, b, c
<1>7. SameRecords(e.held, RecordsOf(e.unhit))
  <2>1. \A r \in Records : Copies(e.held, r) = Copies(RecordsOf(e.unhit), r) + Later(n, r)
    BY <1>1 DEF Matched
  <2>2. \A r \in Records : Later(n, r) = 0
    BY LaterIs DEF n
  <2>3. \A r \in Records : Copies(RecordsOf(e.unhit), r) \in Nat
    BY <1>4, CopiesAre
  <2>4. \A r \in Records : Copies(e.held, r) = Copies(RecordsOf(e.unhit), r)
    <3> SUFFICES ASSUME NEW r \in Records PROVE Copies(e.held, r) = Copies(RecordsOf(e.unhit), r)
      OBVIOUS
    <3> DEFINE x == Copies(RecordsOf(e.unhit), r)
               l == Later(n, r)
    <3>1. Copies(e.held, r) = x + l /\ l = 0 /\ x \in Nat
      BY <2>1, <2>2, <2>3
    <3> HIDE DEF x, l
    <3>2. Copies(e.held, r) = x
      BY <3>1
    <3> QED
      BY <3>2 DEF x
  <2> QED
    BY <1>3, <1>4, <2>4, SameRecordsIs
<1>8. Worths(e.held, SpentOnRecords) + Worths(e.hits, SpentOnPositions) = Worths(held, SpentOnRecords)
  BY <1>1 DEF Matched
<1>9. ASSUME held = Registered, Together(p)
      PROVE  e.held = RecordsOf(e.unhit)
  <2>1. \A k \in 1..Len(e.held) :
          e.held[k] = IF k <= Len(e.unhit) THEN RecordOf(e.unhit[k])
                      ELSE RecordOf(tracked[(k - Len(e.unhit)) + n])
    BY <1>1, <1>9 DEF OrderKept
  <2>2. \A k \in 1..Len(e.held) : k <= Len(e.unhit)
    <3>1. Len(e.unhit) \in Nat
      BY <1>3
    <3> QED
      BY <1>6, <3>1
  <2> DEFINE x == e.held
             y == RecordsOf(e.unhit)
  <2>3. x \in Seq(Records) /\ y \in Seq(Records) /\ Len(x) = Len(y) /\ \A k \in 1..Len(x) : x[k] = y[k]
    BY <1>3, <1>4, <1>6, <2>1, <2>2
  <2> HIDE DEF x, y
  <2>4. x = y
    BY <2>3
  <2> QED
    BY <2>4 DEF x, y
<1>10. Len(held) = n
  BY DEF n
<1> QED
  BY <1>2, <1>3, <1>6, <1>7, <1>8, <1>9, <1>10

(* Where they were among the tracked ones.                                 *)
LEMMA UnhitAre ==
  ASSUME tracked \in Seq(OpenPositions), held \in Seq(Records), Len(held) = Len(tracked),
         SameRecords(held, Registered), NEW p
  PROVE  /\ \A k \in 1..Len(Unhit(p)) :
              \E j \in 1..Len(tracked) : Unhit(p)[k] = tracked[j] /\ ~Hit(tracked[j], p)
         /\ \A k, l \in 1..Len(Unhit(p)) : k < l =>
              \E j, m \in 1..Len(tracked) :
                j < m /\ Unhit(p)[k] = tracked[j] /\ Unhit(p)[l] = tracked[m]
<1>1. Stay(Len(tracked), ExitsAt(p), p)
  BY ExitsFacts
<1> QED
  BY <1>1 DEF Stay, Unhit
-----------------------------------------------------------------------------
(* The constants, and what is computed from them.                          *)
LEMMA MoneyIsWhole ==
  /\ Scale \in Nat /\ Scale > 0 /\ Slip \in Nat /\ Slip <= Scale /\ Fee \in Nat /\ Fee <= Scale
  /\ StartBalance \in Nat /\ Prices \subseteq Nat \ {0} /\ Quantities \subseteq Nat \ {0}
  /\ ProfitPart \in Nat /\ TestPart \in Nat /\ MaxOpen \in Nat /\ StopPart \in Nat
  /\ Sym \in Symbols /\ IsFiniteSet(Symbols)
<1>1. Sym \in Symbols
  BY MarketAssumption DEF MarketAssumption, Sym
<1> QED
  BY <1>1, MarketAssumption, StrategyAssumption, BacktestAssumption
     DEF MarketAssumption, StrategyAssumption, BacktestAssumption

LEMMA Times == \A x, y \in Nat : x * y \in Nat
OBVIOUS

LEMMA TimesInt == \A x, y \in Int : x * y \in Int
OBVIOUS

LEMMA SlippedType ==
  ASSUME NEW p \in Prices
  PROVE  /\ Slipped("BUY", p) = p * (Scale + Slip) /\ Slipped("BUY", p) \in Nat
         /\ Slipped("SELL", p) = p * (Scale - Slip) /\ Slipped("SELL", p) \in Nat
<1>1. p \in Nat /\ Scale + Slip \in Nat /\ Scale - Slip \in Nat
  BY MoneyIsWhole
<1>2. Slipped("BUY", p) = p * (Scale + Slip) /\ Slipped("SELL", p) = p * (Scale - Slip)
  BY DEF Slipped
<1> HIDE DEF Slipped
<1>3. p * (Scale + Slip) \in Nat /\ p * (Scale - Slip) \in Nat
  BY <1>1, Times
<1> QED
  BY <1>2, <1>3

LEMMA MoneyType ==
  ASSUME NEW f \in Nat, NEW q \in Nat
  PROVE  Cost(f, q) \in Nat /\ Proceeds(f, q) \in Nat
<1>1. f * q \in Nat /\ Scale + Fee \in Nat /\ Scale - Fee \in Nat
  BY MoneyIsWhole, Times
<1>2. (f * q) * (Scale + Fee) \in Nat /\ (f * q) * (Scale - Fee) \in Nat
  BY <1>1, Times
<1> QED
  BY <1>2 DEF Cost, Proceeds

LEMMA StopPriceType ==
  ASSUME NEW e \in Nat
  PROVE  StopPrice(e) \in Int
<1>1. Scale - StopPart \in Int /\ e \in Int
  BY MoneyIsWhole
<1>2. e * (Scale - StopPart) \in Int
  BY <1>1, TimesInt
<1> DEFINE x == e * (Scale - StopPart)
<1> HIDE DEF x
<1>3. \A y \in Int, s \in Nat : s > 0 => y \div s \in Int
  OBVIOUS
<1>4. x \div Scale \in Int
  BY <1>2, <1>3, MoneyIsWhole DEF x
<1> QED
  BY <1>4 DEF StopPrice, Never, x

LEMMA MaxOfTwo ==
  ASSUME NEW x \in Int
  PROVE  Max({0, x}) = IF x >= 0 THEN x ELSE 0
<1>1. CASE x >= 0
  <2>1. \A m : m \in {0, x} /\ (\A y \in {0, x} : m >= y) <=> m = x
    BY <1>1
  <2> QED
    BY <1>1, <2>1 DEF Max
<1>2. CASE ~(x >= 0)
  <2>1. \A m : m \in {0, x} /\ (\A y \in {0, x} : m >= y) <=> m = 0
    BY <1>2
  <2> QED
    BY <1>2, <2>1 DEF Max
<1> QED
  BY <1>1, <1>2

-----------------------------------------------------------------------------
(* The sums that the books are kept in.                                    *)
Entries == OpenPositions \union Records

BringsAt(p) == [e \in Entries |-> Proceeds(Slipped("SELL", p), e.qty)]
EarnsAt(p)  == [e \in Entries |-> Pnl(e, Slipped("SELL", p))]
CostsOf     == [e \in Entries |-> Spent(e)]

LEMMA EntriesAreWhole == \A e \in Entries : e.entry \in Nat /\ e.qty \in Nat
BY DEF Entries, OpenPositions, Records

LEMMA EntryFunctions ==
  ASSUME NEW p \in Prices
  PROVE  /\ BringsAt(p) \in [Entries -> Int] /\ EarnsAt(p) \in [Entries -> Int]
         /\ CostsOf \in [Entries -> Int]
         /\ \A e \in Entries : EarnsAt(p)[e] = BringsAt(p)[e] - CostsOf[e]
<1>1. ASSUME NEW e \in Entries
      PROVE  Proceeds(Slipped("SELL", p), e.qty) \in Int /\ Spent(e) \in Int
  <2>1. e.qty \in Nat /\ e.entry \in Nat /\ Slipped("SELL", p) \in Nat
    BY EntriesAreWhole, SlippedType
  <2>2. Proceeds(Slipped("SELL", p), e.qty) \in Nat /\ Cost(e.entry, e.qty) \in Nat
    BY <2>1, MoneyType
  <2> QED
    BY <2>2 DEF Spent
<1>2. \A e \in Entries : Pnl(e, Slipped("SELL", p)) = Proceeds(Slipped("SELL", p), e.qty) - Spent(e)
  BY DEF Pnl
<1> HIDE DEF Proceeds, Slipped, Spent, Pnl
<1>3. BringsAt(p) \in [Entries -> Int] /\ CostsOf \in [Entries -> Int]
  BY <1>1 DEF BringsAt, CostsOf
<1>4. \A e \in Entries : Pnl(e, Slipped("SELL", p)) \in Int
  BY <1>1, <1>2
<1>5. EarnsAt(p) \in [Entries -> Int]
  BY <1>4 DEF EarnsAt
<1>6. \A e \in Entries : EarnsAt(p)[e] = BringsAt(p)[e] - CostsOf[e]
  BY <1>2 DEF BringsAt, EarnsAt, CostsOf
<1> QED
  BY <1>3, <1>5, <1>6

LEMMA SeqOfEntries ==
  /\ \A s \in Seq(OpenPositions) : s \in Seq(Entries)
  /\ \A s \in Seq(Records) : s \in Seq(Entries)
<1>1. OpenPositions \subseteq Entries /\ Records \subseteq Entries
  BY DEF Entries
<1> HIDE DEF Entries
<1> QED
  BY <1>1

LEMMA TotalsAre ==
  ASSUME NEW s \in Seq(Entries), NEW p
  PROVE  /\ Total(s, Spent) = Worths(s, CostsOf)
         /\ Total(s, LAMBDA t : Proceeds(Slipped("SELL", p), t.qty)) = Worths(s, BringsAt(p))
         /\ Total(s, LAMBDA t : Pnl(t, Slipped("SELL", p))) = Worths(s, EarnsAt(p))
<1>1. \A i \in DOMAIN s : s[i] \in Entries
  OBVIOUS
<1>2. [i \in DOMAIN s |-> Spent(s[i])] = [i \in DOMAIN s |-> CostsOf[s[i]]]
  BY <1>1 DEF CostsOf
<1>3. [i \in DOMAIN s |-> Proceeds(Slipped("SELL", p), s[i].qty)] = [i \in DOMAIN s |-> BringsAt(p)[s[i]]]
  BY <1>1 DEF BringsAt
<1>4. [i \in DOMAIN s |-> Pnl(s[i], Slipped("SELL", p))] = [i \in DOMAIN s |-> EarnsAt(p)[s[i]]]
  BY <1>1 DEF EarnsAt
<1> QED
  BY <1>2, <1>3, <1>4 DEF Total, Worths

LEMMA SpentAgree ==
  /\ \A s \in Seq(Records) : Worths(s, SpentOnRecords) = Worths(s, CostsOf)
  /\ \A s \in Seq(OpenPositions) : Worths(s, SpentOnPositions) = Worths(s, CostsOf)
<1>1. ASSUME NEW s \in Seq(Records) PROVE Worths(s, SpentOnRecords) = Worths(s, CostsOf)
  <2>1. \A i \in DOMAIN s : s[i] \in Records /\ s[i] \in Entries
    BY DEF Entries
  <2>2. [i \in DOMAIN s |-> SpentOnRecords[s[i]]] = [i \in DOMAIN s |-> CostsOf[s[i]]]
    BY <2>1 DEF SpentOnRecords, CostsOf
  <2> QED
    BY <2>2 DEF Worths
<1>2. ASSUME NEW s \in Seq(OpenPositions) PROVE Worths(s, SpentOnPositions) = Worths(s, CostsOf)
  <2>1. \A i \in DOMAIN s : s[i] \in OpenPositions /\ s[i] \in Entries
    BY DEF Entries
  <2>2. [i \in DOMAIN s |-> SpentOnPositions[s[i]]] = [i \in DOMAIN s |-> CostsOf[s[i]]]
    BY <2>1 DEF SpentOnPositions, CostsOf
  <2> QED
    BY <2>2 DEF Worths
<1> QED
  BY <1>1, <1>2

LEMMA EarnedIs ==
  ASSUME NEW s \in Seq(Entries), NEW p \in Prices
  PROVE  /\ Worths(s, BringsAt(p)) = Worths(s, EarnsAt(p)) + Worths(s, CostsOf)
         /\ Worths(s, BringsAt(p)) \in Int /\ Worths(s, CostsOf) \in Int /\ Worths(s, EarnsAt(p)) \in Int
<1>1. BringsAt(p) \in [Entries -> Int] /\ EarnsAt(p) \in [Entries -> Int] /\ CostsOf \in [Entries -> Int]
  BY EntryFunctions
<1>2. \A e \in Entries : EarnsAt(p)[e] = BringsAt(p)[e] - CostsOf[e]
  BY EntryFunctions
<1>3. Worths(s, BringsAt(p)) = Worths(s, EarnsAt(p)) + Worths(s, CostsOf)
  <2> DEFINE v == BringsAt(p)
             w == CostsOf
             d == EarnsAt(p)
  <2>1. v \in [Entries -> Int] /\ w \in [Entries -> Int] /\ d \in [Entries -> Int]
    BY <1>1
  <2>2. Minus(d, v, w, Entries)
    BY <1>2 DEF Minus
  <2> HIDE DEF v, w, d
  <2>3. Worths(s, v) = Worths(s, d) + Worths(s, w)
    BY <2>1, <2>2, WorthsMinus, Zenon
  <2> QED
    BY <2>3 DEF v, w, d
<1>4. Worths(s, BringsAt(p)) \in Int /\ Worths(s, CostsOf) \in Int /\ Worths(s, EarnsAt(p)) \in Int
  BY <1>1, WorthsType
<1> QED
  BY <1>3, <1>4

(* Without its first.                                                      *)
LEMMA RestIs ==
  ASSUME NEW R, NEW s \in Seq(R), Len(s) > 0
  PROVE  RemoveAt(s, 1) = Tail(s) /\ Tail(s) \in Seq(R) /\ Len(Tail(s)) = Len(s) - 1 /\ Head(s) = s[1]
         /\ s[1] \in R
<1> DEFINE a == RemoveAt(s, 1)
           b == Tail(s)
           n == Len(s)
<1>1. 1 \in 1..n /\ n \in Nat
  OBVIOUS
<1>2. a \in Seq(R) /\ Len(a) = n - 1 /\ \A i \in 1..(n - 1) : a[i] = IF i < 1 THEN s[i] ELSE s[i + 1]
  BY <1>1, RemovedIs
<1>3. b \in Seq(R) /\ Len(b) = n - 1 /\ \A i \in 1..(n - 1) : b[i] = s[i + 1]
  OBVIOUS
<1>4. Head(s) = s[1] /\ s[1] \in R
  OBVIOUS
<1> HIDE DEF a, b, n
<1>5. \A i \in 1..(n - 1) : a[i] = b[i]
  BY <1>1, <1>2, <1>3
<1>6. a = b
  BY <1>1, <1>2, <1>3, <1>5
<1> QED
  BY <1>3, <1>4, <1>6 DEF a, b, n

LEMMA UnregisterFirst ==
  ASSUME NEW s \in Seq(OpenPositions), Len(s) > 0, NEW e, e = s[1].entry
  PROVE  Unregister(s, e) = Tail(s)
<1> DEFINE I == {i \in 1..Len(s) : s[i].entry = e}
<1>1. 1 \in I /\ I \subseteq 1..Len(s) /\ Len(s) \in Nat
  OBVIOUS
<1>2. Min(I) \in I /\ \A i \in I : Min(I) <= i
  <2> HIDE DEF I
  <2> QED
    BY <1>1, LeastIsThere
<1>3. Min(I) = 1
  <2> DEFINE j == Min(I)
  <2>1. j \in 1..Len(s) /\ j <= 1
    BY <1>1, <1>2
  <2> HIDE DEF j
  <2>2. j = 1
    BY <1>1, <2>1
  <2> QED
    BY <2>2 DEF j
<1>4. SelectInSeq(s, LAMBDA t : t.entry = e) = 1
  BY <1>1, <1>3 DEF SelectInSeq
<1>5. \E i \in 1..Len(s) : s[i].entry = e
  BY <1>1
<1>6. Unregister(s, e) = RemoveAt(s, 1)
  BY <1>4, <1>5 DEF Unregister, RemoveFirstMatch
<1> QED
  BY <1>6, RestIs
-----------------------------------------------------------------------------
(* The invariant of a backtest.                                            *)
Sellers == Counting \union Flagged \union Domain

(* Where a position of a strategy that sells is closed is told by its      *)
(* entry price, so that positions of one entry price are closed together.  *)
Aims(t) ==
  /\ t.sl = StopPrice(t.entry)
  /\ IF kind = "macd_momentum"
       THEN t.tp * (Scale + Slip) = t.entry * (Scale + ProfitPart)
       ELSE t.tp = Never

(* A position of the grid is closed at the level above the one it was      *)
(* bought at, which is marked as used.                                     *)
AtItsLevel(t) == t.level \in used /\ t.tp = Level(t.level + 1) * Scale

LevelsInUse ==
  kind = "grid" =>
    /\ used \subseteq BuyLevels
    /\ ref = Never => used = {}
    /\ \A i \in 1..Len(tracked) : AtItsLevel(tracked[i])
    /\ LevelHeldOnce

Running ==
  /\ Len(held) = Len(tracked) /\ SameRecords(held, Registered)
  /\ count = Len(held) /\ count <= MaxOpen
  /\ kind \in Sellers => held = Registered /\ \A i \in 1..Len(tracked) : Aims(tracked[i])
  /\ FlagHoldsOne
  /\ LevelsInUse

BooksTyped ==
  /\ price \in [Symbols -> Prices] /\ kind \in Kinds
  /\ cash \in Int /\ realised \in Int /\ opened \in Int /\ closed \in Int
  /\ held \in Seq(Records) /\ tracked \in Seq(OpenPositions)
  /\ (ref = Never /\ last = Never) \/ (ref \in Prices /\ last \in Prices)

BooksInv ==
  /\ BooksTyped
  /\ CashIsAccounted /\ OneTradeEach
  /\ phase = "running" => Running

LEMMA TogetherIf ==
  ASSUME tracked \in Seq(OpenPositions), \A i \in 1..Len(tracked) : Aims(tracked[i]), NEW p
  PROVE  Together(p)
<1>1. SUFFICES ASSUME NEW j \in 1..Len(tracked), NEW m \in 1..Len(tracked),
                      tracked[j].entry = tracked[m].entry
               PROVE  Hit(tracked[j], p) <=> Hit(tracked[m], p)
  BY DEF Together
<1> DEFINE t == tracked[j]
           v == tracked[m]
<1>2. t \in OpenPositions /\ v \in OpenPositions /\ Aims(t) /\ Aims(v) /\ t.entry = v.entry
  BY <1>1
<1> HIDE DEF t, v
<1>3. t.tp \in Int /\ v.tp \in Int
  BY <1>2 DEF OpenPositions
<1>4. t.tp = v.tp
  <2>1. CASE kind = "macd_momentum"
    <3> DEFINE a == t.tp
               b == v.tp
               k == Scale + Slip
    <3>1. k \in Nat /\ k > 0
      BY MoneyIsWhole
    <3>2. a * k = b * k /\ a \in Int /\ b \in Int
      BY <1>2, <1>3, <2>1 DEF Aims
    <3> HIDE DEF a, b, k
    <3>3. a = b
      <4>1. (a - b) * k = 0
        BY <3>1, <3>2
      <4>2. a - b \in Int
        BY <3>2
      <4>3. \A x \in Int, y \in Nat : y > 0 /\ x * y = 0 => x = 0
        OBVIOUS
      <4>4. a - b = 0
        BY <3>1, <4>1, <4>2, <4>3
      <4> QED
        BY <3>2, <4>4
    <3> QED
      BY <3>3 DEF a, b
  <2>2. CASE kind # "macd_momentum"
    BY <1>2, <2>2 DEF Aims
  <2> QED
    BY <2>1, <2>2
<1>5. t.sl = v.sl
  BY <1>2 DEF Aims
<1>6. Hit(t, p) <=> Hit(v, p)
  BY <1>4, <1>5 DEF Hit
<1> QED
  BY <1>6 DEF t, v

LEMMA ExitsKeepBooks ==
  ASSUME BooksInv, phase = "running", NEW p \in Prices
  PROVE  /\ Hits(p) \in Seq(OpenPositions) /\ Unhit(p) \in Seq(OpenPositions) /\ HeldAfterExits(p) \in Seq(Records)
         /\ Len(HeldAfterExits(p)) = Len(Unhit(p))
         /\ Len(HeldAfterExits(p)) + Len(Hits(p)) = Len(held)
         /\ SameRecords(HeldAfterExits(p), RecordsOf(Unhit(p)))
         /\ CountAfterExits(p) = Len(HeldAfterExits(p))
         /\ CashAfterExits(p) \in Int /\ Worths(Hits(p), EarnsAt(p)) \in Int
         /\ CashAfterExits(p) + Worths(HeldAfterExits(p), CostsOf)
              = StartBalance + (realised + Worths(Hits(p), EarnsAt(p)))
         /\ (closed + Len(Hits(p))) + Len(HeldAfterExits(p)) = opened
         /\ kind \in Sellers => /\ HeldAfterExits(p) = RecordsOf(Unhit(p))
                                /\ \A k \in 1..Len(Unhit(p)) : Aims(Unhit(p)[k])
<1>1. /\ tracked \in Seq(OpenPositions) /\ held \in Seq(Records) /\ Len(held) = Len(tracked)
      /\ SameRecords(held, Registered)
      /\ cash \in Int /\ realised \in Int /\ opened \in Int /\ closed \in Int
      /\ CashIsAccounted /\ OneTradeEach /\ count = Len(held)
  BY DEF BooksInv, BooksTyped, Running
<1>2. kind \in Sellers => held = Registered /\ \A i \in 1..Len(tracked) : Aims(tracked[i])
  BY DEF BooksInv, Running
<1> DEFINE H == Hits(p)
           U == Unhit(p)
           R == HeldAfterExits(p)
<1>3. /\ H \in Seq(OpenPositions) /\ U \in Seq(OpenPositions) /\ R \in Seq(Records)
      /\ Len(R) = Len(U) /\ Len(R) + Len(H) = Len(held)
      /\ SameRecords(R, RecordsOf(U))
      /\ Worths(R, SpentOnRecords) + Worths(H, SpentOnPositions) = Worths(held, SpentOnRecords)
      /\ held = Registered /\ Together(p) => R = RecordsOf(U)
  BY <1>1, AfterExits
<1>4. \A k \in 1..Len(U) : \E j \in 1..Len(tracked) : U[k] = tracked[j]
  BY <1>1, UnhitAre
<1> DEFINE n == Len(held)
           h == Len(H)
           r == Len(R)
<1>5. /\ CountAfterExits(p) = Max({0, n - h}) /\ count = n
      /\ CashAfterExits(p) = cash + Worths(H, BringsAt(p))
      /\ cash + Worths(held, CostsOf) = StartBalance + realised
      /\ closed + n = opened
  <2>1. H \in Seq(Entries) /\ held \in Seq(Entries)
    BY <1>1, <1>3, SeqOfEntries
  <2>2. Total(held, Spent) = Worths(held, CostsOf)
    BY <2>1, TotalsAre
  <2>3. Total(H, LAMBDA t : Proceeds(Slipped("SELL", p), t.qty)) = Worths(H, BringsAt(p))
    BY <2>1, TotalsAre
  <2>4. CashAfterExits(p) = cash + Worths(H, BringsAt(p))
    BY <2>3 DEF CashAfterExits
  <2>5. cash + Worths(held, CostsOf) = StartBalance + realised
    BY <1>1, <2>2 DEF CashIsAccounted
  <2>6. closed + n = opened
    BY <1>1 DEF OneTradeEach
  <2>7. CountAfterExits(p) = Max({0, n - h})
    BY <1>1 DEF CountAfterExits
  <2> QED
    BY <1>1, <2>4, <2>5, <2>6, <2>7
<1>6. /\ Worths(R, CostsOf) + Worths(H, CostsOf) = Worths(held, CostsOf)
      /\ Worths(H, BringsAt(p)) = Worths(H, EarnsAt(p)) + Worths(H, CostsOf)
      /\ Worths(R, CostsOf) \in Int /\ Worths(H, CostsOf) \in Int /\ Worths(held, CostsOf) \in Int
      /\ Worths(H, EarnsAt(p)) \in Int /\ Worths(H, BringsAt(p)) \in Int
  <2>1. H \in Seq(Entries) /\ held \in Seq(Entries) /\ R \in Seq(Entries)
    BY <1>1, <1>3, SeqOfEntries
  <2>2. /\ Worths(R, SpentOnRecords) = Worths(R, CostsOf)
        /\ Worths(H, SpentOnPositions) = Worths(H, CostsOf)
        /\ Worths(held, SpentOnRecords) = Worths(held, CostsOf)
    BY <1>1, <1>3, SpentAgree
  <2>3. Worths(R, CostsOf) + Worths(H, CostsOf) = Worths(held, CostsOf)
    BY <1>3, <2>2
  <2>4. /\ Worths(H, BringsAt(p)) = Worths(H, EarnsAt(p)) + Worths(H, CostsOf)
        /\ Worths(H, EarnsAt(p)) \in Int /\ Worths(H, BringsAt(p)) \in Int /\ Worths(H, CostsOf) \in Int
    BY <2>1, EarnedIs
  <2>5. Worths(R, CostsOf) \in Int /\ Worths(held, CostsOf) \in Int
    BY <2>1, EarnedIs
  <2> QED
    BY <2>3, <2>4, <2>5
<1>7. kind \in Sellers => R = RecordsOf(U) /\ \A k \in 1..Len(U) : Aims(U[k])
  BY <1>1, <1>2, <1>3, <1>4, TogetherIf
<1>8. h \in Nat /\ r \in Nat
  BY <1>3
<1>9. n \in Nat /\ r + h = n
  BY <1>1, <1>3
<1> HIDE DEF H, U, R, n, h, r
<1>10. n - h \in Int /\ n - h >= 0 /\ n - h = r
  BY <1>8, <1>9
<1>11. CountAfterExits(p) = r
  BY <1>5, <1>10, MaxOfTwo
<1>12. (closed + h) + r = opened
  BY <1>1, <1>5, <1>8, <1>9
<1> DEFINE c1 == CashAfterExits(p)
           wr == Worths(R, CostsOf)
           wh == Worths(H, CostsOf)
           wn == Worths(held, CostsOf)
           br == Worths(H, BringsAt(p))
           ea == Worths(H, EarnsAt(p))
<1>13. /\ c1 = cash + br /\ cash + wn = StartBalance + realised
       /\ wr + wh = wn /\ br = ea + wh
       /\ wr \in Int /\ wh \in Int /\ wn \in Int /\ ea \in Int /\ br \in Int
       /\ cash \in Int /\ realised \in Int /\ StartBalance \in Int
  BY <1>1, <1>5, <1>6, MoneyIsWhole
<1> HIDE DEF c1, wr, wh, wn, br, ea
<1>14. c1 \in Int /\ ea \in Int /\ c1 + wr = StartBalance + (realised + ea)
  BY <1>13
<1> QED
  BY <1>3, <1>7, <1>11, <1>12, <1>14 DEF H, U, R, n, h, r, c1, wr, ea
-----------------------------------------------------------------------------
(* What a trade leaves of the books, of which signal soever.               *)
Balanced ==
  /\ held' \in Seq(Records) /\ tracked' \in Seq(OpenPositions) /\ Len(held') = Len(tracked')
  /\ SameRecords(held', RecordsOf(tracked'))
  /\ count' = Len(held')
  /\ cash' \in Int /\ realised' \in Int /\ closed' \in Int /\ opened' \in Int
  /\ cash' + Worths(held', CostsOf) = StartBalance + realised'
  /\ closed' + Len(held') = opened'
  /\ kind \in Sellers => held' = RecordsOf(tracked') /\ \A k \in 1..Len(tracked') : Aims(tracked'[k])

(* A BUY says where its position is closed.                                *)
WellAimed(p, signal) ==
  /\ signal.tp \in Int /\ signal.level \in Int
  /\ kind \in Sellers /\ signal.type = "BUY" =>
       signal.tp = IF kind = "macd_momentum" THEN Target(p) ELSE Never

LEMMA BookIs ==
  ASSUME NEW H \in Seq(OpenPositions), NEW p \in Prices
  PROVE  /\ Total(H \o <<>>, LAMBDA t : Pnl(t, Slipped("SELL", p))) = Worths(H, EarnsAt(p))
         /\ Len(H \o <<>>) = Len(H)
         /\ \A r \in Records :
              /\ Total(H \o <<r>>, LAMBDA t : Pnl(t, Slipped("SELL", p)))
                   = Worths(H, EarnsAt(p)) + EarnsAt(p)[r]
              /\ Len(H \o <<r>>) = Len(H) + 1
<1>1. H \in Seq(Entries)
  BY SeqOfEntries
<1>2. H \o <<>> = H
  OBVIOUS
<1>3. Total(H \o <<>>, LAMBDA t : Pnl(t, Slipped("SELL", p))) = Worths(H, EarnsAt(p))
  BY <1>1, <1>2, TotalsAre
<1>4. ASSUME NEW r \in Records
      PROVE  /\ Total(H \o <<r>>, LAMBDA t : Pnl(t, Slipped("SELL", p)))
                  = Worths(H, EarnsAt(p)) + EarnsAt(p)[r]
             /\ Len(H \o <<r>>) = Len(H) + 1
  <2>1. r \in Entries
    BY DEF Entries
  <2> DEFINE G == H \o <<r>>
  <2>2. G = Append(H, r) /\ G \in Seq(Entries) /\ Len(G) = Len(H) + 1
    <3> HIDE DEF Entries
    <3> QED
      BY <1>1, <2>1
  <2> HIDE DEF G
  <2>3. Total(G, LAMBDA t : Pnl(t, Slipped("SELL", p))) = Worths(G, EarnsAt(p))
    BY <2>2, TotalsAre
  <2>4. EarnsAt(p) \in [Entries -> Int]
    BY EntryFunctions
  <2>5. Worths(Append(H, r), EarnsAt(p)) = Worths(H, EarnsAt(p)) + EarnsAt(p)[r]
    BY <1>1, <2>1, <2>4, WorthsAppended
  <2> QED
    BY <2>2, <2>3, <2>5 DEF G
<1>5. Len(H \o <<>>) = Len(H)
  BY <1>2
<1> QED
  BY <1>3, <1>4, <1>5

LEMMA NoTradeBalances ==
  ASSUME BooksInv, phase = "running", NEW p \in Prices, NEW signal, NoTrade(p, signal)
  PROVE  Balanced
<1> DEFINE H == Hits(p)
           U == Unhit(p)
           R == HeldAfterExits(p)
           c1 == CashAfterExits(p)
           ea == Worths(H, EarnsAt(p))
<1>1. /\ H \in Seq(OpenPositions) /\ U \in Seq(OpenPositions) /\ R \in Seq(Records)
      /\ Len(R) = Len(U)
      /\ SameRecords(R, RecordsOf(U))
      /\ CountAfterExits(p) = Len(R)
      /\ c1 \in Int /\ ea \in Int
      /\ c1 + Worths(R, CostsOf) = StartBalance + (realised + ea)
      /\ (closed + Len(H)) + Len(R) = opened
      /\ kind \in Sellers => R = RecordsOf(U) /\ \A k \in 1..Len(U) : Aims(U[k])
  BY ExitsKeepBooks
<1>2. /\ cash' = c1 /\ held' = R /\ tracked' = U /\ count' = CountAfterExits(p) /\ opened' = opened
      /\ realised' = realised + ea /\ closed' = closed + Len(H)
  BY <1>1, BookIs DEF NoTrade, Book
<1>3. realised \in Int /\ closed \in Int /\ opened \in Int /\ Len(H) \in Nat
  BY <1>1 DEF BooksInv, BooksTyped
<1> HIDE DEF H, U, R, c1, ea
<1>4. realised' \in Int /\ closed' \in Int
  BY <1>1, <1>2, <1>3
<1> QED
  BY <1>1, <1>2, <1>3, <1>4 DEF Balanced

LEMMA OpenBalances ==
  ASSUME BooksInv, phase = "running", NEW p \in Prices, NEW signal, NEW q \in Quantities,
         Open(p, signal, q), WellAimed(p, signal)
  PROVE  Balanced
<1> DEFINE H == Hits(p)
           U == Unhit(p)
           R == HeldAfterExits(p)
           c1 == CashAfterExits(p)
           ea == Worths(H, EarnsAt(p))
           entry == Slipped("BUY", p)
           rec == [entry |-> entry, qty |-> q]
           new == [entry |-> entry, qty |-> q, tp |-> signal.tp, sl |-> StopPrice(entry), level |-> signal.level]
<1>1. /\ H \in Seq(OpenPositions) /\ U \in Seq(OpenPositions) /\ R \in Seq(Records)
      /\ Len(R) = Len(U)
      /\ SameRecords(R, RecordsOf(U))
      /\ CountAfterExits(p) = Len(R)
      /\ c1 \in Int /\ ea \in Int
      /\ c1 + Worths(R, CostsOf) = StartBalance + (realised + ea)
      /\ (closed + Len(H)) + Len(R) = opened
      /\ kind \in Sellers => R = RecordsOf(U) /\ \A k \in 1..Len(U) : Aims(U[k])
  BY ExitsKeepBooks
<1>2. /\ signal.type = "BUY" /\ cash' = c1 - Cost(entry, q)
      /\ held' = Append(R, rec) /\ tracked' = Append(U, new)
      /\ count' = CountAfterExits(p) + 1 /\ opened' = opened + 1
      /\ realised' = realised + ea /\ closed' = closed + Len(H)
  BY <1>1, BookIs DEF Open, Book
<1>3. realised \in Int /\ closed \in Int /\ opened \in Int /\ Len(H) \in Nat /\ Len(R) \in Nat
  BY <1>1 DEF BooksInv, BooksTyped
<1>4. entry \in Nat /\ entry = p * (Scale + Slip) /\ q \in Nat /\ p \in Nat
  BY SlippedType, MoneyIsWhole
<1> HIDE DEF H, U, R, c1, ea, entry
<1>5. Cost(entry, q) \in Nat
  BY <1>4, MoneyType
<1>6. rec \in Records
  BY <1>4 DEF Records
<1>7. new \in OpenPositions
  <2>1. StopPrice(entry) \in Int
    BY <1>4, StopPriceType
  <2> QED
    BY <1>4, <2>1 DEF OpenPositions, WellAimed
<1>8. rec = RecordOf(new)
  BY DEF RecordOf
<1>9. CostsOf[rec] = Cost(entry, q)
  <2>1. rec \in Entries /\ rec.entry = entry /\ rec.qty = q
    BY <1>6 DEF Entries
  <2> HIDE DEF rec
  <2> QED
    BY <2>1 DEF CostsOf, Spent
<1>10. kind \in Sellers => Aims(new)
  <2>1. new.entry = entry /\ new.sl = StopPrice(entry) /\ new.tp = signal.tp
    OBVIOUS
  <2> HIDE DEF new
  <2>2. SUFFICES ASSUME kind \in Sellers PROVE Aims(new)
    OBVIOUS
  <2>3. signal.tp = IF kind = "macd_momentum" THEN Target(p) ELSE Never
    BY <1>2, <2>2 DEF WellAimed
  <2>4. CASE kind = "macd_momentum"
    <3> DEFINE a == Scale + Slip
               b == Scale + ProfitPart
    <3>1. a \in Nat /\ b \in Nat
      BY MoneyIsWhole
    <3>2. new.tp = p * b /\ entry = p * a
      BY <1>4, <2>1, <2>3, <2>4 DEF Target
    <3> HIDE DEF a, b
    <3>3. (p * b) * a = (p * a) * b
      BY <1>4, <3>1
    <3>4. new.tp * a = entry * b
      BY <3>2, <3>3
    <3> QED
      BY <2>1, <2>4, <3>4 DEF Aims, a, b
  <2>5. CASE kind # "macd_momentum"
    BY <2>1, <2>3, <2>5 DEF Aims
  <2> QED
    BY <2>4, <2>5
<1> HIDE DEF rec, new
<1>11. /\ held' \in Seq(Records) /\ Len(held') = Len(R) + 1
  BY <1>1, <1>2, <1>6
<1>12. /\ tracked' \in Seq(OpenPositions) /\ Len(tracked') = Len(U) + 1
       /\ tracked'[Len(U) + 1] = new /\ \A k \in 1..Len(U) : tracked'[k] = U[k]
       /\ Len(U) \in Nat
  BY <1>1, <1>2, <1>7
<1>13. RecordsOf(tracked') = Append(RecordsOf(U), rec)
  BY <1>1, <1>2, <1>7, <1>8, RecordsOfAppended
<1>14. RecordsOf(U) \in Seq(Records) /\ RecordsOf(tracked') \in Seq(Records)
  BY <1>1, <1>12, RecordsOfAre
<1>15. SameRecords(held', RecordsOf(tracked'))
  <2>1. \A r \in Records : Copies(R, r) = Copies(RecordsOf(U), r)
    BY <1>1, <1>14, SameRecordsIs
  <2>2. \A r : Copies(Append(R, rec), r) = Copies(R, r) + (IF rec = r THEN 1 ELSE 0)
    BY <1>1, <1>6, CopiesAppended
  <2>3. \A r : Copies(Append(RecordsOf(U), rec), r) = Copies(RecordsOf(U), r) + (IF rec = r THEN 1 ELSE 0)
    BY <1>6, <1>14, CopiesAppended
  <2>4. \A r \in Records : Copies(held', r) = Copies(RecordsOf(tracked'), r)
    BY <1>2, <1>13, <2>1, <2>2, <2>3
  <2> QED
    BY <1>11, <1>14, <2>4, SameRecordsIs
<1>16. Worths(held', CostsOf) = Worths(R, CostsOf) + Cost(entry, q)
  <2>1. R \in Seq(Entries) /\ rec \in Entries
    BY <1>1, <1>6, SeqOfEntries DEF Entries
  <2>2. CostsOf \in [Entries -> Int]
    BY EntryFunctions
  <2>3. Worths(Append(R, rec), CostsOf) = Worths(R, CostsOf) + CostsOf[rec]
    BY <2>1, <2>2, WorthsAppended
  <2> QED
    BY <1>2, <1>9, <2>3
<1>17. Worths(R, CostsOf) \in Int
  BY <1>1, SeqOfEntries, EarnedIs
<1>18. cash' + Worths(held', CostsOf) = StartBalance + realised' /\ cash' \in Int /\ realised' \in Int
  <2> DEFINE w == Worths(R, CostsOf)
             k == Cost(entry, q)
             w1 == Worths(held', CostsOf)
  <2>1. /\ w \in Int /\ k \in Int /\ w1 = w + k /\ cash' = c1 - k
        /\ c1 + w = StartBalance + (realised + ea) /\ StartBalance \in Int
    BY <1>1, <1>2, <1>5, <1>16, <1>17, MoneyIsWhole
  <2> HIDE DEF w, k, w1
  <2>2. cash' + w1 = StartBalance + realised' /\ cash' \in Int /\ realised' \in Int
    BY <1>1, <1>2, <1>3, <2>1
  <2> QED
    BY <2>2 DEF w1
<1>19. /\ closed' + Len(held') = opened' /\ closed' \in Int /\ opened' \in Int
       /\ count' = Len(held')
  <2> DEFINE a == Len(H)
             b == Len(R)
             d == Len(held')
  <2>1. a \in Nat /\ b \in Nat
    BY <1>3
  <2>2. d = b + 1
    BY <1>11
  <2>3. (closed + a) + b = opened /\ closed' = closed + a /\ opened' = opened + 1 /\ count' = b + 1
    BY <1>1, <1>2
  <2> HIDE DEF a, b, d
  <2>4. closed' + d = opened' /\ closed' \in Int /\ opened' \in Int /\ count' = d
    BY <1>3, <2>1, <2>2, <2>3
  <2> QED
    BY <2>4 DEF d
<1>20. kind \in Sellers => held' = RecordsOf(tracked') /\ \A k \in 1..Len(tracked') : Aims(tracked'[k])
  <2>1. \A k \in 1..(Len(U) + 1) : k \in 1..Len(U) \/ k = Len(U) + 1
    BY <1>12
  <2> QED
    BY <1>1, <1>2, <1>10, <1>12, <1>13, <2>1
<1>21. Len(held') = Len(tracked')
  BY <1>1, <1>11, <1>12
<1> QED
  BY <1>11, <1>12, <1>15, <1>18, <1>19, <1>20, <1>21 DEF Balanced

LEMMA CloseBalances ==
  ASSUME BooksInv, phase = "running", NEW p \in Prices, NEW signal,
         CloseOldest(p, signal), kind \in Sellers
  PROVE  Balanced /\ Len(held') + 1 = Len(HeldAfterExits(p))
<1> DEFINE H == Hits(p)
           U == Unhit(p)
           R == HeldAfterExits(p)
           c1 == CashAfterExits(p)
           ea == Worths(H, EarnsAt(p))
           r == R[1]
<1>1. /\ H \in Seq(OpenPositions) /\ U \in Seq(OpenPositions) /\ R \in Seq(Records)
      /\ Len(R) = Len(U)
      /\ CountAfterExits(p) = Len(R)
      /\ c1 \in Int /\ ea \in Int
      /\ c1 + Worths(R, CostsOf) = StartBalance + (realised + ea)
      /\ (closed + Len(H)) + Len(R) = opened
      /\ R = RecordsOf(U) /\ \A k \in 1..Len(U) : Aims(U[k])
  BY ExitsKeepBooks
<1>2. /\ R # <<>>
      /\ cash' = c1 + Proceeds(Slipped("SELL", p), Head(R).qty)
      /\ held' = Tail(R) /\ tracked' = Unregister(U, Head(R).entry)
      /\ count' = Max({0, CountAfterExits(p) - 1}) /\ opened' = opened
      /\ Book(p, <<Head(R)>>)
  BY DEF CloseOldest
<1>3. realised \in Int /\ closed \in Int /\ opened \in Int /\ Len(H) \in Nat /\ Len(R) \in Nat
  BY <1>1 DEF BooksInv, BooksTyped
<1> HIDE DEF H, U, R, c1, ea
<1>4. Len(R) > 0 /\ Len(U) > 0
  BY <1>1, <1>2
<1>5. /\ RemoveAt(R, 1) = Tail(R) /\ Tail(R) \in Seq(Records) /\ Len(Tail(R)) = Len(R) - 1
      /\ Head(R) = r /\ r \in Records
  BY <1>1, <1>4, RestIs
<1>6. /\ RemoveAt(U, 1) = Tail(U) /\ Tail(U) \in Seq(OpenPositions) /\ Len(Tail(U)) = Len(U) - 1
      /\ U[1] \in OpenPositions
  BY <1>1, <1>4, RestIs
<1>7. /\ \A i \in 1..Len(U) : R[i] = RecordOf(U[i])
  BY <1>1, RecordsOfAre
<1>8. r.entry = U[1].entry
  <2>1. r = RecordOf(U[1])
    BY <1>1, <1>4, <1>7
  <2> QED
    BY <2>1 DEF RecordOf
<1>9. tracked' = Tail(U)
  BY <1>1, <1>2, <1>4, <1>5, <1>8, UnregisterFirst
<1>10. realised' = realised + (ea + EarnsAt(p)[r]) /\ closed' = closed + (Len(H) + 1)
  <2>1. /\ Total(H \o <<r>>, LAMBDA t : Pnl(t, Slipped("SELL", p))) = Worths(H, EarnsAt(p)) + EarnsAt(p)[r]
        /\ Len(H \o <<r>>) = Len(H) + 1
    BY <1>1, <1>5, BookIs
  <2>2. realised' = realised + Total(H \o <<r>>, LAMBDA t : Pnl(t, Slipped("SELL", p)))
    BY <1>2, <1>5 DEF Book, H
  <2>3. closed' = closed + Len(H \o <<r>>)
    BY <1>2, <1>5 DEF Book, H
  <2> QED
    BY <2>1, <2>2, <2>3 DEF ea
<1>11. \A i \in 1..(Len(U) - 1) : Tail(U)[i] = U[i + 1]
  BY <1>1
<1>12. \A i \in 1..(Len(R) - 1) : Tail(R)[i] = R[i + 1]
  BY <1>1
<1>13. Tail(R) = RecordsOf(Tail(U))
  <2> DEFINE a == Tail(R)
             b == RecordsOf(Tail(U))
             n == Len(U)
  <2>1. /\ b \in Seq(Records) /\ Len(b) = Len(Tail(U))
        /\ \A i \in 1..Len(Tail(U)) : b[i] = RecordOf(Tail(U)[i])
    BY <1>6, RecordsOfAre
  <2>2. n \in Nat /\ n > 0
    BY <1>1, <1>4
  <2>3. \A i \in 1..(n - 1) : i + 1 \in 1..n
    BY <2>2
  <2>4. \A i \in 1..(n - 1) : a[i] = b[i]
    BY <1>1, <1>6, <1>7, <1>11, <1>12, <2>1, <2>3
  <2>5. a \in Seq(Records) /\ Len(a) = n - 1 /\ Len(b) = n - 1
    BY <1>1, <1>5, <1>6, <2>1
  <2> HIDE DEF a, b, n
  <2>6. a = b
    BY <2>1, <2>4, <2>5
  <2> QED
    BY <2>6 DEF a, b
<1>14. \A k \in 1..Len(Tail(U)) : Aims(Tail(U)[k])
  <2> DEFINE n == Len(U)
  <2>1. \A i \in 1..(n - 1) : i + 1 \in 1..n
    BY <1>1, <1>4
  <2> QED
    BY <1>1, <1>6, <1>11, <2>1
<1>15. SameRecords(held', RecordsOf(tracked'))
  BY <1>2, <1>9, <1>13 DEF SameRecords
<1>16. Worths(R, CostsOf) = Worths(Tail(R), CostsOf) + CostsOf[r]
  <2>1. R \in Seq(Entries) /\ 1 \in 1..Len(R)
    BY <1>1, <1>3, <1>4, SeqOfEntries
  <2>2. CostsOf \in [Entries -> Int]
    BY EntryFunctions
  <2>3. Worths(R, CostsOf) = Worths(RemoveAt(R, 1), CostsOf) + CostsOf[R[1]]
    BY <2>1, <2>2, WorthsRemoved
  <2> QED
    BY <1>5, <2>3
<1>17. /\ Worths(Tail(R), CostsOf) \in Int /\ CostsOf[r] \in Int /\ BringsAt(p)[r] \in Int
       /\ EarnsAt(p)[r] = BringsAt(p)[r] - CostsOf[r]
       /\ Proceeds(Slipped("SELL", p), r.qty) = BringsAt(p)[r]
  <2>1. r \in Entries
    BY <1>5 DEF Entries
  <2>2. Tail(R) \in Seq(Entries)
    BY <1>5, SeqOfEntries
  <2>3. Worths(Tail(R), CostsOf) \in Int
    BY <2>2, EarnedIs
  <2>4. /\ BringsAt(p) \in [Entries -> Int] /\ CostsOf \in [Entries -> Int]
        /\ \A e \in Entries : EarnsAt(p)[e] = BringsAt(p)[e] - CostsOf[e]
    BY EntryFunctions
  <2>5. BringsAt(p)[r] = Proceeds(Slipped("SELL", p), r.qty)
    BY <2>1 DEF BringsAt
  <2> HIDE DEF r
  <2> QED
    BY <2>1, <2>3, <2>4, <2>5
<1>18. cash' + Worths(held', CostsOf) = StartBalance + realised' /\ cash' \in Int /\ realised' \in Int
  <2> DEFINE w == Worths(R, CostsOf)
             w1 == Worths(Tail(R), CostsOf)
             k == CostsOf[r]
             g == BringsAt(p)[r]
             e == EarnsAt(p)[r]
  <2>1. /\ w1 \in Int /\ k \in Int /\ g \in Int /\ e = g - k /\ w = w1 + k /\ cash' = c1 + g
        /\ c1 + w = StartBalance + (realised + ea) /\ StartBalance \in Int
        /\ realised' = realised + (ea + e)
    BY <1>1, <1>2, <1>5, <1>10, <1>16, <1>17, MoneyIsWhole
  <2> HIDE DEF w, k, w1, g, e
  <2>2. cash' + w1 = StartBalance + realised' /\ cash' \in Int /\ realised' \in Int
    BY <1>1, <1>3, <2>1
  <2> QED
    BY <1>2, <2>2 DEF w1
<1>19. /\ closed' + Len(held') = opened' /\ closed' \in Int /\ opened' \in Int
       /\ count' = Len(held') /\ Len(held') + 1 = Len(R)
  <2> DEFINE a == Len(H)
             b == Len(R)
             d == Len(held')
  <2>1. a \in Nat /\ b \in Nat /\ b > 0
    BY <1>3, <1>4
  <2>2. d = b - 1
    BY <1>2, <1>5
  <2>3. (closed + a) + b = opened /\ closed' = closed + (a + 1) /\ opened' = opened /\ count' = Max({0, b - 1})
    BY <1>1, <1>2, <1>10
  <2> HIDE DEF a, b, d
  <2>4. b - 1 \in Int /\ b - 1 >= 0
    BY <2>1
  <2>5. Max({0, b - 1}) = b - 1
    BY <2>4, MaxOfTwo
  <2>6. closed' + d = opened' /\ closed' \in Int /\ opened' \in Int /\ count' = d /\ d + 1 = b
    BY <1>3, <2>1, <2>2, <2>3, <2>5
  <2> QED
    BY <2>6 DEF b, d
<1>20. /\ held' \in Seq(Records) /\ tracked' \in Seq(OpenPositions) /\ Len(held') = Len(tracked')
       /\ held' = RecordsOf(tracked') /\ \A k \in 1..Len(tracked') : Aims(tracked'[k])
  BY <1>1, <1>2, <1>5, <1>6, <1>9, <1>13, <1>14
<1> QED
  BY <1>15, <1>18, <1>19, <1>20 DEF Balanced, R
-----------------------------------------------------------------------------
(* What the strategies signal.                                             *)
LEMMA GridNumbers ==
  ASSUME ref \in Int
  PROVE  /\ \A i \in Int : Level(i) \in Int /\ Line(i) \in Int
         /\ BuyLevels \subseteq Int /\ Lines \subseteq Int
         /\ \A i \in BuyLevels : i >= 0 /\ i + 1 \in Int
<1>1. GridSize \in Nat
  BY StrategyAssumption DEF StrategyAssumption
<1>2. \A i \in Int : i \div 2 \in Int
  OBVIOUS
<1>3. \A i \in Int : Level(i) \in Int
  BY <1>2 DEF Level
<1>4. Half \in Int
  BY <1>1, <1>2 DEF Half
<1>5. \A i \in Int : Line(i) \in Int
  BY <1>4 DEF Line
<1>6. BuyLevels \subseteq Int /\ Lines \subseteq Int /\ \A i \in BuyLevels : i >= 0 /\ i + 1 \in Int
  BY <1>1 DEF BuyLevels, Lines
<1> QED
  BY <1>3, <1>5, <1>6

LEMMA LeastOf ==
  ASSUME NEW n \in Nat, NEW I, I \subseteq 0..n, I # {}
  PROVE  Min(I) \in I
<1>1. I \subseteq Nat
  OBVIOUS
<1>2. \E x \in I : \A y \in I : x <= y
  BY <1>1, SmallestOf
<1> QED
  BY <1>2 DEF Min

LEMMA GridSignalIs ==
  ASSUME NEW p, ref \in Int
  PROVE  \/ GridSignal(p) = NoSignal
         \/ \E i \in BuyLevels :
              /\ ref # Never
              /\ \/ CrossedDown(i, p) /\ GridSignal(p) = BuySignal(Level(i + 1) * Scale, i)
                 \/ CrossedUp(i, p) /\ GridSignal(p) = SellSignal(i)
<1>1. CASE ref = Never \/ Crossed(p) = {}
  BY <1>1 DEF GridSignal
<1>2. CASE ref # Never /\ Crossed(p) # {}
  <2>1. GridSize \in Nat
    BY StrategyAssumption DEF StrategyAssumption
  <2>2. Crossed(p) \subseteq 0..GridSize
    BY <2>1 DEF Crossed, BuyLevels
  <2>3. First(p) \in Crossed(p)
    BY <1>2, <2>1, <2>2, LeastOf DEF First
  <2> DEFINE i == First(p)
  <2>4. i \in BuyLevels /\ (CrossedDown(i, p) \/ CrossedUp(i, p))
    BY <2>3 DEF Crossed
  <2>5. GridSignal(p) = IF CrossedDown(i, p) THEN BuySignal(Level(i + 1) * Scale, i) ELSE SellSignal(i)
    BY <1>2 DEF GridSignal
  <2> HIDE DEF i
  <2> QED
    BY <1>2, <2>4, <2>5
<1> QED
  BY <1>1, <1>2

LEMMA InfinitySignalIs ==
  ASSUME NEW p, ref \in Int
  PROVE  \/ InfinitySignal(p) = NoSignal
         \/ \E i \in Lines : InfinitySignal(p) = BuySignal(Target(Line(i)), i)
<1>1. CASE ref = Never \/ LockAfter(p) # NoLock \/ Buyable(p) = {}
  BY <1>1 DEF InfinitySignal
<1>2. CASE ~(ref = Never \/ LockAfter(p) # NoLock \/ Buyable(p) = {})
  <2>1. GridSize \in Nat
    BY StrategyAssumption DEF StrategyAssumption
  <2>2. Buyable(p) \subseteq 0..GridSize /\ Buyable(p) \subseteq Lines
    BY <2>1 DEF Buyable, Lines
  <2>3. Min(Buyable(p)) \in Buyable(p)
    BY <1>2, <2>1, <2>2, LeastOf
  <2>4. InfinitySignal(p) = BuySignal(Target(Line(Min(Buyable(p)))), Min(Buyable(p)))
    BY <1>2 DEF InfinitySignal
  <2> QED
    BY <2>2, <2>3, <2>4
<1> QED
  BY <1>1, <1>2

LEMMA SignalFields ==
  /\ NoSignal.type = "none" /\ NoSignal.tp = 0 /\ NoSignal.level = 0
  /\ \A x, y : /\ BuySignal(x, y).type = "BUY" /\ BuySignal(x, y).tp = x /\ BuySignal(x, y).level = y
               /\ SellSignal(y).type = "SELL" /\ SellSignal(y).tp = 0 /\ SellSignal(y).level = y
BY DEF NoSignal, BuySignal, SellSignal, Never

LEMMA SignalTypes ==
  ASSUME NEW p \in Prices, NEW signal \in SignalsAt(p), ref \in Int
  PROVE  signal.tp \in Int /\ signal.level \in Int
<1>1. p \in Int /\ Scale \in Int /\ Scale + ProfitPart \in Int /\ Scale + TestPart \in Int
  BY MoneyIsWhole
<1>2. CASE kind = "grid"
  <2>1. signal \in {GridSignal(p), NoSignal}
    BY <1>2 DEF SignalsAt
  <2>2. CASE signal = NoSignal
    BY <2>2, SignalFields
  <2>3. CASE signal = GridSignal(p) /\ signal # NoSignal
    <3>1. PICK i \in BuyLevels : \/ signal = BuySignal(Level(i + 1) * Scale, i)
                                 \/ signal = SellSignal(i)
      BY <2>3, GridSignalIs
    <3>2. i \in Int /\ Level(i + 1) \in Int
      BY GridNumbers
    <3>3. Level(i + 1) * Scale \in Int
      BY <1>1, <3>2, TimesInt
    <3> QED
      BY <3>1, <3>2, <3>3, SignalFields
  <2> QED
    BY <2>1, <2>2, <2>3
<1>3. CASE kind = "infinity_grid"
  <2>1. signal \in {InfinitySignal(p), NoSignal}
    BY <1>3 DEF SignalsAt
  <2>2. CASE signal = NoSignal
    BY <2>2, SignalFields
  <2>3. CASE signal = InfinitySignal(p) /\ signal # NoSignal
    <3>1. PICK i \in Lines : signal = BuySignal(Target(Line(i)), i)
      BY <2>3, InfinitySignalIs
    <3>2. i \in Int /\ Line(i) \in Int
      BY GridNumbers
    <3>3. Target(Line(i)) \in Int
      BY <1>1, <3>2, TimesInt DEF Target
    <3> QED
      BY <3>1, <3>2, <3>3, SignalFields
  <2> QED
    BY <2>1, <2>2, <2>3
<1>4. CASE kind # "grid" /\ kind # "infinity_grid"
  <2>1. signal \in {NoSignal, SellSignal(Never), BuySignal(Never, Never),
                    BuySignal(Target(p), Never), BuySignal(p * (Scale + TestPart), Never)}
    BY <1>4 DEF SignalsAt
  <2>2. Target(p) \in Int /\ p * (Scale + TestPart) \in Int
    BY <1>1, TimesInt DEF Target
  <2>3. Never = 0 /\ 0 \in Int
    BY DEF Never
  <2> QED
    BY <2>1, <2>2, <2>3, SignalFields
<1> QED
  BY <1>2, <1>3, <1>4

(* An indicator strategy says where its BUYs end, sells only if it is one  *)
(* of those that do, and does not buy while it believes to be in position. *)
Consistent(p, signal, n) ==
  /\ signal.type = "BUY" /\ kind \in Sellers =>
       signal.tp = IF kind = "macd_momentum" THEN Target(p) ELSE Never
  /\ signal.type = "SELL" => kind \in Sellers
  /\ signal.type = "BUY" /\ kind \in Flagged => ~FlagAfter(n)
  /\ kind # "grid"

LEMMA KindsApart ==
  /\ {"macd_buy", "mean_reversion", "rsi_peak", "macd_peak", "grid", "infinity_grid"} \intersect Sellers = {}
  /\ {"macd_momentum", "macd_cross", "sma_cross", "example_rsi", "bollinger", "rsi", "macd",
      "sma_crossover", "bollinger_bands", "multi_indicator"} \subseteq Sellers
  /\ Flagged \subseteq Sellers
  /\ {"macd_momentum", "macd_cross", "rsi", "macd", "sma_crossover", "bollinger_bands", "multi_indicator"}
       \intersect Flagged = {}
  /\ Flagged \intersect Counting = {}
BY DEF Sellers, Counting, Flagged, Domain

LEMMA NoSignalConsistent ==
  ASSUME NEW p, NEW signal, NEW n, signal = NoSignal, kind # "grid"
  PROVE  Consistent(p, signal, n)
BY SignalFields DEF Consistent

LEMMA IndicatorsConsistent ==
  ASSUME NEW p, NEW signal, NEW n, OnIndicators(p, signal, n)
  PROVE  Consistent(p, signal, n)
<1>1. \/ Momentum(p, signal, n)
      \/ ExampleRsi(signal, n) \/ Bollinger(signal, n)
      \/ \E now \in Sides :
           SmaCross(signal, n, now) \/ MacdCross(signal, n, now) \/ MacdBuy(p, signal, now)
      \/ MeanReversion(p, signal)
      \/ \E trend \in {"falls", "rises", "flat"} :
           RsiPeak(p, signal, trend) \/ MacdPeak(p, signal, trend)
      \/ TestBuy(p, signal)
      \/ Unread(signal)
      \/ OnDomain(signal)
  BY DEF OnIndicators
<1> DEFINE Silent == signal = NoSignal
           Buys(x) == signal = BuySignal(x, Never)
           Sells == signal = SellSignal(Never)
<1>2. /\ Silent => signal.type = "none"
      /\ Sells => signal.type = "SELL"
      /\ \A x : Buys(x) => signal.type = "BUY" /\ signal.tp = x
  BY SignalFields
<1>3. "none" # "BUY" /\ "none" # "SELL" /\ "BUY" # "SELL"
  OBVIOUS
<1>4. CASE Momentum(p, signal, n)
  <2>1. kind = "macd_momentum" /\ (Silent \/ Buys(Target(p)) \/ Sells)
    BY <1>4 DEF Momentum
  <2> HIDE DEF Silent, Buys, Sells
  <2> QED
    BY <1>2, <1>3, <2>1, KindsApart DEF Consistent
<1>5. CASE ExampleRsi(signal, n) \/ Bollinger(signal, n)
  <2>1. /\ kind \in {"example_rsi", "bollinger"}
        /\ Silent \/ (Buys(Never) /\ MayBuy(n)) \/ Sells
    BY <1>5 DEF ExampleRsi, Bollinger, ByFlag
  <2>2. MayBuy(n) => ~FlagAfter(n)
    BY <2>1 DEF MayBuy, Counting
  <2> HIDE DEF Silent, Buys, Sells
  <2> QED
    BY <1>2, <1>3, <2>1, <2>2, KindsApart DEF Consistent
<1>6. ASSUME NEW now \in Sides, SmaCross(signal, n, now) PROVE Consistent(p, signal, n)
  <2>1. kind = "sma_cross" /\ (Silent \/ (Buys(Never) /\ MayBuy(n)) \/ Sells)
    BY <1>6 DEF SmaCross
  <2>2. MayBuy(n) => ~FlagAfter(n)
    BY <2>1 DEF MayBuy, Counting
  <2> HIDE DEF Silent, Buys, Sells
  <2> QED
    BY <1>2, <1>3, <2>1, <2>2, KindsApart DEF Consistent
<1>7. ASSUME NEW now \in Sides, MacdCross(signal, n, now) PROVE Consistent(p, signal, n)
  <2>1. kind = "macd_cross" /\ (Silent \/ Buys(Never) \/ Sells)
    BY <1>7 DEF MacdCross
  <2> HIDE DEF Silent, Buys, Sells
  <2> QED
    BY <1>2, <1>3, <2>1, KindsApart DEF Consistent
<1>8. CASE \/ \E now \in Sides : MacdBuy(p, signal, now)
           \/ MeanReversion(p, signal)
           \/ \E trend \in {"falls", "rises", "flat"} :
                RsiPeak(p, signal, trend) \/ MacdPeak(p, signal, trend)
           \/ TestBuy(p, signal)
  <2>1. /\ kind \in {"macd_buy", "mean_reversion", "rsi_peak", "macd_peak"}
        /\ Silent \/ \E x : Buys(x)
    BY <1>8 DEF MacdBuy, MeanReversion, RsiPeak, MacdPeak, TestBuy
  <2> HIDE DEF Silent, Buys, Sells
  <2>2. kind \notin Sellers /\ kind \notin Flagged /\ kind # "grid"
    BY <2>1, KindsApart
  <2>3. signal.type # "SELL"
    BY <1>2, <1>3, <2>1
  <2> QED
    BY <2>2, <2>3 DEF Consistent
<1>9. CASE Unread(signal)
  <2>1. Silent /\ kind # "grid"
    BY <1>9 DEF Unread
  <2> QED
    BY <2>1, NoSignalConsistent
<1>10. CASE OnDomain(signal)
  <2>1. /\ kind \in {"rsi", "macd", "sma_crossover", "bollinger_bands", "multi_indicator"}
        /\ Silent \/ Buys(Never) \/ Sells
    <3>1. CASE Rsi(signal) \/ BollingerBands(signal) \/ MultiIndicator(signal)
      BY <3>1 DEF Rsi, BollingerBands, MultiIndicator, AnyOf
    <3>2. ASSUME NEW now \in Sides, Macd(signal, now) \/ SmaCrossover(signal, now)
          PROVE  /\ kind \in {"macd", "sma_crossover"}
                 /\ Silent \/ Buys(Never) \/ Sells
      BY <3>2 DEF Macd, SmaCrossover, LinesCross
    <3> QED
      BY <1>10, <3>1, <3>2 DEF OnDomain
  <2> HIDE DEF Silent, Buys, Sells
  <2> QED
    BY <1>2, <1>3, <2>1, KindsApart DEF Consistent
<1> QED
  BY <1>1, <1>4, <1>5, <1>6, <1>7, <1>8, <1>9, <1>10

(* What a tick of the strategy comes to.                                   *)
LEMMA TickIs ==
  ASSUME NEW p, NEW signal, NEW open, NEW n, NEW sold, OnTick(p, signal, open, n, sold),
         ref \in Int
  PROVE  /\ Believes(signal, n, sold) /\ kind' = kind
         /\ \/ signal = NoSignal
            \/ open < MaxOpen
         /\ kind # "grid" => Consistent(p, signal, n)
         /\ kind = "grid" => \/ signal = NoSignal /\ UNCHANGED <<gridVars, readVars>>
                             \/ Grid(p, signal) /\ OnGrid(p, signal)
<1>1. /\ Believes(signal, n, sold) /\ kind' = kind
      /\ IF open < MaxOpen
           THEN OnGrid(p, signal) \/ OnIndicators(p, signal, n)
           ELSE signal = NoSignal /\ UNCHANGED <<gridVars, readVars>>
  BY DEF OnTick
<1>2. CASE ~(open < MaxOpen)
  BY <1>1, <1>2, NoSignalConsistent
<1>3. CASE open < MaxOpen /\ OnIndicators(p, signal, n)
  <2>1. Consistent(p, signal, n)
    BY <1>3, IndicatorsConsistent
  <2>2. kind # "grid"
    BY <2>1 DEF Consistent
  <2> QED
    BY <1>1, <1>3, <2>1, <2>2
<1>4. CASE open < MaxOpen /\ OnGrid(p, signal)
  <2>1. Grid(p, signal) \/ InfinityGrid(p, signal)
    BY <1>4 DEF OnGrid
  <2>2. CASE Grid(p, signal)
    BY <1>1, <1>4, <2>2 DEF Grid
  <2>3. CASE InfinityGrid(p, signal)
    <3>1. kind = "infinity_grid" /\ signal = InfinitySignal(p)
      BY <2>3 DEF InfinityGrid
    <3>2. signal.type # "SELL"
      BY <3>1, InfinitySignalIs, SignalFields
    <3>3. kind \notin Sellers /\ kind \notin Flagged /\ kind # "grid"
      BY <3>1, KindsApart
    <3> QED
      BY <1>1, <1>4, <3>2, <3>3 DEF Consistent
  <2> QED
    BY <2>1, <2>2, <2>3
<1> QED
  BY <1>1, <1>2, <1>3, <1>4
LEMMA ReferenceKept ==
  ASSUME BooksTyped, NEW p \in Prices, NEW signal, NEW open, NEW n, NEW sold,
         OnTick(p, signal, open, n, sold)
  PROVE  /\ ref \in Int
         /\ (ref' = Never /\ last' = Never) \/ (ref' \in Prices /\ last' \in Prices)
<1>1. /\ (ref = Never /\ last = Never) \/ (ref \in Prices /\ last \in Prices)
      /\ Prices \subseteq Nat \ {0} /\ Never = 0
  BY MoneyIsWhole DEF BooksTyped, Never
<1>2. \/ ref' = ref /\ last' = last
      \/ ref' = (IF ref = Never THEN p ELSE ref) /\ last' = p
  BY DEF OnTick, OnGrid, OnIndicators, gridVars
<1>3. ref \in Int
  <2>1. CASE ref = Never
    BY <1>1, <2>1
  <2>2. CASE ref \in Prices
    BY <1>1, <2>2
  <2> QED
    BY <1>1, <2>1, <2>2
<1> QED
  BY <1>1, <1>2, <1>3

(* The positions that stay are of different levels, and none is at its     *)
(* take-profit.                                                            *)
LEMMA UnhitLevels ==
  ASSUME BooksInv, phase = "running", kind = "grid", NEW p
  PROVE  /\ \A k \in 1..Len(Unhit(p)) : AtItsLevel(Unhit(p)[k]) /\ ~Hit(Unhit(p)[k], p)
         /\ \A k, l \in 1..Len(Unhit(p)) : Unhit(p)[k].level = Unhit(p)[l].level => k = l
<1> DEFINE U == Unhit(p)
           n == Len(tracked)
<1>1. /\ tracked \in Seq(OpenPositions) /\ held \in Seq(Records) /\ Len(held) = n
      /\ SameRecords(held, Registered)
  BY DEF BooksInv, BooksTyped, Running
<1>2. /\ \A i \in 1..n : AtItsLevel(tracked[i])
      /\ \A i, j \in 1..n : tracked[i].level = tracked[j].level => i = j
  BY <1>1 DEF BooksInv, Running, LevelsInUse, LevelHeldOnce
<1>3. /\ \A k \in 1..Len(U) : \E j \in 1..n : U[k] = tracked[j] /\ ~Hit(tracked[j], p)
      /\ \A k, l \in 1..Len(U) : k < l =>
           \E j, m \in 1..n : j < m /\ U[k] = tracked[j] /\ U[l] = tracked[m]
  BY <1>1, UnhitAre
<1>4. n \in Nat /\ Len(U) \in Nat
  BY <1>1, AfterExits
<1> HIDE DEF U, n
<1>5. \A k \in 1..Len(U) : AtItsLevel(U[k]) /\ ~Hit(U[k], p)
  BY <1>2, <1>3
<1>6. ASSUME NEW k \in 1..Len(U), NEW l \in 1..Len(U), k < l PROVE U[k].level # U[l].level
  <2>1. PICK j, m \in 1..n : j < m /\ U[k] = tracked[j] /\ U[l] = tracked[m]
    BY <1>3, <1>6
  <2>2. j # m
    BY <1>4, <2>1
  <2> QED
    BY <1>2, <2>1, <2>2
<1>7. ASSUME NEW k \in 1..Len(U), NEW l \in 1..Len(U), U[k].level = U[l].level PROVE k = l
  <2>1. ~(k < l) /\ ~(l < k)
    BY <1>6, <1>7
  <2> QED
    BY <1>4, <2>1
<1> QED
  BY <1>5, <1>7 DEF U

LEMMA UsedAfter ==
  ASSUME NEW p, NEW signal, Grid(p, signal)
  PROVE  /\ signal = GridSignal(p)
         /\ signal.type = "BUY" => used' = used \union {signal.level}
         /\ signal.type = "SELL" => used' = used \ {signal.level}
         /\ signal.type = "none" => used' = used
<1>1. /\ signal = GridSignal(p)
      /\ used' = (used \ {signal.level : x \in {signal.type} \intersect {"SELL"}})
                   \union {signal.level : x \in {signal.type} \intersect {"BUY"}}
  BY DEF Grid
<1>2. /\ {signal.type} \intersect {"SELL"} = IF signal.type = "SELL" THEN {"SELL"} ELSE {}
      /\ {signal.type} \intersect {"BUY"} = IF signal.type = "BUY" THEN {"BUY"} ELSE {}
  OBVIOUS
<1>3. \A l : {l : x \in {"SELL"}} = {l} /\ {l : x \in {"BUY"}} = {l} /\ {l : x \in {}} = {}
  OBVIOUS
<1>4. "none" # "BUY" /\ "none" # "SELL" /\ "BUY" # "SELL"
  OBVIOUS
<1>5. CASE signal.type = "BUY"
  <2>1. {signal.type} \intersect {"SELL"} = {} /\ {signal.type} \intersect {"BUY"} = {"BUY"}
    BY <1>2, <1>4, <1>5
  <2>2. used' = (used \ {}) \union {signal.level}
    BY <1>1, <1>3, <2>1
  <2> QED
    BY <1>1, <1>4, <1>5, <2>2
<1>6. CASE signal.type = "SELL"
  <2>1. {signal.type} \intersect {"SELL"} = {"SELL"} /\ {signal.type} \intersect {"BUY"} = {}
    BY <1>2, <1>4, <1>6
  <2>2. used' = (used \ {signal.level}) \union {}
    BY <1>1, <1>3, <2>1
  <2> QED
    BY <1>1, <1>4, <1>6, <2>2
<1>7. CASE signal.type # "BUY" /\ signal.type # "SELL"
  <2>1. {signal.type} \intersect {"SELL"} = {} /\ {signal.type} \intersect {"BUY"} = {}
    BY <1>2, <1>7
  <2>2. used' = (used \ {}) \union {}
    BY <1>1, <1>3, <2>1
  <2> QED
    BY <1>1, <1>7, <2>2
<1> QED
  BY <1>5, <1>6, <1>7

(* The trade of a candle.                                                  *)
Trade(p, signal, sold) ==
  \/ sold = 0 /\ \E q \in Quantities : Open(p, signal, q)
  \/ sold = 1 /\ CloseOldest(p, signal)
  \/ sold = 0 /\ NoTrade(p, signal)

LevelFrom(r, i) == IF i % 2 = 0 THEN r - (i \div 2 + 1) ELSE r - (i \div 2 - 1)

(* The levels of positions, by the levels in use and the reference.        *)
LevelsFit(s, u, r) ==
  /\ \A k \in 1..Len(s) : s[k].level \in u /\ s[k].tp = LevelFrom(r, s[k].level + 1) * Scale
  /\ \A k, l \in 1..Len(s) : s[k].level = s[l].level => k = l
  /\ u \subseteq BuyLevels

LEMMA LevelsStay ==
  ASSUME BooksInv, phase = "running", kind = "grid", NEW p \in Prices, NEW u, NEW r,
         u \subseteq used,
         \A k \in 1..Len(Unhit(p)) : Unhit(p)[k].level \in u,
         r = ref \/ used = {}
  PROVE  LevelsFit(Unhit(p), u, r)
<1> DEFINE U == Unhit(p)
<1>1. /\ \A k \in 1..Len(U) : AtItsLevel(U[k])
      /\ \A k, l \in 1..Len(U) : U[k].level = U[l].level => k = l
  BY UnhitLevels
<1>2. used \subseteq BuyLevels
  BY DEF BooksInv, Running, LevelsInUse
<1> HIDE DEF U
<1>3. ASSUME NEW k \in 1..Len(U), U[k].level \in u
      PROVE  U[k].tp = LevelFrom(r, U[k].level + 1) * Scale
  <2>1. U[k].level \in used /\ U[k].tp = Level(U[k].level + 1) * Scale
    BY <1>1 DEF AtItsLevel
  <2>2. r = ref
    BY <2>1
  <2>3. Level(U[k].level + 1) = LevelFrom(r, U[k].level + 1)
    BY <2>2 DEF Level, LevelFrom
  <2> QED
    BY <2>1, <2>3
<1> QED
  BY <1>1, <1>2, <1>3 DEF U, LevelsFit

LEMMA LevelsIf ==
  ASSUME tracked' \in Seq(OpenPositions), kind' = "grid", ref' = Never => used' = {},
         LevelsFit(tracked', used', ref')
  PROVE  LevelsInUse'
<1>1. DOMAIN tracked' = 1..Len(tracked')
  OBVIOUS
<1>2. LevelHeldOnce'
  BY <1>1 DEF LevelHeldOnce, LevelsFit
<1>3. \A k \in 1..Len(tracked') : AtItsLevel(tracked[k])'
  BY DEF AtItsLevel, Level, LevelFrom, LevelsFit
<1>4. (used \subseteq BuyLevels)' /\ (ref = Never => used = {})'
  BY DEF BuyLevels, Never, LevelsFit
<1> QED
  BY <1>2, <1>3, <1>4 DEF LevelsInUse

LEMMA GridCandle ==
  ASSUME BooksInv, phase = "running", kind = "grid", NEW p \in Prices, NEW signal, NEW sold,
         OnTick(p, signal, CountAfterExits(p), Len(Hits(p)), sold), Trade(p, signal, sold),
         tracked' \in Seq(OpenPositions)
  PROVE  LevelsInUse'
<1> DEFINE U == Unhit(p)
<1>1. /\ BooksTyped /\ ((ref = Never /\ last = Never) \/ (ref \in Prices /\ last \in Prices))
      /\ ref = Never => used = {}
  BY DEF BooksInv, BooksTyped, Running, LevelsInUse
<1>2. ref \in Int /\ Prices \subseteq Nat \ {0} /\ p # Never
  BY <1>1, ReferenceKept, MoneyIsWhole DEF Never
<1>3. /\ kind' = kind
      /\ \/ signal = NoSignal /\ UNCHANGED <<gridVars, readVars>>
         \/ Grid(p, signal) /\ OnGrid(p, signal)
  BY <1>2, TickIs
<1>4. U \in Seq(OpenPositions) /\ Len(U) \in Nat
  BY ExitsKeepBooks
<1>5. /\ \A k \in 1..Len(U) : AtItsLevel(U[k]) /\ ~Hit(U[k], p)
      /\ \A k, l \in 1..Len(U) : U[k].level = U[l].level => k = l
  BY UnhitLevels
<1>6. \A k \in 1..Len(U) : U[k].level \in used
  BY <1>5 DEF AtItsLevel
<1>7. "none" # "BUY" /\ "none" # "SELL" /\ "BUY" # "SELL"
  OBVIOUS
<1>8. signal.type # "BUY" => tracked' = U
  BY DEF Trade, Open, CloseOldest, NoTrade
<1>9. CASE signal.type = "none" /\ used' = used /\ (ref' = ref \/ used = {}) /\ (ref' = Never => used = {})
  <2>1. tracked' = U
    BY <1>7, <1>8, <1>9
  <2>a. used' \subseteq used /\ \A k \in 1..Len(Unhit(p)) : Unhit(p)[k].level \in used'
    BY <1>6, <1>9
  <2>2. LevelsFit(U, used', ref')
    BY <1>9, <2>a, LevelsStay, Zenon
  <2> QED
    BY <1>3, <1>4, <1>9, <2>1, <2>2, LevelsIf
<1>10. ASSUME NEW i \in BuyLevels, ref # Never, ref' = ref, CrossedUp(i, p), used' = used \ {i},
              signal.type = "SELL"
       PROVE  LevelsInUse'
  <2>1. tracked' = U
    BY <1>7, <1>8, <1>10
  <2>2. \A k \in 1..Len(U) : U[k].level # i
    <3>1. SUFFICES ASSUME NEW k \in 1..Len(U), U[k].level = i PROVE FALSE
      OBVIOUS
    <3> DEFINE x == Level(i + 1)
               t == U[k]
    <3>2. t.tp = x * Scale /\ ~Hit(t, p)
      BY <1>5, <3>1 DEF AtItsLevel
    <3>3. last < x /\ p >= x
      BY <1>10 DEF CrossedUp
    <3>4. last \in Nat /\ last > 0 /\ p \in Nat /\ x \in Int
      <4>1. i + 1 \in Int /\ \A j \in Int : Level(j) \in Int
        BY <1>2, GridNumbers
      <4>2. x \in Int
        BY <4>1
      <4>3. last \in Prices
        BY <1>1, <1>10
      <4> QED
        BY <1>2, <4>2, <4>3
    <3> HIDE DEF x, t
    <3>5. x > 0 /\ x \in Nat
      BY <3>3, <3>4
    <3>6. \A a, b, s \in Nat : a >= b => a * s >= b * s
      OBVIOUS
    <3>7. \A a, s \in Nat : a > 0 /\ s > 0 => a * s # 0
      OBVIOUS
    <3>8. Scale \in Nat /\ Scale > 0
      BY MoneyIsWhole
    <3>9. p * Scale >= x * Scale /\ x * Scale # 0
      BY <3>3, <3>4, <3>5, <3>6, <3>7, <3>8
    <3> QED
      BY <3>2, <3>9 DEF Hit, Never
  <2>3. \A k \in 1..Len(Unhit(p)) : Unhit(p)[k].level \in used'
    BY <1>6, <1>10, <2>2
  <2>4. used' \subseteq used
    BY <1>10
  <2>5. LevelsFit(U, used', ref')
    BY <1>10, <2>3, <2>4, LevelsStay, Zenon
  <2> QED
    BY <1>3, <1>4, <1>10, <2>1, <2>5, LevelsIf
<1>11. ASSUME NEW i \in BuyLevels, ref # Never, ref' = ref, CrossedDown(i, p), used' = used \union {i},
              signal = BuySignal(Level(i + 1) * Scale, i)
       PROVE  LevelsInUse'
  <2>1. i \notin used
    BY <1>11 DEF CrossedDown
  <2>2. signal.type = "BUY" /\ signal.tp = Level(i + 1) * Scale /\ signal.level = i
    BY <1>11, SignalFields
  <2>3. used \subseteq BuyLevels
    BY DEF BooksInv, Running, LevelsInUse
  <2>4. /\ \A k \in 1..Len(U) : U[k].level \in used /\ U[k].tp = LevelFrom(ref', U[k].level + 1) * Scale
    <3>1. used \subseteq used /\ \A k \in 1..Len(Unhit(p)) : Unhit(p)[k].level \in used
      BY <1>6
    <3>2. LevelsFit(U, used, ref')
      BY <1>11, <3>1, LevelsStay, Zenon
    <3> QED
      BY <3>2 DEF LevelsFit
  <2>5. CASE tracked' = U
    <3> HIDE DEF U
    <3>1. \A k \in 1..Len(U) : U[k].level \in used'
      BY <1>11, <2>4
    <3>2. used' \subseteq BuyLevels /\ ref' # Never
      BY <1>11, <2>3
    <3> QED
      BY <1>3, <1>4, <1>5, <2>4, <2>5, <3>1, <3>2, LevelsIf DEF LevelsFit
  <2>6. ASSUME NEW q \in Quantities, Open(p, signal, q)
        PROVE  LevelsInUse'
    <3> DEFINE entry == Slipped("BUY", p)
               new == [entry |-> entry, qty |-> q, tp |-> signal.tp,
                       sl |-> StopPrice(entry), level |-> signal.level]
               n == Len(U)
    <3>1. tracked' = Append(U, new)
      BY <2>6 DEF Open
    <3>2. new.level = i /\ new.tp = LevelFrom(ref', i + 1) * Scale
      <4>1. Level(i + 1) = LevelFrom(ref', i + 1)
        BY <1>11 DEF Level, LevelFrom
      <4> QED
        BY <2>2, <4>1
    <3> HIDE DEF U, new, n
    <3>3. /\ Len(tracked') = n + 1 /\ n \in Nat
          /\ tracked'[n + 1] = new /\ \A k \in 1..n : tracked'[k] = U[k]
      BY <1>4, <3>1 DEF n
    <3>4. \A k \in 1..(n + 1) : k \in 1..n \/ k = n + 1
      BY <3>3
    <3>5. \A k \in 1..n : tracked'[k].level \in used /\ tracked'[k].tp = LevelFrom(ref', tracked'[k].level + 1) * Scale
      BY <2>4, <3>3 DEF n
    <3>6. \A k \in 1..(n + 1) :
            tracked'[k].level \in used' /\ tracked'[k].tp = LevelFrom(ref', tracked'[k].level + 1) * Scale
      BY <1>11, <3>2, <3>3, <3>4, <3>5
    <3>7. \A k \in 1..n : tracked'[k].level # i
      BY <2>1, <3>5
    <3>8. \A k, l \in 1..n : tracked'[k].level = tracked'[l].level => k = l
      BY <1>5, <3>3 DEF n
    <3>9. tracked'[n + 1].level = i
      BY <3>2, <3>3
    <3>10. \A k, l \in 1..(n + 1) : tracked'[k].level = tracked'[l].level => k = l
      BY <3>4, <3>7, <3>8, <3>9
    <3>11. used' \subseteq BuyLevels /\ ref' # Never
      BY <1>11, <2>3
    <3>12. /\ \A k \in 1..Len(tracked') :
                tracked'[k].level \in used' /\ tracked'[k].tp = LevelFrom(ref', tracked'[k].level + 1) * Scale
           /\ \A k, l \in 1..Len(tracked') : tracked'[k].level = tracked'[l].level => k = l
      BY <3>3, <3>6, <3>10
    <3> QED
      BY <1>3, <3>11, <3>12, LevelsIf DEF LevelsFit
  <2> QED
    BY <1>7, <2>2, <2>5, <2>6 DEF Trade, CloseOldest, NoTrade
<1>12. CASE signal = NoSignal /\ UNCHANGED <<gridVars, readVars>>
  <2>1. signal.type = "none" /\ used' = used /\ ref' = ref
    BY <1>12, SignalFields DEF gridVars
  <2> QED
    BY <1>1, <1>9, <2>1
<1>13. CASE Grid(p, signal) /\ OnGrid(p, signal)
  <2>1. /\ signal = GridSignal(p)
        /\ signal.type = "BUY" => used' = used \union {signal.level}
        /\ signal.type = "SELL" => used' = used \ {signal.level}
        /\ signal.type = "none" => used' = used
    BY <1>13, UsedAfter
  <2>2. ref' = IF ref = Never THEN p ELSE ref
    BY <1>13 DEF OnGrid
  <2>3. CASE signal = NoSignal
    <3>1. signal.type = "none"
      BY <2>3, SignalFields
    <3> QED
      BY <1>1, <1>2, <1>9, <2>1, <2>2, <3>1
  <2>4. CASE signal # NoSignal
    <3>1. PICK i \in BuyLevels :
            /\ ref # Never
            /\ \/ CrossedDown(i, p) /\ signal = BuySignal(Level(i + 1) * Scale, i)
               \/ CrossedUp(i, p) /\ signal = SellSignal(i)
      BY <1>2, <2>1, <2>4, GridSignalIs
    <3>2. ref' = ref
      BY <2>2, <3>1
    <3>3. CASE CrossedDown(i, p) /\ signal = BuySignal(Level(i + 1) * Scale, i)
      <4>1. used' = used \union {i}
        BY <2>1, <3>3, SignalFields
      <4> QED
        BY <1>11, <3>1, <3>2, <3>3, <4>1
    <3>4. CASE CrossedUp(i, p) /\ signal = SellSignal(i)
      <4>1. used' = used \ {i} /\ signal.type = "SELL"
        BY <2>1, <3>4, SignalFields
      <4> QED
        BY <1>10, <3>1, <3>2, <3>4, <4>1
    <3> QED
      BY <3>1, <3>3, <3>4
  <2> QED
    BY <2>3, <2>4
<1> QED
  BY <1>3, <1>12, <1>13
(* A strategy that remembers whether it is in a position.                  *)
LEMMA FlagCandle ==
  ASSUME BooksInv, phase = "running", kind \in Flagged, NEW p \in Prices, NEW signal, NEW sold,
         OnTick(p, signal, CountAfterExits(p), Len(Hits(p)), sold), Trade(p, signal, sold)
  PROVE  Len(held') <= 1 /\ (held' # <<>> => inPosition')
<1> DEFINE R == HeldAfterExits(p)
           n == Len(Hits(p))
           m == Len(R)
           h == Len(held)
<1>1. /\ R \in Seq(Records) /\ n \in Nat /\ m \in Nat /\ m + n = h /\ h \in Nat
      /\ held \in Seq(Records)
  <2>1. Hits(p) \in Seq(OpenPositions) /\ R \in Seq(Records) /\ m + n = h /\ held \in Seq(Records)
    BY ExitsKeepBooks DEF BooksInv, BooksTyped
  <2>2. n \in Nat /\ m \in Nat /\ h \in Nat
    BY <2>1
  <2> QED
    BY <2>1, <2>2
<1>2. h <= 1 /\ (held # <<>> => inPosition)
  BY DEF BooksInv, Running, FlagHoldsOne
<1>3. ref \in Int
  BY ReferenceKept DEF BooksInv
<1>4. kind # "grid" /\ kind \in Sellers /\ kind \notin Counting
  BY KindsApart
<1>5. Believes(signal, n, sold) /\ (signal.type = "BUY" => ~FlagAfter(n))
  BY <1>3, <1>4, TickIs DEF Consistent
<1>6. "none" # "BUY" /\ "none" # "SELL" /\ "BUY" # "SELL"
  OBVIOUS
<1>7. /\ signal.type = "BUY" => inPosition'
      /\ signal.type # "BUY" /\ signal.type # "SELL" => (inPosition' <=> FlagAfter(n))
  BY <1>5, <1>6 DEF Believes
<1>8. held = <<>> <=> h = 0
  BY <1>1
<1>9. R = <<>> <=> m = 0
  BY <1>1
<1> HIDE DEF R, n, m, h
<1>10. CASE m = 1
  <2>1. n = 0 /\ h = 1
    BY <1>1, <1>2, <1>10
  <2>2. FlagAfter(n)
    BY <1>2, <1>8, <2>1 DEF FlagAfter
  <2>3. signal.type # "BUY" /\ R # <<>>
    BY <1>5, <1>9, <1>10, <2>2
  <2>4. CASE CloseOldest(p, signal)
    <3>1. held' = Tail(R)
      BY <2>4 DEF CloseOldest, R
    <3>2. held' = <<>>
      BY <1>1, <1>10, <3>1 DEF m
    <3> QED
      BY <3>2
  <2>5. CASE NoTrade(p, signal)
    <3>1. held' = R /\ signal.type # "SELL"
      BY <1>4, <2>3, <2>5 DEF NoTrade, R
    <3>2. inPosition'
      BY <1>7, <2>2, <2>3, <3>1
    <3>3. Len(held') = m
      BY <3>1 DEF m
    <3>4. m <= 1
      BY <1>10
    <3>5. Len(held') <= 1
      BY <3>3, <3>4
    <3> QED
      BY <3>2, <3>5
  <2> QED
    BY <2>3, <2>4, <2>5 DEF Trade, Open
<1>11. CASE m = 0
  <2>1. R = <<>>
    BY <1>9, <1>11
  <2>2. ASSUME NEW q \in Quantities, Open(p, signal, q) PROVE Len(held') <= 1 /\ (held' # <<>> => inPosition')
    <3> DEFINE rec == [entry |-> Slipped("BUY", p), qty |-> q]
    <3>1. signal.type = "BUY" /\ held' = Append(R, rec)
      BY <2>2 DEF Open, R
    <3> HIDE DEF rec
    <3>2. Len(Append(<<>>, rec)) = 1
      OBVIOUS
    <3> QED
      BY <1>7, <2>1, <3>1, <3>2
  <2>3. CASE NoTrade(p, signal)
    <3>1. held' = <<>>
      BY <2>1, <2>3 DEF NoTrade, R
    <3> QED
      BY <3>1
  <2> QED
    BY <2>1, <2>2, <2>3 DEF Trade, CloseOldest, R
<1> QED
  BY <1>1, <1>2, <1>10, <1>11

LEMMA SizeCandle ==
  ASSUME BooksInv, phase = "running", NEW p \in Prices, NEW signal, NEW sold,
         OnTick(p, signal, CountAfterExits(p), Len(Hits(p)), sold), Trade(p, signal, sold), Balanced,
         kind \in Sellers \/ ~CloseOldest(p, signal)
  PROVE  Len(held') <= MaxOpen
<1> DEFINE R == HeldAfterExits(p)
           n == Len(Hits(p))
           m == Len(R)
           h == Len(held)
           d == Len(held')
<1>1. /\ R \in Seq(Records) /\ n \in Nat /\ m \in Nat /\ m + n = h /\ h \in Nat
      /\ CountAfterExits(p) = m
  <2>1. /\ Hits(p) \in Seq(OpenPositions) /\ R \in Seq(Records) /\ m + n = h /\ held \in Seq(Records)
        /\ CountAfterExits(p) = m
    BY ExitsKeepBooks DEF BooksInv, BooksTyped
  <2>2. n \in Nat /\ m \in Nat /\ h \in Nat
    BY <2>1
  <2> QED
    BY <2>1, <2>2
<1>2. h <= MaxOpen /\ MaxOpen \in Nat
  BY MoneyIsWhole DEF BooksInv, Running
<1>3. ref \in Int
  BY ReferenceKept DEF BooksInv
<1>4. signal = NoSignal \/ m < MaxOpen
  BY <1>1, <1>3, TickIs
<1>5. d \in Nat
  BY DEF Balanced
<1>6. CASE \E q \in Quantities : Open(p, signal, q)
  <2>1. PICK q \in Quantities : Open(p, signal, q)
    BY <1>6
  <2> DEFINE rec == [entry |-> Slipped("BUY", p), qty |-> q]
  <2>2. signal.type = "BUY" /\ held' = Append(R, rec)
    BY <2>1 DEF Open
  <2>3. signal # NoSignal
    BY <2>2, SignalFields
  <2> HIDE DEF rec, R
  <2>4. d = m + 1
    BY <1>1, <2>2
  <2> HIDE DEF d, m
  <2>5. d <= MaxOpen
    BY <1>1, <1>2, <1>4, <2>3, <2>4
  <2> QED
    BY <2>5 DEF d
<1>7. CASE CloseOldest(p, signal)
  <2>1. d + 1 = m
    BY <1>7, CloseBalances
  <2> HIDE DEF d, m, n, h
  <2>2. d <= MaxOpen
    BY <1>1, <1>2, <1>5, <2>1
  <2> QED
    BY <2>2 DEF d
<1>8. CASE NoTrade(p, signal)
  <2>1. d = m
    BY <1>8 DEF NoTrade
  <2> HIDE DEF d, m, n, h
  <2>2. d <= MaxOpen
    BY <1>1, <1>2, <2>1
  <2> QED
    BY <2>2 DEF d
<1> QED
  BY <1>6, <1>7, <1>8 DEF Trade

LEMMA CandleKeepsBooks ==
  ASSUME BooksInv, NEW p \in Prices, Candle(p)
  PROVE  BooksInv'
<1>1. /\ phase = "running" /\ phase' = phase /\ stopped' = stopped
      /\ price' = [price EXCEPT ![Sym] = p]
  BY DEF Candle
<1>2. PICK signal \in SignalsAt(p), sold \in 0 .. 1 :
        /\ OnTick(p, signal, CountAfterExits(p), Len(Hits(p)), sold)
        /\ Trade(p, signal, sold)
  BY DEF Candle, Trade
<1>3. /\ ref \in Int
      /\ (ref' = Never /\ last' = Never) \/ (ref' \in Prices /\ last' \in Prices)
  BY <1>2, ReferenceKept DEF BooksInv
<1>4. kind' = kind /\ (kind # "grid" => Consistent(p, signal, Len(Hits(p))))
  BY <1>2, <1>3, TickIs
<1>5. WellAimed(p, signal)
  <2>1. signal.tp \in Int /\ signal.level \in Int
    BY <1>3, SignalTypes
  <2>2. kind \in Sellers => kind # "grid"
    BY KindsApart
  <2> QED
    BY <1>4, <2>1, <2>2 DEF WellAimed, Consistent
<1>6. CloseOldest(p, signal) => kind \in Sellers
  BY <1>4 DEF CloseOldest, Consistent
<1>7. Balanced
  <2>1. CASE \E q \in Quantities : Open(p, signal, q)
    BY <1>1, <1>5, <2>1, OpenBalances
  <2>2. CASE CloseOldest(p, signal)
    BY <1>1, <1>6, <2>2, CloseBalances
  <2>3. CASE NoTrade(p, signal)
    BY <1>1, <2>3, NoTradeBalances
  <2> QED
    BY <1>2, <2>1, <2>2, <2>3 DEF Trade
<1>8. BooksTyped'
  <2>1. price' \in [Symbols -> Prices]
    BY <1>1 DEF BooksInv, BooksTyped
  <2>2. (kind \in Kinds)'
    BY <1>4 DEF BooksInv, BooksTyped
  <2>3. /\ held' \in Seq(Records) /\ tracked' \in Seq(OpenPositions)
        /\ cash' \in Int /\ realised' \in Int /\ closed' \in Int /\ opened' \in Int
    BY <1>7 DEF Balanced
  <2> QED
    BY <1>3, <2>1, <2>2, <2>3 DEF BooksTyped, Records, OpenPositions, Never
<1>9. CashIsAccounted' /\ OneTradeEach'
  <2>1. held' \in Seq(Entries)
    BY <1>7, SeqOfEntries DEF Balanced
  <2>2. Total(held', Spent) = Worths(held', CostsOf)
    BY <2>1, TotalsAre
  <2>3. cash' + Total(held', Spent) = StartBalance + realised'
    BY <1>7, <2>2 DEF Balanced
  <2>4. closed' + Len(held') = opened'
    BY <1>7 DEF Balanced
  <2> QED
    BY <2>3, <2>4 DEF CashIsAccounted, OneTradeEach
<1>10. Running'
  <2>1. Registered' = RecordsOf(tracked')
    BY DEF Registered, RecordsOf
  <2>2. (Len(held) = Len(tracked) /\ SameRecords(held, Registered) /\ count = Len(held))'
    BY <1>7, <2>1 DEF Balanced, SameRecords
  <2>3. (count <= MaxOpen)'
    <3>1. Len(held') <= MaxOpen
      BY <1>1, <1>2, <1>6, <1>7, SizeCandle
    <3> QED
      BY <1>7, <3>1 DEF Balanced
  <2>4. (kind \in Sellers => held = Registered /\ \A i \in 1..Len(tracked) : Aims(tracked[i]))'
    <3>1. SUFFICES ASSUME kind \in Sellers
                   PROVE  held' = RecordsOf(tracked') /\ \A i \in 1..Len(tracked') : Aims(tracked[i])'
      BY <1>4, <2>1 DEF Sellers, Counting, Flagged, Domain
    <3>2. held' = RecordsOf(tracked') /\ \A i \in 1..Len(tracked') : Aims(tracked'[i])
      BY <1>7, <3>1 DEF Balanced
    <3>3. ASSUME NEW i \in 1..Len(tracked'), Aims(tracked'[i]) PROVE Aims(tracked[i])'
      BY <1>1, <1>4, <3>3 DEF Aims, StopPrice, Never
    <3> QED
      BY <3>2, <3>3
  <2>5. FlagHoldsOne'
    <3>1. SUFFICES ASSUME kind \in Flagged PROVE Len(held') <= 1 /\ (held' # <<>> => inPosition')
      BY <1>4 DEF FlagHoldsOne, Flagged
    <3> QED
      BY <1>1, <1>2, <3>1, FlagCandle
  <2>6. LevelsInUse'
    <3>1. CASE kind = "grid"
      BY <1>1, <1>2, <1>7, <3>1, GridCandle DEF Balanced
    <3>2. CASE kind # "grid"
      BY <1>4, <3>2 DEF LevelsInUse
    <3> QED
      BY <3>1, <3>2
  <2> QED
    BY <2>2, <2>3, <2>4, <2>5, <2>6 DEF Running
<1> QED
  BY <1>8, <1>9, <1>10 DEF BooksInv
LEMMA FinishKeepsBooks ==
  ASSUME BooksInv, Finish
  PROVE  BooksInv'
<1> DEFINE p == price[Sym]
           br == Worths(held, BringsAt(p))
           ea == Worths(held, EarnsAt(p))
           co == Worths(held, CostsOf)
           n == Len(held)
<1>1. /\ phase = "running" /\ phase' = "done"
      /\ cash' = cash + Total(held, LAMBDA t : Proceeds(Slipped("SELL", p), t.qty))
      /\ realised' = realised + Total(held, LAMBDA t : Pnl(t, Slipped("SELL", p)))
      /\ closed' = closed + n
      /\ held' = <<>>
      /\ UNCHANGED <<marketVars, stopped, candle, tracked, kind, gridVars, readVars, opened>>
  BY DEF Finish
<1>2. /\ held \in Seq(Records) /\ tracked \in Seq(OpenPositions)
      /\ cash \in Int /\ realised \in Int /\ opened \in Int /\ closed \in Int
      /\ CashIsAccounted /\ OneTradeEach
  BY DEF BooksInv, BooksTyped
<1>3. p \in Prices
  BY MoneyIsWhole DEF BooksInv, BooksTyped
<1>4. held \in Seq(Entries)
  BY <1>2, SeqOfEntries
<1>5. /\ Total(held, Spent) = co
      /\ Total(held, LAMBDA t : Proceeds(Slipped("SELL", p), t.qty)) = br
      /\ Total(held, LAMBDA t : Pnl(t, Slipped("SELL", p))) = ea
  BY <1>4, TotalsAre
<1>6. br = ea + co /\ br \in Int /\ co \in Int /\ ea \in Int
  BY <1>3, <1>4, EarnedIs
<1>7. /\ cash + co = StartBalance + realised /\ closed + n = opened
  BY <1>2, <1>5 DEF CashIsAccounted, OneTradeEach
<1>8. cash' = cash + br /\ realised' = realised + ea
  BY <1>1, <1>5
<1>9. n \in Nat
  BY <1>2
<1> HIDE DEF p, br, ea, co, n
<1>a. /\ cash' = StartBalance + realised' /\ cash' \in Int /\ realised' \in Int
  BY <1>2, <1>6, <1>7, <1>8, MoneyIsWhole
<1>b. closed' = closed + n /\ opened' = opened
  BY <1>1
<1>10. closed' = opened' /\ closed' \in Int /\ opened' \in Int
  BY <1>2, <1>7, <1>9, <1>b
<1>11. held' \in Seq(Records) /\ Len(held') = 0 /\ held' \in Seq(Entries)
  BY <1>1
<1>12. Total(held', Spent) = 0
  <2>1. Total(held', Spent) = Worths(held', CostsOf)
    BY <1>11, TotalsAre
  <2> QED
    BY <1>1, <2>1, WorthsOfNone
<1>13. cash' + Total(held', Spent) = StartBalance + realised' /\ closed' + Len(held') = opened'
  <2> DEFINE t == Total(held', Spent)
             l == Len(held')
  <2>1. t = 0 /\ l = 0
    BY <1>11, <1>12
  <2> HIDE DEF t, l
  <2>2. \A x \in Int : x + t = x /\ x + l = x
    BY <2>1
  <2>3. cash' + t = StartBalance + realised'
    BY <1>a, <2>2
  <2>4. closed' + l = opened'
    BY <1>10, <2>2
  <2> QED
    BY <2>3, <2>4 DEF t, l
<1>14. CashIsAccounted' /\ OneTradeEach'
  BY <1>13 DEF CashIsAccounted, OneTradeEach
<1>15. BooksTyped'
  BY <1>1, <1>a, <1>10, <1>11 DEF BooksInv, BooksTyped, marketVars, gridVars, Never, Records, OpenPositions
<1> QED
  BY <1>1, <1>14, <1>15 DEF BooksInv

LEMMA BooksUnused ==
  ASSUME BooksInv, UNCHANGED <<engineVars, strategyVars, historyVars>>, price' \in [Symbols -> Prices]
  PROVE  BooksInv'
<1>1. /\ phase' = phase /\ stopped' = stopped /\ cash' = cash /\ held' = held /\ tracked' = tracked
      /\ count' = count /\ kind' = kind /\ inPosition' = inPosition
      /\ ref' = ref /\ last' = last /\ used' = used
      /\ realised' = realised /\ opened' = opened /\ closed' = closed
  BY DEF engineVars, strategyVars, historyVars, beliefVars, gridVars
<1>2. BooksTyped'
  BY <1>1 DEF BooksInv, BooksTyped, Never
<1>3. CashIsAccounted' /\ OneTradeEach'
  BY <1>1 DEF BooksInv, CashIsAccounted, OneTradeEach
<1>4. ASSUME phase = "running" PROVE Running'
  <2>1. Running
    BY <1>4 DEF BooksInv
  <2>2. /\ Registered' = Registered
        /\ \A t : (Aims(t) <=> Aims(t)')
        /\ \A t : (AtItsLevel(t) <=> AtItsLevel(t)')
        /\ (LevelHeldOnce <=> LevelHeldOnce') /\ (FlagHoldsOne <=> FlagHoldsOne')
    BY <1>1 DEF Registered, Aims, StopPrice, AtItsLevel, Level, LevelHeldOnce, FlagHoldsOne
  <2> QED
    BY <1>1, <2>1, <2>2 DEF Running, LevelsInUse
<1> QED
  BY <1>1, <1>2, <1>3, <1>4 DEF BooksInv

LEMMA BooksAtFirst == Init => BooksInv
<1> SUFFICES ASSUME Init PROVE BooksInv
  OBVIOUS
<1>1. /\ price \in [Symbols -> Prices] /\ kind \in Kinds
      /\ ref = Never /\ last = Never /\ used = {} /\ inPosition = FALSE
      /\ cash = StartBalance /\ held = <<>> /\ tracked = <<>> /\ count = 0
      /\ realised = 0 /\ opened = 0 /\ closed = 0
  BY DEF Init, MarketInit, StrategyInit
<1>2. <<>> \in Seq(Records) /\ <<>> \in Seq(OpenPositions) /\ <<>> \in Seq(Entries) /\ Len(<<>>) = 0
  OBVIOUS
<1>3. BooksTyped
  BY <1>1, <1>2, MoneyIsWhole DEF BooksTyped
<1>4. CashIsAccounted
  <2>1. Total(<<>>, Spent) = Worths(<<>>, CostsOf)
    BY <1>2, TotalsAre
  <2>2. Total(held, Spent) = 0
    BY <1>1, <2>1, WorthsOfNone
  <2> QED
    BY <1>1, <2>2, MoneyIsWhole DEF CashIsAccounted
<1>5. OneTradeEach
  BY <1>1, <1>2 DEF OneTradeEach
<1>6. Running
  <2>1. /\ RecordsOf(<<>>) \in Seq(Records) /\ Len(RecordsOf(<<>>)) = 0
    BY <1>2, RecordsOfAre
  <2>2. RecordsOf(<<>>) = <<>>
    BY <2>1
  <2>3. held = Registered
    BY <1>1, <2>2, RegisteredIs
  <2>4. SameRecords(held, Registered)
    BY <2>3 DEF SameRecords
  <2>5. FlagHoldsOne
    BY <1>1, <1>2 DEF FlagHoldsOne
  <2>6. LevelsInUse
    <3>1. 1..Len(tracked) = {} /\ DOMAIN tracked = {}
      BY <1>1
    <3> QED
      BY <1>1, <3>1 DEF LevelsInUse, LevelHeldOnce
  <2>7. \A i \in 1..Len(tracked) : Aims(tracked[i])
    BY <1>1, <1>2
  <2>8. Len(held) = Len(tracked) /\ count = Len(held) /\ count <= MaxOpen
    BY <1>1, <1>2, MoneyIsWhole
  <2> QED
    BY <2>3, <2>4, <2>5, <2>6, <2>7, <2>8 DEF Running
<1> QED
  BY <1>3, <1>4, <1>5, <1>6 DEF BooksInv

LEMMA BooksKept == BooksInv /\ [Next]_vars => BooksInv'
<1> SUFFICES ASSUME BooksInv, [Next]_vars PROVE BooksInv'
  OBVIOUS
<1>p. price \in [Symbols -> Prices]
  BY DEF BooksInv, BooksTyped
<1>1. CASE Orders
  <2>1. UNCHANGED <<engineVars, strategyVars, historyVars>>
    BY <1>1 DEF Orders, EngineUnused
  <2>2. price' \in [Symbols -> Prices]
    BY <1>p, <1>1 DEF Orders, MarketNext, PriceMoves, PlaceOrder
  <2> QED
    BY <2>1, <2>2, BooksUnused
<1>2. CASE Finish
  BY <1>2, FinishKeepsBooks
<1>3. ASSUME NEW p \in Prices, Candle(p) PROVE BooksInv'
  BY <1>3, CandleKeepsBooks
<1>4. CASE UNCHANGED vars
  <2>1. UNCHANGED <<engineVars, strategyVars, historyVars>> /\ price' = price
    BY <1>4 DEF vars, marketVars
  <2> QED
    BY <1>p, <2>1, BooksUnused
<1> QED
  BY <1>1, <1>2, <1>3, <1>4 DEF Next

LEMMA BooksAlways == Spec => []BooksInv
<1>1. BooksInv /\ [Next]_vars => BooksInv'
  BY BooksKept
<1> QED
  BY BooksAtFirst, <1>1, PTL DEF Spec

LEMMA BooksMean == BooksInv => BooksAgree /\ NeverBoughtTwice
<1> SUFFICES ASSUME BooksInv PROVE BooksAgree /\ NeverBoughtTwice
  OBVIOUS
<1>1. CashIsAccounted /\ OneTradeEach
  BY DEF BooksInv
<1>2. phase = "running" => Running
  BY DEF BooksInv
<1>3. PositionsAgree
  BY <1>2 DEF PositionsAgree, Running, Sellers
<1>4. ASSUME phase = "running" PROVE LevelHeldOnce /\ FlagHoldsOne
  <2>1. FlagHoldsOne /\ (kind = "grid" => LevelHeldOnce)
    BY <1>2, <1>4 DEF Running, LevelsInUse
  <2> QED
    BY <2>1 DEF LevelHeldOnce
<1> QED
  BY <1>1, <1>3, <1>4 DEF BooksAgree, NeverBoughtTwice

(* In every test, of any length and at any prices, no grid level is bought *)
(* while its position is open, and a strategy with a flag holds at most    *)
(* one position and knows of it (NeverBoughtTwice).                        *)
THEOREM NothingIsBoughtTwice == Spec => []NeverBoughtTwice
BY BooksAlways, BooksMean, PTL
-----------------------------------------------------------------------------
(* Orders given by hand.                                                   *)
LEMMA More ==
  ASSUME NEW a \in Nat, NEW b \in Nat, NEW c \in Nat, NEW d \in Nat, a >= b, c >= d
  PROVE  a * c >= b * d
<1>1. \A x, y, z \in Nat : x >= y => x * z >= y * z
  OBVIOUS
<1>2. a * c >= b * c
  BY <1>1
<1>3. c * b >= d * b
  BY <1>1
<1>4. /\ c * b = b * c
      /\ d * b = b * d
  OBVIOUS
<1>5. a * c \in Nat /\ b * c \in Nat /\ b * d \in Nat
  BY Times
<1> DEFINE x == a * c
           y == b * c
           z == b * d
<1>6. x \in Nat /\ y \in Nat /\ z \in Nat /\ x >= y /\ y >= z
  BY <1>2, <1>3, <1>4, <1>5
<1> HIDE DEF x, y, z
<1>7. x >= z
  BY <1>6
<1> QED
  BY <1>7 DEF x, z

LEMMA FillType ==
  ASSUME price \in [Symbols -> Prices], NEW y \in Symbols, NEW limit \in Prices \union {Nothing},
         NEW way \in {"BUY", "SELL"}
  PROVE  FillPrice(way, y, limit) \in Nat
<1>1. price[y] \in Prices /\ Prices \subseteq Nat /\ Scale \in Nat
  BY MoneyIsWhole
<1>2. \A p \in Prices : Slipped(way, p) \in Nat
  BY SlippedType
<1>3. limit # Nothing => limit \in Prices /\ limit * Scale \in Nat
  BY <1>1, Times
<1>4. Nothing \in Nat
  BY DEF Nothing
<1> QED
  BY <1>1, <1>2, <1>3, <1>4 DEF FillPrice

(* Except at the limit of a paper order, the market's price or worse.      *)
LEMMA FairFill ==
  ASSUME price \in [Symbols -> Prices], NEW y \in Symbols, NEW limit \in Prices \union {Nothing},
         ~(service = "paper" /\ limit # Nothing)
  PROVE  /\ FillPrice("BUY", y, limit) # Nothing => FillPrice("BUY", y, limit) >= price[y] * Scale
         /\ FillPrice("SELL", y, limit) # Nothing => FillPrice("SELL", y, limit) <= price[y] * Scale
<1> DEFINE p == price[y]
<1>1. /\ p \in Prices /\ p \in Nat /\ Scale \in Nat /\ Slip \in Nat /\ Slip <= Scale
      /\ Scale + Slip \in Nat /\ Scale - Slip \in Nat
  <2>1. p \in Prices
    OBVIOUS
  <2>2. p \in Nat /\ Scale \in Nat /\ Slip \in Nat /\ Slip <= Scale
    BY <2>1, MoneyIsWhole
  <2> QED
    BY <2>1, <2>2
<1>2. Slipped("BUY", p) = p * (Scale + Slip) /\ Slipped("SELL", p) = p * (Scale - Slip)
  BY <1>1, SlippedType
<1> HIDE DEF p
<1>3. p >= p /\ Scale + Slip >= Scale /\ Scale >= Scale - Slip
  BY <1>1
<1>4. p * (Scale + Slip) >= p * Scale /\ p * Scale >= p * (Scale - Slip)
  BY <1>1, <1>3, More
<1>5. p * Scale \in Nat /\ p * (Scale - Slip) \in Nat
  BY <1>1, Times
<1>6. CASE limit = Nothing
  <2>1. FillPrice("BUY", y, limit) = p * (Scale + Slip) /\ FillPrice("SELL", y, limit) = p * (Scale - Slip)
    BY <1>2, <1>6 DEF FillPrice, p
  <2>2. p * (Scale - Slip) <= p * Scale
    BY <1>4, <1>5
  <2> QED
    BY <1>4, <2>1, <2>2 DEF p
<1>7. CASE limit # Nothing
  <2>1. limit \in Prices /\ service # "paper"
    BY <1>7
  <2>2. limit \in Nat /\ limit * Scale \in Nat /\ Scale >= Scale
    BY <1>1, <2>1, MoneyIsWhole, Times
  <2>3. /\ FillPrice("BUY", y, limit) = IF limit >= p THEN limit * Scale ELSE Nothing
        /\ FillPrice("SELL", y, limit) = IF limit <= p THEN limit * Scale ELSE Nothing
    BY <1>7, <2>1 DEF FillPrice, Reached, p
  <2>4. limit >= p => limit * Scale >= p * Scale
    BY <1>1, <2>2, More
  <2>5. limit <= p => limit * Scale <= p * Scale
    <3>1. limit <= p => p >= limit
      BY <1>1, <2>2
    <3>2. p >= limit => p * Scale >= limit * Scale
      BY <1>1, <2>2, More
    <3> QED
      BY <1>5, <2>2, <3>1, <3>2
  <2> QED
    BY <2>3, <2>4, <2>5 DEF p
<1> QED
  BY <1>6, <1>7

(* One symbol's share of a sum.                                            *)
LEMMA ShareOf ==
  ASSUME NEW V \in [Symbols -> Int], NEW W \in [Symbols -> Int], NEW y \in Symbols,
         \A z \in Symbols \ {y} : V[z] = W[z]
  PROVE  /\ SumFunction(V) \in Int /\ SumFunction(W) \in Int
         /\ SumFunction(W) + V[y] = SumFunction(V) + W[y]
<1> DEFINE S == Symbols \ {y}
           v == SumFunctionOnSet(V, S)
           w == SumFunctionOnSet(W, S)
<1>1. IsFiniteSet(Symbols) /\ IsFiniteSet(S)
  BY MoneyIsWhole, FS_Subset
<1>2. (\A x \in Symbols : V[x] \in Int /\ W[x] \in Int) /\ \A x \in S : V[x] \in Int /\ W[x] \in Int
  OBVIOUS
<1>3. SumFunction(V) = SumFunctionOnSet(V, Symbols) /\ SumFunction(W) = SumFunctionOnSet(W, Symbols)
  BY DEF SumFunction
<1>4. /\ SumFunctionOnSet(V, Symbols) \in Int /\ SumFunctionOnSet(V, Symbols) = V[y] + v
  BY <1>1, <1>2, SumOnFacts
<1>5. /\ SumFunctionOnSet(W, Symbols) \in Int /\ SumFunctionOnSet(W, Symbols) = W[y] + w
  BY <1>1, <1>2, SumOnFacts
<1>6. v = w
  BY <1>1, SumOnAgree
<1>7. v \in Int
  BY <1>1, <1>2, SumOnFacts
<1> HIDE DEF v, w
<1> QED
  BY <1>2, <1>3, <1>4, <1>5, <1>6, <1>7

Accounted ==
  /\ quote \in Int /\ base \in [Symbols -> Int]
  /\ position \in [Symbols -> [qty : Int, entry : Int]]
  /\ Solvent

OrdersInv == price \in [Symbols -> Prices] /\ (phase = "orders" => Accounted)

LEMMA OrderKeepsAccount ==
  ASSUME OrdersInv, Accounted, NEW y \in Symbols, NEW q \in Quantities,
         NEW limit \in Prices \union {Nothing}, PlaceOrder(y, q, limit)
  PROVE  Accounted'
<1>1. /\ quote \in Int /\ base \in [Symbols -> Int] /\ position \in [Symbols -> [qty : Int, entry : Int]]
      /\ quote >= 0 /\ \A z \in Symbols : base[z] >= 0 /\ position[z].qty <= base[z]
      /\ price \in [Symbols -> Prices]
  BY DEF OrdersInv, Accounted, Solvent
<1>2. q \in Nat /\ q > 0
  BY MoneyIsWhole
<1>3. CASE Buy(y, q, limit)
  <2> DEFINE fill == FillPrice("BUY", y, limit)
             k == Cost(fill, q)
  <2>1. /\ k <= quote /\ quote' = quote - k
        /\ base' = [base EXCEPT ![y] = @ + q]
        /\ position' = [position EXCEPT ![y] = [qty |-> q, entry |-> fill]]
    BY <1>3 DEF Buy, Affordable
  <2>2. fill \in Nat
    BY <1>1, FillType
  <2> HIDE DEF fill
  <2>3. k \in Nat
    BY <1>2, <2>2, MoneyType
  <2> HIDE DEF k
  <2>4. quote' \in Int /\ quote' >= 0
    BY <1>1, <2>1, <2>3
  <2>5. [qty |-> q, entry |-> fill] \in [qty : Int, entry : Int]
    BY <1>2, <2>2
  <2>6. base' \in [Symbols -> Int] /\ position' \in [Symbols -> [qty : Int, entry : Int]]
    BY <1>1, <1>2, <2>1, <2>5
  <2>7. ASSUME NEW z \in Symbols PROVE base'[z] >= 0 /\ position'[z].qty <= base'[z]
    <3>1. CASE z = y
      <4>1. base'[z] = base[y] + q /\ position'[z].qty = q
        BY <1>1, <2>1, <3>1
      <4>2. base[y] \in Int /\ base[y] >= 0
        BY <1>1
      <4> QED
        BY <1>2, <4>1, <4>2
    <3>2. CASE z # y
      BY <1>1, <2>1, <3>2
    <3> QED
      BY <3>1, <3>2
  <2> QED
    BY <2>4, <2>6, <2>7 DEF Accounted, Solvent
<1>4. CASE Sell(y, q, limit)
  <2> DEFINE fill == FillPrice("SELL", y, limit)
             k == Proceeds(fill, q)
  <2>1. /\ base[y] >= q /\ quote' = quote + k
        /\ base' = [base EXCEPT ![y] = @ - q]
        /\ position' = [position EXCEPT ![y] = NoPosition]
    BY <1>4 DEF Sell
  <2>2. fill \in Nat
    BY <1>1, FillType
  <2> HIDE DEF fill
  <2>3. k \in Nat
    BY <1>2, <2>2, MoneyType
  <2> HIDE DEF k
  <2>4. quote' \in Int /\ quote' >= 0
    BY <1>1, <2>1, <2>3
  <2>5. NoPosition \in [qty : Int, entry : Int] /\ NoPosition.qty = 0
    BY DEF NoPosition
  <2>6. base' \in [Symbols -> Int] /\ position' \in [Symbols -> [qty : Int, entry : Int]]
    BY <1>1, <1>2, <2>1, <2>5
  <2>7. ASSUME NEW z \in Symbols PROVE base'[z] >= 0 /\ position'[z].qty <= base'[z]
    <3>1. CASE z = y
      <4>1. base'[z] = base[y] - q /\ position'[z].qty = 0
        BY <1>1, <2>1, <2>5, <3>1
      <4>2. base[y] \in Int
        BY <1>1
      <4> QED
        BY <1>2, <2>1, <4>1, <4>2
    <3>2. CASE z # y
      BY <1>1, <2>1, <3>2
    <3> QED
      BY <3>1, <3>2
  <2> QED
    BY <2>4, <2>6, <2>7 DEF Accounted, Solvent
<1>5. CASE Reject(y, q, limit)
  BY <1>1, <1>5 DEF Reject, accountVars, Accounted, Solvent
<1> QED
  BY <1>3, <1>4, <1>5 DEF PlaceOrder

LEMMA OrderCostsMoney ==
  ASSUME OrdersInv, Accounted, NEW y \in Symbols, NEW q \in Quantities,
         NEW limit \in Prices \union {Nothing}, PlaceOrder(y, q, limit), ~limited'
  PROVE  Worth' <= Worth
<1> DEFINE V == [z \in Symbols |-> base[z] * price[z] * Scale * Scale]
           W == [z \in Symbols |-> base'[z] * price[z] * Scale * Scale]
           p == price[y]
           sv == SumFunction(V)
           sw == SumFunction(W)
<1>1. /\ quote \in Int /\ base \in [Symbols -> Int] /\ price \in [Symbols -> Prices]
      /\ price' = price /\ base' \in [Symbols -> Int] /\ quote' \in Int
  BY OrderKeepsAccount DEF OrdersInv, Accounted, PlaceOrder
<1>2. /\ q \in Nat /\ p \in Nat /\ Scale \in Nat /\ Fee \in Nat /\ Fee <= Scale
      /\ \A z \in Symbols : price[z] \in Int
  <2>1. /\ q \in Nat /\ Prices \subseteq Nat
        /\ Scale \in Nat /\ Fee \in Nat /\ Fee <= Scale
    BY MoneyIsWhole
  <2>2. \A z \in Symbols : price[z] \in Prices
    BY <1>1
  <2>3. \A z \in Symbols : price[z] \in Nat
    BY <2>1, <2>2
  <2>4. \A z \in Symbols : price[z] \in Int
    BY <2>3
  <2>5. p \in Nat
    BY <2>3
  <2> QED
    BY <2>1, <2>4, <2>5
<1>3. Worth = quote + sv
  BY DEF Worth, Value
<1>4. Worth' = quote' + sw
  BY <1>1 DEF Worth, Value
<1>5. \A b \in Int, c \in Int : b * c * Scale * Scale \in Int
  <2>1. Scale \in Int
    BY <1>2
  <2> QED
    BY <2>1, TimesInt
<1>6. V \in [Symbols -> Int] /\ W \in [Symbols -> Int]
  <2>1. \A z \in Symbols : base[z] \in Int /\ base'[z] \in Int
    BY <1>1
  <2> QED
    BY <1>2, <1>5, <2>1
<1>7. V[y] = base[y] * p * Scale * Scale /\ W[y] = base'[y] * p * Scale * Scale
  OBVIOUS
<1>8. ~(service = "paper" /\ limit # Nothing)
  BY DEF PlaceOrder
<1> DEFINE unit == p * Scale * Scale
<1>9. \A b \in Int : b * p * Scale * Scale = b * unit
  BY <1>2
<1>10. base[y] \in Int /\ base'[y] \in Int
  BY <1>1
<1>11. V[y] = base[y] * unit /\ W[y] = base'[y] * unit /\ unit \in Nat
  <2>1. unit \in Nat
    BY <1>2, Times
  <2> HIDE DEF unit
  <2> QED
    BY <1>7, <1>9, <1>10, <2>1
<1>12. q * unit = (p * Scale) * (q * Scale) /\ p * Scale \in Nat /\ q * Scale \in Nat
  <2>1. p * Scale \in Nat /\ q * Scale \in Nat
    BY <1>2, Times
  <2>2. q * (p * Scale * Scale) = (p * Scale) * (q * Scale)
    BY <1>2
  <2> QED
    BY <2>1, <2>2
<1> HIDE DEF V, W, p, sv, sw, unit
<1>13. ASSUME NEW d \in Int, base' = [base EXCEPT ![y] = @ + d]
       PROVE  sw = sv + d * unit /\ sv \in Int /\ sw \in Int /\ d * unit \in Int
  <2>1. base'[y] = base[y] + d /\ \A z \in Symbols \ {y} : base'[z] = base[z]
    BY <1>1, <1>13
  <2>2. \A z \in Symbols \ {y} : V[z] = W[z]
    BY <2>1 DEF V, W
  <2>3. sv \in Int /\ sw \in Int /\ sw + V[y] = sv + W[y]
    BY <1>6, <2>2, ShareOf DEF sv, sw
  <2> DEFINE b == base[y]
             vy == V[y]
             wy == W[y]
  <2>4. vy = b * unit /\ wy = (b + d) * unit /\ b \in Int /\ unit \in Int
    BY <1>10, <1>11, <2>1
  <2> HIDE DEF b, vy, wy
  <2>5. (b + d) * unit = b * unit + d * unit /\ b * unit \in Int /\ d * unit \in Int
    BY <2>4
  <2>6. sw + vy = sv + wy
    BY <2>3 DEF vy, wy
  <2> DEFINE bu == b * unit
             du == d * unit
  <2>7. sw + bu = sv + (bu + du) /\ bu \in Int /\ du \in Int
    BY <2>4, <2>5, <2>6
  <2> HIDE DEF bu, du
  <2>8. sw = sv + du
    <3>1. \A e, h, k, l \in Int : e + h = k + (h + l) => e = k + l
      OBVIOUS
    <3>2. sw \in Int /\ sv \in Int
      BY <2>3
    <3> QED
      BY <2>7, <3>1, <3>2
  <2> QED
    BY <2>3, <2>7, <2>8 DEF du
<1>14. CASE Buy(y, q, limit)
  <2> DEFINE fill == FillPrice("BUY", y, limit)
             k == Cost(fill, q)
  <2>1. fill # Nothing /\ quote' = quote - k /\ base' = [base EXCEPT ![y] = @ + q]
    BY <1>14 DEF Buy
  <2>2. fill \in Nat /\ fill >= p * Scale
    BY <1>1, <1>8, <2>1, FillType, FairFill DEF p
  <2> HIDE DEF fill
  <2>3. k = (fill * q) * (Scale + Fee) /\ fill * q \in Nat /\ Scale + Fee \in Nat
    BY <1>2, <2>2, Times DEF Cost
  <2>4. k = fill * (q * (Scale + Fee)) /\ q * (Scale + Fee) \in Nat
    <3>1. q * (Scale + Fee) \in Nat
      BY <1>2, <2>3, Times
    <3>2. \A x, z, s \in Nat : (x * z) * s = x * (z * s)
      OBVIOUS
    <3> QED
      BY <1>2, <2>2, <2>3, <3>1, <3>2
  <2>5. q * (Scale + Fee) >= q * Scale
    <3>1. q >= q /\ Scale + Fee >= Scale
      BY <1>2
    <3> QED
      BY <1>2, <2>3, <3>1, More
  <2>6. k >= (p * Scale) * (q * Scale) /\ k \in Nat
    <3>1. k \in Nat
      BY <2>3, Times
    <3> QED
      BY <1>12, <2>2, <2>4, <2>5, <3>1, More
  <2> HIDE DEF k
  <2>7. q \in Int
    BY <1>2
  <2>8. sw = sv + q * unit /\ sv \in Int /\ sw \in Int /\ q * unit \in Int
    BY <1>13, <2>1, <2>7
  <2> DEFINE g == q * unit
  <2>9. k >= g /\ sw = sv + g /\ g \in Int
    BY <1>12, <2>6, <2>8
  <2> HIDE DEF g
  <2>10. quote' + sw <= quote + sv
    BY <1>1, <2>1, <2>6, <2>8, <2>9
  <2> QED
    BY <1>3, <1>4, <2>10
<1>15. CASE Sell(y, q, limit)
  <2> DEFINE fill == FillPrice("SELL", y, limit)
             k == Proceeds(fill, q)
             m == 0 - q
  <2>1. fill # Nothing /\ quote' = quote + k /\ base' = [base EXCEPT ![y] = @ - q]
    BY <1>15 DEF Sell
  <2>2. fill \in Nat /\ fill <= p * Scale
    BY <1>1, <1>8, <2>1, FillType, FairFill DEF p
  <2> HIDE DEF fill
  <2>3. k = (fill * q) * (Scale - Fee) /\ fill * q \in Nat /\ Scale - Fee \in Nat
    BY <1>2, <2>2, Times DEF Proceeds
  <2>4. k = fill * (q * (Scale - Fee)) /\ q * (Scale - Fee) \in Nat
    <3>1. q * (Scale - Fee) \in Nat
      BY <1>2, <2>3, Times
    <3>2. \A x, z, s \in Nat : (x * z) * s = x * (z * s)
      OBVIOUS
    <3> QED
      BY <1>2, <2>2, <2>3, <3>1, <3>2
  <2>5. q * Scale >= q * (Scale - Fee)
    <3>1. q >= q /\ Scale >= Scale - Fee
      BY <1>2
    <3> QED
      BY <1>2, <2>3, <3>1, More
  <2>6. k <= (p * Scale) * (q * Scale) /\ k \in Nat
    <3>1. k \in Nat
      BY <2>3, Times
    <3>2. p * Scale >= fill
      BY <1>12, <2>2
    <3>3. (p * Scale) * (q * Scale) >= k /\ (p * Scale) * (q * Scale) \in Nat
      BY <1>12, <2>2, <2>4, <2>5, <3>2, More, Times
    <3> QED
      BY <3>1, <3>3
  <2> HIDE DEF k
  <2>7. m \in Int /\ base' = [base EXCEPT ![y] = @ + m]
    <3>1. m \in Int /\ base[y] - q = base[y] + m
      BY <1>2, <1>10
    <3> QED
      BY <2>1, <3>1
  <2> HIDE DEF m
  <2>8. sw = sv + m * unit /\ sv \in Int /\ sw \in Int /\ m * unit \in Int
    BY <1>13, <2>7
  <2> DEFINE g == q * unit
             mu == m * unit
  <2>9. k <= g /\ sw = sv + mu /\ g \in Int /\ mu = 0 - g
    <3>1. k <= g /\ g \in Nat
      BY <1>2, <1>11, <1>12, <2>6, Times
    <3>2. mu = 0 - g
      <4>1. \A x, u \in Nat : (0 - x) * u = 0 - x * u
        OBVIOUS
      <4> QED
        BY <1>2, <1>11, <4>1 DEF m
    <3> QED
      BY <2>8, <3>1, <3>2
  <2> HIDE DEF g, mu
  <2>10. quote' + sw <= quote + sv
    BY <1>1, <2>1, <2>6, <2>8, <2>9
  <2> QED
    BY <1>3, <1>4, <2>10
<1>16. CASE Reject(y, q, limit)
  <2>1. quote' = quote /\ base' = base
    BY <1>16 DEF Reject, accountVars
  <2>2. W = V
    BY <2>1 DEF V, W
  <2>3. sv \in Int
    BY <1>6, ShareOf DEF sv
  <2>4. sw = sv
    BY <2>2 DEF sv, sw
  <2> QED
    BY <1>1, <1>3, <1>4, <2>1, <2>3, <2>4
<1> QED
  BY <1>14, <1>15, <1>16 DEF PlaceOrder

LEMMA OrdersKept == OrdersInv /\ [Next]_vars => OrdersInv'
<1> SUFFICES ASSUME OrdersInv, [Next]_vars PROVE OrdersInv'
  OBVIOUS
<1>1. ASSUME Orders PROVE OrdersInv'
  <2>1. phase = "orders" /\ MarketNext /\ phase' = phase
    BY <1>1 DEF Orders, EngineUnused, engineVars
  <2>2. Accounted /\ price \in [Symbols -> Prices]
    BY <2>1 DEF OrdersInv
  <2>3. ASSUME NEW y \in Symbols, PriceMoves(y) PROVE OrdersInv'
    <3>1. price' \in [Symbols -> Prices] /\ UNCHANGED accountVars
      BY <2>2, <2>3 DEF PriceMoves
    <3> QED
      BY <2>2, <3>1 DEF OrdersInv, Accounted, Solvent, accountVars
  <2>4. ASSUME NEW y \in Symbols, NEW q \in Quantities, NEW limit \in Prices \union {Nothing},
               PlaceOrder(y, q, limit)
        PROVE  OrdersInv'
    <3>1. Accounted'
      BY <2>2, <2>4, OrderKeepsAccount
    <3>2. price' = price
      BY <2>4 DEF PlaceOrder
    <3> QED
      BY <2>2, <3>1, <3>2 DEF OrdersInv
  <2> QED
    BY <2>1, <2>3, <2>4 DEF MarketNext
<1>2. ASSUME Finish PROVE OrdersInv'
  BY <1>2 DEF Finish, OrdersInv, marketVars
<1>3. ASSUME NEW p \in Prices, Candle(p) PROVE OrdersInv'
  <2>1. phase = "running" /\ phase' = phase /\ price' = [price EXCEPT ![Sym] = p]
    BY <1>3 DEF Candle
  <2> QED
    BY <2>1 DEF OrdersInv
<1>4. CASE UNCHANGED vars
  BY <1>4 DEF vars, marketVars, accountVars, engineVars, OrdersInv, Accounted, Solvent
<1> QED
  BY <1>1, <1>2, <1>3, <1>4 DEF Next

LEMMA OrdersAtFirst == Init => OrdersInv
<1> SUFFICES ASSUME Init PROVE OrdersInv
  OBVIOUS
<1>1. /\ price \in [Symbols -> Prices] /\ quote = StartBalance
      /\ base = [y \in Symbols |-> 0] /\ position = [y \in Symbols |-> NoPosition]
  BY DEF Init, MarketInit
<1>2. NoPosition \in [qty : Int, entry : Int] /\ NoPosition.qty = 0
  BY DEF NoPosition
<1>3. /\ quote \in Int /\ quote >= 0 /\ base \in [Symbols -> Int]
      /\ position \in [Symbols -> [qty : Int, entry : Int]]
  BY <1>1, <1>2, MoneyIsWhole
<1>4. \A y \in Symbols : base[y] >= 0 /\ position[y].qty <= base[y]
  BY <1>1, <1>2
<1> QED
  BY <1>1, <1>3, <1>4 DEF OrdersInv, Accounted, Solvent

LEMMA OrdersAlways == Spec => []OrdersInv
BY OrdersAtFirst, OrdersKept, PTL DEF Spec

LEMMA OrdersNeverEnrich ==
  OrdersInv /\ [Next]_vars => [placed' # placed /\ ~limited' => Worth' <= Worth]_marketVars
<1> SUFFICES ASSUME OrdersInv, [Next]_vars, placed' # placed, ~limited' PROVE Worth' <= Worth
  OBVIOUS
<1>1. CASE Orders
  <2>1. phase = "orders" /\ MarketNext
    BY <1>1 DEF Orders
  <2>2. Accounted
    BY <2>1 DEF OrdersInv
  <2>3. PICK y \in Symbols, q \in Quantities, limit \in Prices \union {Nothing} : PlaceOrder(y, q, limit)
    BY <2>1 DEF MarketNext, PriceMoves
  <2> QED
    BY <2>2, <2>3, OrderCostsMoney
<1>2. CASE Finish
  BY <1>2 DEF Finish, marketVars
<1>3. ASSUME NEW p \in Prices, Candle(p) PROVE Worth' <= Worth
  BY <1>3 DEF Candle, SettleExits
<1>4. CASE UNCHANGED vars
  BY <1>4 DEF vars, marketVars
<1> QED
  BY <1>1, <1>2, <1>3, <1>4 DEF Next

(* Cash, positions and trades of a test agree in all its books, and an     *)
(* order given by hand leaves no balance negative and nobody richer, but   *)
(* for a LIMIT order to the paper service (AccountsHold).                  *)
THEOREM AccountsAlwaysHold == Spec => AccountsHold
<1>1. OrdersInv => OrdersSolvent
  BY DEF OrdersInv, Accounted, OrdersSolvent
<1>2. BooksInv => BooksAgree
  BY BooksMean
<1>3. Spec => OrdersCostMoney
  BY OrdersAlways, OrdersNeverEnrich, PTL DEF Spec, OrdersCostMoney
<1> QED
  BY <1>1, <1>2, <1>3, OrdersAlways, BooksAlways, PTL DEF AccountsHold, OrdersKeepTheAccount
=============================================================================
