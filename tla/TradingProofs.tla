---------------------------- MODULE TradingProofs ----------------------------
(***************************************************************************)
(* What bounds a strategy that trades: theorems about EmergencyStop over   *)
(* RiskGuardrails and, in the second part, about LiveOrders, which is where *)
(* the orders go that the guardrails let through.                          *)
(***************************************************************************)
EXTENDS EmergencyStop, LiveOrders, FiniteSetTheorems, WellFoundedInduction, TLAPS

(***************************************************************************)
(* Theorems about EmergencyStop over RiskGuardrails, for any strategies,   *)
(* symbols, limits, losses and bounds.                                     *)
(*                                                                         *)
(* None of the three properties is inductive as it stands.                 *)
(*   Limits: what a strategy holds is bounded only because it is bounded   *)
(*     by what was reported of it and the orders since (NearlyReported).   *)
(*   Loss: what the service counts is the result since midnight, or the    *)
(*     day has had no result yet (LossKnown).  That a kill has its reason  *)
(*     also with a balance that is gone rests on the balance having been   *)
(*     positive when the limit was passed: the loss of the day is less     *)
(*     than the balance, which the rest of the day does not change.        *)
(*   Stops: every switch has its stop and every stop its switch, told      *)
(*     apart by level, and before the first result nothing is over a limit *)
(*     (SwitchesBehindStops, StopsBehindSwitches).                         *)
(* The exposure is a fold over the symbols.  That one unit more at one     *)
(* symbol is one unit more in all is an induction over sets of symbols; it *)
(* is made by looking for a smallest set for which it is wrong.            *)
(***************************************************************************)
(* Smallest counterexamples, which stand for induction.                    *)
(* The sets of a finite set: among some of them one holds no other.        *)
LEMMA SmallestSet ==
  ASSUME NEW S, IsFiniteSet(S), NEW Bad, Bad \subseteq SUBSET S, Bad # {}
  PROVE  \E T \in Bad : \A U \in Bad : U \subseteq T => U = T
<1>1. FiniteSubsetsOf(S) = SUBSET S
  BY FS_FiniteSubsetsOfFinite
<1>2. IsWellFoundedOn(StrictSubsetOrdering(S), SUBSET S)
  BY <1>1, FS_StrictSubsetOrderingWellFounded
<1>3. PICK T \in Bad : \A U \in Bad : ~(<<U, T>> \in StrictSubsetOrdering(S))
  BY <1>2, WFMin
<1>4. SUFFICES ASSUME NEW U \in Bad, U \subseteq T, U # T PROVE FALSE
  OBVIOUS
<1>5. <<U, T>> \in StrictSubsetOrdering(S)
  BY <1>4 DEF StrictSubsetOrdering
<1> QED
  BY <1>3, <1>4, <1>5

(* Some natural numbers: one of them is the smallest.                      *)
LEMMA SmallestNumber ==
  ASSUME NEW Bad, Bad \subseteq Nat, Bad # {}
  PROVE  \E n \in Bad : \A m \in Bad : n <= m
<1>1. PICK n \in Bad : \A m \in Bad : ~(<<m, n>> \in OpToRel(<, Nat))
  BY NatLessThanWellFounded, WFMin
<1>2. SUFFICES ASSUME NEW m \in Bad, m < n PROVE FALSE
  OBVIOUS
<1>3. <<m, n>> \in OpToRel(<, Nat)
  BY <1>2 DEF OpToRel
<1> QED
  BY <1>1, <1>3

-----------------------------------------------------------------------------
(* The exposure: sums over symbols.                                        *)

(* The symbol that a fold takes out of a set.                              *)
First(T) == CHOOSE x \in T : TRUE

(* The sums of h over all sets of symbols, by the sums over smaller ones.  *)
SumStep(h, g) ==
  [T \in SUBSET Symbols |-> IF T = {} THEN 0 ELSE h[First(T)] + g[T \ {First(T)}]]

Sums(h) == CHOOSE g : g = SumStep(h, g)

(* Units is the fold of the community modules.                             *)
LEMMA UnitsAreSums ==
  ASSUME NEW h
  PROVE  Units(h) = Sums(h)[Symbols]
BY DEF Units, MapThenSumSet, MapThenFoldSet, First, Sums, SumStep

LEMMA FirstIsThere ==
  ASSUME NEW T, T # {}
  PROVE  First(T) \in T
BY DEF First

LEMMA WithoutFirst ==
  ASSUME NEW T \in SUBSET Symbols, T # {}
  PROVE  /\ First(T) \in Symbols
         /\ IsFiniteSet(T) /\ Cardinality(T) \in Nat
         /\ T \ {First(T)} \in SUBSET Symbols
         /\ Cardinality(T \ {First(T)}) = Cardinality(T) - 1
         /\ Cardinality(T) > 0
<1>1. First(T) \in T
  BY FirstIsThere
<1>2. IsFiniteSet(T)
  BY FS_Subset, RiskAssumption DEF RiskAssumption
<1>3. Cardinality(T) \in Nat /\ Cardinality(T \ {First(T)}) = Cardinality(T) - 1
  BY <1>1, <1>2, FS_RemoveElement, FS_CardinalityType
<1>4. Cardinality(T) # 0
  BY <1>2, FS_EmptySet
<1> QED
  BY <1>1, <1>2, <1>3, <1>4

(* There are such sums: else there is a smallest size of a set up to which *)
(* there are none, and one step from the sums below it there are.          *)
LEMMA SumsSumUp ==
  ASSUME NEW h
  PROVE  Sums(h) = SumStep(h, Sums(h))
<1> DEFINE Upto(n, g) == \A T \in SUBSET Symbols : Cardinality(T) <= n => g[T] = SumStep(h, g)[T]
           Bad == {n \in Nat : \A g : ~Upto(n, g)}
<1>1. Bad = {}
  <2>1. SUFFICES ASSUME Bad # {} PROVE FALSE
    OBVIOUS
  <2>2. PICK n \in Bad : \A m \in Bad : n <= m
    <3>1. Bad \subseteq Nat
      OBVIOUS
    <3> HIDE DEF Bad
    <3> QED
      BY <2>1, <3>1, SmallestNumber
  <2>3. n # 0
    <3> DEFINE g == [T \in SUBSET Symbols |-> 0]
    <3>1. SUFFICES ASSUME n = 0 PROVE FALSE
      OBVIOUS
    <3>2. Upto(0, g)
      <4>1. SUFFICES ASSUME NEW T \in SUBSET Symbols, Cardinality(T) <= 0
                     PROVE  g[T] = SumStep(h, g)[T]
        OBVIOUS
      <4>2. T = {}
        <5>1. SUFFICES ASSUME T # {} PROVE FALSE
          OBVIOUS
        <5>2. Cardinality(T) \in Nat /\ Cardinality(T) > 0
          BY <5>1, WithoutFirst
        <5> QED
          BY <4>1, <5>2
      <4> QED
        BY <4>2 DEF SumStep
    <3> QED
      BY <3>1, <3>2
  <2>4. n - 1 \in Nat /\ n - 1 \notin Bad
    <3> HIDE DEF Bad
    <3>1. n \in Nat
      BY DEF Bad
    <3> QED
      BY <2>2, <2>3, <3>1
  <2>5. PICK g : Upto(n - 1, g)
    BY <2>4
  <2> DEFINE f == SumStep(h, g)
  <2>6. Upto(n, f)
    <3>1. SUFFICES ASSUME NEW T \in SUBSET Symbols, Cardinality(T) <= n
                   PROVE  f[T] = SumStep(h, f)[T]
      OBVIOUS
    <3>2. CASE T = {}
      BY <3>2 DEF SumStep
    <3>3. CASE T # {}
      <4> DEFINE U == T \ {First(T)}
      <4>1. U \in SUBSET Symbols /\ Cardinality(U) <= n - 1
        BY <2>4, <3>1, <3>3, WithoutFirst
      <4>2. g[U] = f[U]
        BY <2>5, <4>1
      <4>3. f[T] = h[First(T)] + g[U]
        BY <3>3 DEF SumStep
      <4>4. SumStep(h, f)[T] = h[First(T)] + f[U]
        <5> HIDE DEF f
        <5> QED
          BY <3>3 DEF SumStep
      <4> QED
        BY <4>2, <4>3, <4>4
    <3> QED
      BY <3>2, <3>3
  <2> QED
    BY <2>6
<1>2. Cardinality(Symbols) \in Nat
  BY FS_CardinalityType, RiskAssumption DEF RiskAssumption
<1>3. PICK g : Upto(Cardinality(Symbols), g)
  BY <1>1, <1>2
<1> DEFINE f == SumStep(h, g)
<1>4. \A T \in SUBSET Symbols : g[T] = f[T]
  <2>1. \A T \in SUBSET Symbols : Cardinality(T) <= Cardinality(Symbols)
    BY FS_Subset, RiskAssumption DEF RiskAssumption
  <2> QED
    BY <1>3, <2>1
<1>5. f = SumStep(h, f)
  <2>1. ASSUME NEW T \in SUBSET Symbols, T # {}
        PROVE  g[T \ {First(T)}] = f[T \ {First(T)}]
    BY <1>4, <2>1, WithoutFirst
  <2> HIDE DEF f
  <2>2. f = [T \in SUBSET Symbols |-> IF T = {} THEN 0 ELSE h[First(T)] + g[T \ {First(T)}]]
    BY DEF f, SumStep
  <2>3. SumStep(h, f) = [T \in SUBSET Symbols |-> IF T = {} THEN 0 ELSE h[First(T)] + f[T \ {First(T)}]]
    BY DEF SumStep
  <2> QED
    BY <2>1, <2>2, <2>3
<1>6. \E e : e = SumStep(h, e)
  BY <1>5
<1> QED
  BY <1>6 DEF Sums

LEMMA SumsOf ==
  ASSUME NEW h, NEW T \in SUBSET Symbols
  PROVE  Sums(h)[T] = IF T = {} THEN 0 ELSE h[First(T)] + Sums(h)[T \ {First(T)}]
<1> DEFINE f == Sums(h)
<1>1. f = SumStep(h, f)
  BY SumsSumUp
<1> HIDE DEF f
<1>2. f[T] = SumStep(h, f)[T]
  BY <1>1
<1>3. f[T] = IF T = {} THEN 0 ELSE h[First(T)] + f[T \ {First(T)}]
  BY <1>2 DEF SumStep
<1> QED
  BY <1>3 DEF f

LEMMA SumsType ==
  ASSUME NEW h \in [Symbols -> Int], NEW T \in SUBSET Symbols
  PROVE  Sums(h)[T] \in Int
<1> DEFINE Bad == {U \in SUBSET Symbols : Sums(h)[U] \notin Int}
<1>1. SUFFICES ASSUME Bad # {} PROVE FALSE
  OBVIOUS
<1>2. PICK U \in Bad : \A V \in Bad : V \subseteq U => V = U
  <2>1. Bad \subseteq SUBSET Symbols
    OBVIOUS
  <2> HIDE DEF Bad
  <2> QED
    BY <1>1, <2>1, SmallestSet, RiskAssumption DEF RiskAssumption
<1>3. U \in SUBSET Symbols /\ Sums(h)[U] \notin Int
  OBVIOUS
<1>4. U # {}
  <2>1. SUFFICES ASSUME U = {} PROVE Sums(h)[U] \in Int
    BY <1>3
  <2>2. Sums(h)[U] = 0
    BY <1>3, <2>1, SumsOf
  <2> QED
    BY <2>2
<1> DEFINE V == U \ {First(U)}
<1>5. V \in SUBSET Symbols /\ V \subseteq U /\ V # U /\ First(U) \in Symbols
  BY <1>3, <1>4, FirstIsThere
<1>6. Sums(h)[V] \in Int
  BY <1>2, <1>5
<1>7. Sums(h)[U] = h[First(U)] + Sums(h)[V]
  BY <1>3, <1>4, SumsOf
<1> QED
  BY <1>3, <1>5, <1>6, <1>7

(* One position more or less changes the sum by as much.                   *)
LEMMA SumsAfter ==
  ASSUME NEW h \in [Symbols -> Int], NEW y \in Symbols, NEW d \in Int,
         NEW T \in SUBSET Symbols
  PROVE  Sums([h EXCEPT ![y] = h[y] + d])[T] = Sums(h)[T] + (IF y \in T THEN d ELSE 0)
<1> DEFINE g == [h EXCEPT ![y] = h[y] + d]
           Right(U) == Sums(g)[U] = Sums(h)[U] + (IF y \in U THEN d ELSE 0)
           Bad == {U \in SUBSET Symbols : ~Right(U)}
<1>1. SUFFICES ASSUME Bad # {} PROVE FALSE
  OBVIOUS
<1>2. PICK U \in Bad : \A V \in Bad : V \subseteq U => V = U
  <2>1. Bad \subseteq SUBSET Symbols
    OBVIOUS
  <2> HIDE DEF Bad
  <2> QED
    BY <1>1, <2>1, SmallestSet, RiskAssumption DEF RiskAssumption
<1>3. U \in SUBSET Symbols /\ ~Right(U)
  OBVIOUS
<1>g. /\ g \in [Symbols -> Int] /\ g[y] = h[y] + d
      /\ \A z \in Symbols \ {y} : g[z] = h[z]
  OBVIOUS
<1> HIDE DEF g
<1>4. U # {}
  <2>1. SUFFICES ASSUME U = {} PROVE Right(U)
    BY <1>3
  <2>2. Sums(g)[U] = 0 /\ Sums(h)[U] = 0
    BY <1>3, <2>1, SumsOf
  <2> QED
    BY <2>1, <2>2
<1> DEFINE x == First(U)
           V == U \ {x}
<1>5. V \in SUBSET Symbols /\ V \subseteq U /\ V # U /\ x \in Symbols /\ x \in U
  BY <1>3, <1>4, FirstIsThere
<1>6. Right(V)
  BY <1>2, <1>5
<1>7. Sums(h)[U] = h[x] + Sums(h)[V] /\ Sums(g)[U] = g[x] + Sums(g)[V]
  BY <1>3, <1>4, SumsOf
<1>8. Sums(h)[V] \in Int /\ Sums(h)[U] \in Int /\ h[x] \in Int
  BY <1>3, <1>5, SumsType
<1>9. CASE x = y
  <2>1. y \notin V /\ y \in U /\ g[x] = h[x] + d
    BY <1>5, <1>9, <1>g
  <2>2. Sums(g)[V] = Sums(h)[V]
    BY <1>6, <1>8, <2>1
  <2> HIDE DEF V, x
  <2> QED
    BY <1>3, <1>7, <1>8, <2>1, <2>2
<1>10. CASE x # y
  <2>1. y \in V <=> y \in U
    BY <1>10
  <2>2. g[x] = h[x]
    BY <1>5, <1>10, <1>g
  <2> HIDE DEF V, x
  <2> QED
    BY <1>3, <1>6, <1>7, <1>8, <2>1, <2>2
<1> QED
  BY <1>9, <1>10

LEMMA UnitsType ==
  ASSUME NEW h \in [Symbols -> Int]
  PROVE  Units(h) \in Int
BY UnitsAreSums, SumsType

LEMMA UnitsAfter ==
  ASSUME NEW h \in [Symbols -> Int], NEW y \in Symbols, NEW d \in Int
  PROVE  Units([h EXCEPT ![y] = h[y] + d]) = Units(h) + d
<1>1. y \in Symbols /\ Symbols \in SUBSET Symbols
  OBVIOUS
<1> QED
  BY ZenonT(30), <1>1, UnitsAreSums, SumsAfter

LEMMA UnitsOfNothing == Units(NothingHeld) = 0
<1> DEFINE h == NothingHeld
           Bad == {U \in SUBSET Symbols : Sums(h)[U] # 0}
<1>1. Bad = {}
  <2>1. SUFFICES ASSUME Bad # {} PROVE FALSE
    OBVIOUS
  <2>2. PICK U \in Bad : \A V \in Bad : V \subseteq U => V = U
    <3>1. Bad \subseteq SUBSET Symbols
      OBVIOUS
    <3> HIDE DEF Bad
    <3> QED
      BY <2>1, <3>1, SmallestSet, RiskAssumption DEF RiskAssumption
  <2>3. U \in SUBSET Symbols /\ Sums(h)[U] # 0
    OBVIOUS
  <2>4. U # {}
    BY <2>3, SumsOf
  <2> DEFINE V == U \ {First(U)}
  <2>5. V \in SUBSET Symbols /\ V \subseteq U /\ V # U /\ First(U) \in Symbols
    BY <2>3, <2>4, FirstIsThere
  <2>6. Sums(h)[V] = 0
    BY <2>2, <2>5
  <2>7. Sums(h)[U] = h[First(U)] + Sums(h)[V]
    BY <2>3, <2>4, SumsOf
  <2>8. h[First(U)] = 0
    BY <2>5 DEF NothingHeld
  <2> QED
    BY <2>3, <2>6, <2>7, <2>8
<1> QED
  BY <1>1, UnitsAreSums
-----------------------------------------------------------------------------
(* A RiskState, and the variables of both modules.                         *)
StateType ==
  [pnl : Int, over : BOOLEAN, kill : BOOLEAN, pause : 0 .. Cooldown,
   reported : [Symbols -> Nat]]

StopIds == [at : 0 .. MaxSeconds, level : {"full", "strategy", "symbol", "mode"}]

StopTypeOK ==
  /\ DOMAIN active \subseteq StopIds
  /\ active \in [DOMAIN active -> SUBSET Strategies]
  /\ orphaned \subseteq Strategies
  /\ second \in 0 .. MaxSeconds

RiskAndStopsOK == RiskTypeOK /\ StopTypeOK
-----------------------------------------------------------------------------
(* The number of positions.                                                *)
LEMMA PositionsType ==
  ASSUME NEW h
  PROVE  Positions(h) \in Nat
<1>1. IsFiniteSet({y \in Symbols : h[y] > 0})
  BY FS_Subset, RiskAssumption DEF RiskAssumption
<1> QED
  BY <1>1, FS_CardinalityType DEF Positions

LEMMA PositionsAfter ==
  ASSUME NEW h \in [Symbols -> Nat], NEW y \in Symbols
  PROVE  /\ Positions([h EXCEPT ![y] = h[y] + 1]) <= Positions(h) + 1
         /\ h[y] > 0 => Positions([h EXCEPT ![y] = h[y] - 1]) <= Positions(h)
<1> DEFINE P == {z \in Symbols : h[z] > 0}
           Q == {z \in Symbols : [h EXCEPT ![y] = h[y] + 1][z] > 0}
           R == {z \in Symbols : [h EXCEPT ![y] = h[y] - 1][z] > 0}
<1>1. Q = P \union {y}
  OBVIOUS
<1>2. R \subseteq P
  OBVIOUS
<1>3. IsFiniteSet(P) /\ Cardinality(P) \in Nat
  BY FS_Subset, FS_CardinalityType, RiskAssumption DEF RiskAssumption
<1>4. Cardinality(Q) <= Cardinality(P) + 1
  <2> HIDE DEF P, Q
  <2> QED
    BY SMTT(30), <1>1, <1>3, FS_AddElement
<1>5. Cardinality(R) <= Cardinality(P)
  <2> HIDE DEF P, R
  <2> QED
    BY <1>2, <1>3, FS_Subset
<1> QED
  BY <1>4, <1>5 DEF Positions

-----------------------------------------------------------------------------
(* What the operations make of the state of a strategy.                    *)
LEMMA NewStateIs ==
  /\ NewState \in StateType
  /\ NewState.pnl = 0 /\ ~NewState.over /\ ~NewState.kill /\ NewState.pause = 0
  /\ NewState.reported = NothingHeld
  /\ NothingHeld \in [Symbols -> Nat]
BY RiskAssumption DEF NewState, StateType, NothingHeld, RiskAssumption

LEMMA StateIs ==
  ASSUME RiskTypeOK, NEW s \in Strategies
  PROVE  StateOf(s) = risk[s] /\ risk[s] \in StateType
BY DEF RiskTypeOK, StateOf, StateType

LEMMA KilledIs ==
  ASSUME NEW st \in StateType
  PROVE  /\ Killed(st) \in StateType /\ Killed(st).kill
         /\ Killed(st).pnl = st.pnl /\ Killed(st).over = st.over
         /\ Killed(st).reported = st.reported
BY DEF Killed, StateType

LEMMA ReleasedIs ==
  ASSUME NEW st \in StateType
  PROVE  LET new == [st EXCEPT !.kill = FALSE] IN
         /\ new \in StateType /\ ~new.kill
         /\ new.pnl = st.pnl /\ new.over = st.over
         /\ new.reported = st.reported
BY DEF StateType

LEMMA ReportedIs ==
  ASSUME NEW st \in StateType, NEW h \in [Symbols -> Nat]
  PROVE  LET new == [st EXCEPT !.reported = h] IN
         /\ new \in StateType /\ new.kill = st.kill
         /\ new.pnl = st.pnl /\ new.over = st.over
         /\ new.reported = h
BY DEF StateType

LEMMA PausedIs ==
  ASSUME NEW st \in StateType, NEW n \in 0 .. Cooldown
  PROVE  LET new == [st EXCEPT !.pause = n] IN
         /\ new \in StateType /\ new.kill = st.kill /\ new.pause = n
         /\ new.pnl = st.pnl /\ new.over = st.over
         /\ new.reported = st.reported
BY DEF StateType

LEMMA ResetIs ==
  ASSUME NEW st \in StateType
  PROVE  LET new == [st EXCEPT !.pnl = 0, !.over = FALSE] IN
         /\ new \in StateType /\ new.kill = st.kill
         /\ new.pnl = 0 /\ new.over = FALSE
         /\ new.reported = st.reported
         /\ st = NewState => new = NewState
<1> DEFINE g == [st EXCEPT !.pnl = 0]
           h == [g EXCEPT !.over = FALSE]
<1>1. g \in StateType /\ g.kill = st.kill /\ g.pnl = 0 /\ g.reported = st.reported /\ g.pause = st.pause
  BY DEF StateType
<1>2. [st EXCEPT !.pnl = 0, !.over = FALSE] = h
  OBVIOUS
<1> HIDE DEF g
<1>3. /\ h \in StateType /\ h.kill = g.kill /\ h.pnl = g.pnl /\ h.over = FALSE
      /\ h.reported = g.reported /\ h.pause = g.pause
  BY <1>1 DEF StateType
<1> HIDE DEF h
<1>4. ASSUME st = NewState
      PROVE  h = NewState
  BY <1>1, <1>3, <1>4, NewStateIs DEF StateType
<1> QED
  BY <1>1, <1>2, <1>3, <1>4

LEMMA TradedIs ==
  ASSUME NEW st \in StateType, NEW pnl \in Int, NEW bal \in Int
  PROVE  LET new == AfterTrade(st, pnl, bal) IN
         /\ new \in StateType
         /\ new.pnl = st.pnl + pnl
         /\ new.over = (IF bal > 0 THEN Exceeds(st.pnl + pnl, bal) ELSE st.over)
         /\ new.kill <=> st.kill \/ new.over
         /\ new.reported = st.reported
<1> DEFINE sum  == st.pnl + pnl
           over == IF bal > 0 THEN Exceeds(sum, bal) ELSE st.over
           kill == st.kill \/ over
           g == [st EXCEPT !.pnl = sum]
           h == [g EXCEPT !.over = over]
           k == [h EXCEPT !.kill = kill]
<1>a. sum \in Int /\ st.over \in BOOLEAN
  BY DEF StateType
<1>b. Exceeds(sum, bal) \in BOOLEAN
  BY DEF Exceeds
<1>c. over \in BOOLEAN
  <2> HIDE DEF sum
  <2> QED
    BY <1>a, <1>b
<1>d. kill \in BOOLEAN
  OBVIOUS
<1>1. sum \in Int /\ over \in BOOLEAN /\ kill \in BOOLEAN
  BY <1>a, <1>c, <1>d
<1>2. AfterTrade(st, pnl, bal) = k
  BY DEF AfterTrade
<1>3. over = (IF bal > 0 THEN Exceeds(st.pnl + pnl, bal) ELSE st.over)
      /\ (kill <=> st.kill \/ over) /\ sum = st.pnl + pnl
  OBVIOUS
<1> HIDE DEF sum, over, kill
<1>4. g \in StateType /\ g.pnl = sum /\ g.reported = st.reported
  BY <1>1 DEF StateType
<1> HIDE DEF g
<1>5. h \in StateType /\ h.pnl = sum /\ h.over = over /\ h.reported = st.reported
  BY <1>1, <1>4 DEF StateType
<1> HIDE DEF h
<1>6. /\ k \in StateType /\ k.pnl = sum /\ k.over = over /\ k.kill = kill
      /\ k.reported = st.reported
  BY <1>1, <1>5 DEF StateType
<1> HIDE DEF k
<1> QED
  BY <1>2, <1>3, <1>6
-----------------------------------------------------------------------------
(* What an operation does to the states of the strategies.                 *)
(* The states of the strategies stay well formed.                          *)
StatesKept ==
  /\ risk' \in [Strategies -> StateType]
  /\ registered' \subseteq Strategies
  /\ \A t \in Strategies \ registered' : risk'[t] = NewState

(* Everything about a strategy but its kill switch and its pause.          *)
SameBooks(a, b) == a.pnl = b.pnl /\ a.over = b.over /\ a.reported = b.reported

LEMMA SetStateEffect ==
  ASSUME RiskTypeOK, NEW s \in Strategies, NEW st \in StateType, SetState(s, st)
  PROVE  /\ StatesKept
         /\ risk'[s] = st
         /\ \A t \in Strategies \ {s} : risk'[t] = risk[t]
<1>1. risk \in [Strategies -> StateType]
  BY DEF RiskTypeOK, StateType
<1> QED
  BY <1>1 DEF RiskTypeOK, SetState, StatesKept

LEMMA KeepingEffect ==
  ASSUME RiskTypeOK, NEW s \in Strategies, SetState(s, StateOf(s))
  PROVE  StatesKept /\ risk' = risk
<1>1. StateOf(s) = risk[s] /\ risk[s] \in StateType
  BY StateIs
<1>2. StatesKept
  BY <1>1, SetStateEffect
<1>3. risk' = [risk EXCEPT ![s] = risk[s]]
  BY <1>1 DEF SetState
<1> QED
  BY <1>2, <1>3 DEF RiskTypeOK

LEMMA KillEffect ==
  ASSUME RiskTypeOK, NEW s \in Strategies, SetState(s, Killed(StateOf(s)))
  PROVE  /\ StatesKept
         /\ risk'[s].kill /\ SameBooks(risk'[s], risk[s])
         /\ \A t \in Strategies \ {s} : risk'[t] = risk[t]
<1>1. StateOf(s) = risk[s] /\ risk[s] \in StateType
  BY StateIs
<1> QED
  BY <1>1, SetStateEffect, KilledIs DEF SameBooks

LEMMA ReleaseEffect ==
  ASSUME RiskTypeOK, NEW s \in Strategies, ReleaseStrategyKill(s)
  PROVE  /\ StatesKept
         /\ ~risk'[s].kill /\ SameBooks(risk'[s], risk[s])
         /\ \A t \in Strategies \ {s} : risk'[t] = risk[t]
<1>1. StateOf(s) = risk[s] /\ risk[s] \in StateType
  BY StateIs
<1> DEFINE new == [risk[s] EXCEPT !.kill = FALSE]
<1>2. new \in StateType /\ ~new.kill /\ SameBooks(new, risk[s])
  BY <1>1, ReleasedIs DEF SameBooks
<1>3. SetState(s, new)
  BY <1>1 DEF ReleaseStrategyKill
<1> HIDE DEF new
<1> QED
  BY <1>2, <1>3, SetStateEffect

LEMMA ReportEffect ==
  ASSUME RiskTypeOK, NEW s \in Strategies, ReportPositions(s)
  PROVE  /\ StatesKept
         /\ risk'[s].kill = risk[s].kill /\ risk'[s].pnl = risk[s].pnl
         /\ risk'[s].over = risk[s].over /\ risk'[s].reported = held[s]
         /\ \A t \in Strategies \ {s} : risk'[t] = risk[t]
<1>1. StateOf(s) = risk[s] /\ risk[s] \in StateType
  BY StateIs
<1> DEFINE new == [risk[s] EXCEPT !.reported = held[s]]
<1>2. held[s] \in [Symbols -> Nat]
  BY DEF RiskTypeOK
<1>3. /\ new \in StateType /\ new.kill = risk[s].kill /\ new.pnl = risk[s].pnl
      /\ new.over = risk[s].over /\ new.reported = held[s]
  BY <1>1, <1>2, ReportedIs
<1>4. SetState(s, new)
  BY <1>1 DEF ReportPositions
<1> HIDE DEF new
<1> QED
  BY <1>3, <1>4, SetStateEffect

LEMMA PauseEffect ==
  ASSUME RiskTypeOK, NEW s \in Strategies, StaleTick(s)
  PROVE  /\ StatesKept
         /\ risk'[s].kill = risk[s].kill /\ SameBooks(risk'[s], risk[s])
         /\ \A t \in Strategies \ {s} : risk'[t] = risk[t]
<1>1. StateOf(s) = risk[s] /\ risk[s] \in StateType
  BY StateIs
<1> DEFINE new == [risk[s] EXCEPT !.pause = Cooldown]
<1>2. Cooldown \in 0 .. Cooldown
  BY RiskAssumption DEF RiskAssumption
<1>3. new \in StateType /\ new.kill = risk[s].kill /\ SameBooks(new, risk[s])
  BY <1>1, <1>2, PausedIs DEF SameBooks
<1>4. SetState(s, new)
  BY <1>1 DEF StaleTick
<1> HIDE DEF new
<1> QED
  BY <1>3, <1>4, SetStateEffect

LEMMA MinuteEffect ==
  ASSUME RiskTypeOK, Minute
  PROVE  /\ StatesKept
         /\ \A t \in Strategies :
              risk'[t].kill = risk[t].kill /\ SameBooks(risk'[t], risk[t])
<1> DEFINE left(t) == IF risk[t].pause > 0 THEN risk[t].pause - 1 ELSE 0
           new(t)  == [risk[t] EXCEPT !.pause = left(t)]
<1>1. risk' = [t \in Strategies |-> new(t)]
  BY DEF Minute
<1>2. ASSUME NEW t \in Strategies
      PROVE  /\ new(t) \in StateType /\ new(t).kill = risk[t].kill
             /\ SameBooks(new(t), risk[t])
             /\ risk[t] = NewState => new(t) = NewState
  <2>1. risk[t] \in StateType
    BY StateIs
  <2>2. left(t) \in 0 .. Cooldown
    <3>1. risk[t].pause \in 0 .. Cooldown /\ Cooldown \in Nat
      BY <2>1, RiskAssumption DEF StateType, RiskAssumption
    <3> QED
      BY <3>1
  <2>3. new(t) \in StateType /\ new(t).kill = risk[t].kill /\ SameBooks(new(t), risk[t])
    <3> HIDE DEF left
    <3> QED
      BY <2>1, <2>2, PausedIs DEF SameBooks
  <2>4. ASSUME risk[t] = NewState PROVE new(t) = NewState
    <3>1. left(t) = 0
      BY <2>4, NewStateIs
    <3> HIDE DEF left
    <3>2. new(t) = [NewState EXCEPT !.pause = 0]
      BY <2>4, <3>1
    <3> DEFINE other == [NewState EXCEPT !.pause = 0]
    <3>3. /\ other \in StateType /\ other.kill = NewState.kill /\ other.pause = 0
          /\ other.pnl = NewState.pnl /\ other.over = NewState.over
          /\ other.reported = NewState.reported
      <4>1. 0 \in 0 .. Cooldown
        BY RiskAssumption DEF RiskAssumption
      <4> QED
        BY <4>1, NewStateIs, PausedIs
    <3> HIDE DEF other
    <3>4. other = NewState
      BY <3>3, NewStateIs DEF StateType
    <3> QED
      BY <3>2, <3>4 DEF other
  <2> QED
    BY <2>3, <2>4
<1>3. registered' = registered /\ registered \subseteq Strategies
  BY DEF Minute, RiskTypeOK
<1>4. \A t \in Strategies \ registered : risk[t] = NewState
  BY DEF RiskTypeOK
<1> HIDE DEF new
<1> QED
  BY <1>1, <1>2, <1>3, <1>4 DEF StatesKept

LEMMA ResetEffect ==
  ASSUME RiskTypeOK
  PROVE  /\ DailyReset \in [Strategies -> StateType]
         /\ resetDay = day => DailyReset = risk
         /\ resetDay # day => \A t \in Strategies : DailyReset[t].pnl = 0 /\ ~DailyReset[t].over
         /\ \A t \in Strategies :
              /\ DailyReset[t].kill = risk[t].kill
              /\ DailyReset[t].reported = risk[t].reported
              /\ risk[t] = NewState => DailyReset[t] = NewState
<1> DEFINE new(t) == [risk[t] EXCEPT !.pnl = 0, !.over = FALSE]
<1>1. ASSUME NEW t \in Strategies
      PROVE  /\ new(t) \in StateType /\ new(t).kill = risk[t].kill
             /\ new(t).pnl = 0 /\ new(t).over = FALSE
             /\ new(t).reported = risk[t].reported
             /\ risk[t] = NewState => new(t) = NewState
  <2>1. risk[t] \in StateType
    BY StateIs
  <2> QED
    BY <2>1, ResetIs
<1>2. risk \in [Strategies -> StateType]
  BY DEF RiskTypeOK, StateType
<1>3. DailyReset = IF resetDay = day THEN risk ELSE [t \in Strategies |-> new(t)]
  BY DEF DailyReset
<1> HIDE DEF new
<1> QED
  BY <1>1, <1>2, <1>3

LEMMA RecordEffect ==
  ASSUME RiskTypeOK, NEW s \in Strategies, NEW pnl \in Int, RecordPnl(s, pnl)
  PROVE  LET before == DailyReset[s]
             bal    == balance[s] + pnl
         IN  /\ StatesKept
             /\ risk'[s].pnl = before.pnl + pnl
             /\ risk'[s].over = (IF bal > 0 THEN Exceeds(before.pnl + pnl, bal) ELSE before.over)
             /\ risk'[s].kill <=> before.kill \/ risk'[s].over
             /\ risk'[s].reported = before.reported
             /\ \A t \in Strategies \ {s} : risk'[t] = DailyReset[t]
<1> DEFINE before == DailyReset[s]
           bal    == balance[s] + pnl
           new    == AfterTrade(before, pnl, bal)
<1>1. before \in StateType /\ DailyReset \in [Strategies -> StateType]
  BY ResetEffect
<1>2. bal \in Int
  BY DEF RiskTypeOK
<1>3. before = IF s \in registered THEN DailyReset[s] ELSE NewState
  BY ResetEffect DEF RiskTypeOK
<1>4. risk' = [DailyReset EXCEPT ![s] = new] /\ registered' = registered \union {s}
  BY <1>3 DEF RecordPnl
<1>5. \A t \in Strategies \ registered : DailyReset[t] = NewState
  BY ResetEffect DEF RiskTypeOK
<1>6. /\ new \in StateType
      /\ new.pnl = before.pnl + pnl
      /\ new.over = (IF bal > 0 THEN Exceeds(before.pnl + pnl, bal) ELSE before.over)
      /\ new.kill <=> before.kill \/ new.over
      /\ new.reported = before.reported
  <2> HIDE DEF before, bal
  <2> QED
    BY <1>1, <1>2, TradedIs
<1>7. registered \subseteq Strategies
  BY DEF RiskTypeOK
<1> HIDE DEF new
<1>8. risk'[s] = new
  BY <1>1, <1>4
<1>9. \A t \in Strategies \ {s} : risk'[t] = DailyReset[t]
  BY <1>1, <1>4
<1>10. StatesKept
  BY <1>1, <1>4, <1>5, <1>6, <1>7 DEF StatesKept
<1> QED
  BY <1>6, <1>8, <1>9, <1>10

LEMMA SwitchesEffect ==
  ASSUME RiskAndStopsOK, NEW ids \in SUBSET DOMAIN active, ReleaseSwitches(ids)
  PROVE  /\ StatesKept
         /\ Freed(ids) \subseteq Strategies
         /\ \A t \in Freed(ids) : ~risk'[t].kill /\ SameBooks(risk'[t], risk[t])
         /\ \A t \in Strategies \ Freed(ids) : risk'[t] = risk[t]
<1>1. RiskTypeOK /\ StopTypeOK
  BY DEF RiskAndStopsOK
<1>2. Freed(ids) \subseteq Strategies
  <2>1. active \in [DOMAIN active -> SUBSET Strategies]
    BY <1>1 DEF StopTypeOK
  <2> QED
    BY <2>1 DEF Freed
<1> DEFINE new(t) == [risk[t] EXCEPT !.kill = FALSE]
<1>3. ASSUME NEW t \in Strategies
      PROVE  /\ StateOf(t) = risk[t] /\ risk[t] \in StateType
             /\ new(t) \in StateType /\ ~new(t).kill
             /\ SameBooks(new(t), risk[t])
  BY <1>1, StateIs, ReleasedIs DEF SameBooks
<1>4. risk' = [t \in Strategies |-> IF t \in Freed(ids) THEN new(t) ELSE risk[t]]
  BY <1>3 DEF ReleaseSwitches
<1>5. registered' = registered \union Freed(ids)
  BY DEF ReleaseSwitches
<1> HIDE DEF new
<1> QED
  BY <1>1, <1>2, <1>3, <1>4, <1>5 DEF StatesKept, RiskTypeOK

-----------------------------------------------------------------------------
(* Type correctness.                                                       *)
LEMMA StopInitTypeOK == StopInit => RiskAndStopsOK
<1> SUFFICES ASSUME StopInit PROVE RiskAndStopsOK
  OBVIOUS
<1>1. /\ risk = [t \in Strategies |-> NewState] /\ registered = {}
      /\ globalKill = FALSE /\ resetDay = Never /\ day = 0
      /\ held = [t \in Strategies |-> NothingHeld]
      /\ balance = [t \in Strategies |-> StartBalance]
      /\ unreported = [t \in Strategies |-> 0]
      /\ lossToday = [t \in Strategies |-> 0] /\ trades = 0
      /\ forgotten = {}
      /\ active = <<>> /\ second = 0 /\ orphaned = {}
  BY DEF StopInit, RiskInit
<1>2. risk \in [Strategies -> StateType]
  BY <1>1, NewStateIs
<1>3. /\ 0 \in 0 .. MaxDays /\ 0 \in 0 .. MaxTrades /\ 0 \in 0 .. MaxUnreported
      /\ 0 \in 0 .. MaxSeconds /\ Never \in Never .. 0 /\ StartBalance \in Int
  BY RiskAssumption, StopAssumption DEF RiskAssumption, StopAssumption, Never
<1>4. DOMAIN active = {}
  BY <1>1
<1>5. active \in [DOMAIN active -> SUBSET Strategies]
  BY <1>1
<1>6. StopTypeOK
  BY <1>1, <1>3, <1>4, <1>5 DEF StopTypeOK
<1>7. RiskTypeOK
  BY <1>1, <1>2, <1>3, NewStateIs DEF RiskTypeOK, StateType
<1> QED
  BY <1>6, <1>7 DEF RiskAndStopsOK

LEMMA PnlsAreIntegers == Pnls \subseteq Int
<1> SUFFICES ASSUME NEW p \in Pnls PROVE p \in Int
  OBVIOUS
<1>1. ASSUME p \in Profits PROVE p \in Int
  BY <1>1, RiskAssumption DEF RiskAssumption
<1>2. ASSUME NEW l \in Losses, p = -l PROVE p \in Int
  BY <1>2, RiskAssumption DEF RiskAssumption
<1> QED
  BY <1>1, <1>2 DEF Pnls

(* Well-formed states are all that is left to show when the accounts stay. *)
LEMMA AccountsStay ==
  ASSUME RiskTypeOK, StatesKept, globalKill' \in BOOLEAN,
         UNCHANGED <<resetDay, accountVars, day>>, forgotten' \subseteq Strategies
  PROVE  RiskTypeOK'
BY DEF RiskTypeOK, StatesKept, StateType, accountVars

LEMMA OrderTypeOK ==
  ASSUME RiskTypeOK, NEW s \in Strategies, NEW y \in Symbols, OrderAllowed(s, y)
  PROVE  RiskTypeOK'
<1>1. StatesKept
  BY KeepingEffect DEF OrderAllowed
<1>2. /\ held' = [held EXCEPT ![s][y] = held[s][y] + 1]
      /\ unreported' = [unreported EXCEPT ![s] = unreported[s] + 1]
      /\ unreported[s] < MaxUnreported
      /\ UNCHANGED <<globalKill, resetDay, balance, lossToday, trades, forgotten, day>>
  BY DEF OrderAllowed
<1>3. held' \in [Strategies -> [Symbols -> Nat]]
  BY <1>2 DEF RiskTypeOK
<1>4. unreported' \in [Strategies -> 0 .. MaxUnreported]
  <2>1. unreported[s] + 1 \in 0 .. MaxUnreported
    BY <1>2, RiskAssumption DEF RiskTypeOK, RiskAssumption
  <2> QED
    BY <1>2, <2>1 DEF RiskTypeOK
<1> QED
  BY <1>1, <1>2, <1>3, <1>4 DEF RiskTypeOK, StatesKept, StateType

LEMMA CloseTypeOK ==
  ASSUME RiskTypeOK, NEW s \in Strategies, NEW y \in Symbols, Close(s, y)
  PROVE  RiskTypeOK'
<1>1. /\ held' = [held EXCEPT ![s][y] = held[s][y] - 1]
      /\ held[s][y] > 0
      /\ UNCHANGED <<serviceVars, unreported, balance, lossToday, trades, forgotten, day>>
  BY DEF Close
<1>2. held' \in [Strategies -> [Symbols -> Nat]]
  <2>1. held[s][y] \in Nat
    BY DEF RiskTypeOK
  <2>2. held[s][y] - 1 \in Nat
    BY <1>1, <2>1
  <2> QED
    BY <1>1, <2>2 DEF RiskTypeOK
<1> QED
  BY <1>1, <1>2 DEF RiskTypeOK, serviceVars

LEMMA ReportTypeOK ==
  ASSUME RiskTypeOK, NEW s \in Strategies, ReportPositions(s)
  PROVE  RiskTypeOK'
<1>1. StatesKept
  BY ReportEffect
<1>2. /\ unreported' = [unreported EXCEPT ![s] = 0]
      /\ UNCHANGED <<globalKill, resetDay, held, balance, lossToday, trades, forgotten, day>>
  BY DEF ReportPositions
<1>3. 0 \in 0 .. MaxUnreported
  BY RiskAssumption DEF RiskAssumption
<1> QED
  BY <1>1, <1>2, <1>3 DEF RiskTypeOK, StatesKept, StateType

LEMMA RecordTypeOK ==
  ASSUME RiskTypeOK, NEW s \in Strategies, NEW p \in Pnls, RecordPnl(s, p)
  PROVE  RiskTypeOK'
<1>1. p \in Int
  BY PnlsAreIntegers
<1>2. StatesKept
  BY <1>1, RecordEffect
<1>3. /\ trades < MaxTrades /\ trades' = trades + 1 /\ resetDay' = day
      /\ balance' = [balance EXCEPT ![s] = balance[s] + p]
      /\ lossToday' = [lossToday EXCEPT ![s] = lossToday[s] + p]
      /\ UNCHANGED <<globalKill, held, unreported, forgotten, day>>
  BY DEF RecordPnl
<1>4. trades' \in 0 .. MaxTrades
  BY <1>3, RiskAssumption DEF RiskTypeOK, RiskAssumption
<1>5. resetDay' \in Never .. day'
  BY <1>3, RiskAssumption DEF RiskTypeOK, RiskAssumption, Never
<1>6. balance' \in [Strategies -> Int] /\ lossToday' \in [Strategies -> Int]
  BY <1>1, <1>3 DEF RiskTypeOK
<1> QED
  BY <1>2, <1>3, <1>4, <1>5, <1>6 DEF RiskTypeOK, StatesKept, StateType

LEMMA UnregisterTypeOK ==
  ASSUME RiskTypeOK, NEW s \in Strategies, Unregister(s)
  PROVE  RiskTypeOK'
<1>1. /\ registered' = registered \ {s} /\ risk' = [risk EXCEPT ![s] = NewState]
      /\ forgotten' = forgotten \union {s}
      /\ UNCHANGED <<globalKill, resetDay, accountVars, day>>
  BY DEF Unregister
<1>2. risk \in [Strategies -> StateType]
  BY DEF RiskTypeOK, StateType
<1>3. StatesKept
  BY <1>1, <1>2, NewStateIs DEF RiskTypeOK, StatesKept
<1> QED
  BY <1>1, <1>3, AccountsStay DEF RiskTypeOK

LEMMA MidnightTypeOK ==
  ASSUME RiskTypeOK, Midnight
  PROVE  RiskTypeOK' /\ resetDay' # day'
<1>1. /\ day < MaxDays /\ day' = day + 1
      /\ lossToday' = [t \in Strategies |-> 0]
      /\ UNCHANGED <<serviceVars, held, unreported, balance, trades, forgotten>>
  BY DEF Midnight
<1>2. day' \in 0 .. MaxDays /\ resetDay' \in Never .. day' /\ resetDay' # day'
  BY <1>1, RiskAssumption DEF RiskTypeOK, RiskAssumption, Never, serviceVars
<1> QED
  BY <1>1, <1>2 DEF RiskTypeOK, serviceVars

LEMMA GuardedTypeOK ==
  ASSUME RiskAndStopsOK, GuardrailsStep
  PROVE  RiskAndStopsOK'
<1>1. RiskTypeOK /\ StopTypeOK
  BY DEF RiskAndStopsOK
<1>2. UNCHANGED <<active, second, shaken, orphaned>>
  BY DEF GuardrailsStep
<1>3. StopTypeOK'
  BY <1>1, <1>2 DEF StopTypeOK
<1>4. ASSUME NEW s \in Strategies, StrategyStep(s)
      PROVE  RiskTypeOK'
  <2>1. ASSUME NEW y \in Symbols, OrderAllowed(s, y) PROVE RiskTypeOK'
    BY <1>1, <2>1, OrderTypeOK
  <2>2. ASSUME NEW y \in Symbols, OrderRefused(s, y) PROVE RiskTypeOK'
    BY <1>1, <2>2, KeepingEffect, AccountsStay DEF OrderRefused, RiskTypeOK
  <2>3. ASSUME NEW y \in Symbols, Close(s, y) PROVE RiskTypeOK'
    BY <1>1, <2>3, CloseTypeOK
  <2>4. CASE OrderKills(s)
    BY <1>1, <2>4, KillEffect, AccountsStay DEF OrderKills, RiskTypeOK
  <2>5. CASE ReportPositions(s)
    BY <1>1, <2>5, ReportTypeOK
  <2>6. CASE StaleTick(s)
    BY <1>1, <2>6, PauseEffect, AccountsStay DEF StaleTick, RiskTypeOK
  <2>7. ASSUME NEW p \in Pnls, RecordPnl(s, p) PROVE RiskTypeOK'
    BY <1>1, <2>7, RecordTypeOK
  <2>8. CASE Unregister(s)
    BY <1>1, <2>8, UnregisterTypeOK
  <2> QED
    BY <1>4, <2>1, <2>2, <2>3, <2>4, <2>5, <2>6, <2>7, <2>8 DEF StrategyStep, Order
<1>5. ASSUME NEW s \in Strategies, OperatorReleases(s)
      PROVE  RiskTypeOK'
  BY <1>1, <1>5, ReleaseEffect, AccountsStay DEF OperatorReleases, RiskTypeOK
<1>6. ASSUME Minute PROVE RiskTypeOK'
  BY <1>1, <1>6, MinuteEffect, AccountsStay DEF Minute, RiskTypeOK
<1>7. ASSUME Midnight PROVE RiskTypeOK'
  BY <1>1, <1>7, MidnightTypeOK
<1>8. RiskTypeOK'
  BY <1>4, <1>5, <1>6, <1>7 DEF GuardrailsStep, Clock
<1> QED
  BY <1>3, <1>8 DEF RiskAndStopsOK

LEMMA RecordEntry ==
  ASSUME StopTypeOK, NEW level \in {"full", "strategy", "symbol", "mode"},
         NEW affected \in SUBSET Strategies, Record(NewId(level), affected)
  PROVE  LET id == NewId(level)
         IN  /\ id \in StopIds /\ id.level = level
             /\ DOMAIN active' = DOMAIN active \union {id}
             /\ active' \in [DOMAIN active' -> SUBSET Strategies]
             /\ active'[id] = affected
             /\ \A i \in DOMAIN active \ {id} : active'[i] = active[i]
             /\ shaken' = shaken \ {id}
             /\ orphaned' = (IF level = "strategy" THEN (orphaned \union Recorded(id)) \ affected ELSE orphaned)
             /\ orphaned' \subseteq Strategies
<1> DEFINE id == NewId(level)
<1>1. id \in StopIds /\ id.level = level
  BY DEF StopTypeOK, NewId, StopIds
<1>2. /\ active' = [i \in DOMAIN active \union {id} |-> IF i = id THEN affected ELSE active[i]]
      /\ shaken' = shaken \ {id}
      /\ orphaned' = IF level = "strategy" THEN (orphaned \union Recorded(id)) \ affected ELSE orphaned
  BY <1>1 DEF Record
<1> HIDE DEF id
<1>3. Recorded(id) \subseteq Strategies
  BY DEF Recorded, StopTypeOK
<1> QED
  BY <1>1, <1>2, <1>3 DEF StopTypeOK, id

LEMMA RecordTypes ==
  ASSUME StopTypeOK, NEW level \in {"full", "strategy", "symbol", "mode"},
         NEW affected \in SUBSET Strategies, Record(NewId(level), affected), second' = second
  PROVE  StopTypeOK'
<1>1. /\ NewId(level) \in StopIds
      /\ DOMAIN active' = DOMAIN active \union {NewId(level)}
      /\ active' \in [DOMAIN active' -> SUBSET Strategies]
      /\ orphaned' \subseteq Strategies
  BY RecordEntry
<1> QED
  BY <1>1 DEF StopTypeOK, StopIds

LEMMA StopStepTypeOK ==
  ASSUME RiskAndStopsOK, Stop
  PROVE  RiskAndStopsOK'
<1>1. RiskTypeOK /\ StopTypeOK /\ registered \subseteq Strategies
  BY DEF RiskAndStopsOK, RiskTypeOK
<1>2. CASE StopFull
  <2>1. StatesKept
    BY <1>1, <1>2 DEF StopFull, StatesKept, RiskTypeOK, StateType
  <2>2. RiskTypeOK'
    BY <1>1, <1>2, <2>1, AccountsStay DEF StopFull, StopUnchanged, TriggerGlobalKill, RiskTypeOK
  <2> QED
    BY <1>1, <1>2, <2>2, RecordTypes DEF StopFull, StopUnchanged, RiskAndStopsOK
<1>3. ASSUME NEW s \in Strategies, StopStrategy(s)
      PROVE  RiskAndStopsOK'
  <2>1. StatesKept
    BY <1>1, <1>3, KillEffect DEF StopStrategy, TriggerStrategyKill
  <2>2. RiskTypeOK'
    BY <1>1, <1>3, <2>1, AccountsStay DEF StopStrategy, StopUnchanged, RiskTypeOK
  <2> QED
    BY <1>1, <1>3, <2>2, RecordTypes DEF StopStrategy, StopUnchanged, RiskAndStopsOK
<1>4. ASSUME NEW level \in {"symbol", "mode"}, StopMany(level)
      PROVE  RiskAndStopsOK'
  <2>1. StatesKept
    BY <1>1, <1>4 DEF StopMany, StatesKept, RiskTypeOK, StateType
  <2>2. RiskTypeOK'
    BY <1>1, <1>4, <2>1, AccountsStay DEF StopMany, StopUnchanged, RiskTypeOK
  <2> QED
    BY <1>1, <1>4, <2>2, RecordTypes DEF StopMany, StopUnchanged, RiskAndStopsOK
<1> QED
  BY <1>2, <1>3, <1>4 DEF Stop

LEMMA ReleaseEntry ==
  ASSUME StopTypeOK, NEW ids \in SUBSET DOMAIN active, Release(ids)
  PROVE  /\ DOMAIN active' = DOMAIN active \ ids
         /\ active' \in [DOMAIN active' -> SUBSET Strategies]
         /\ \A i \in DOMAIN active \ ids : active'[i] = active[i]
BY DEF Release, StopTypeOK

LEMMA ReleaseTypeOK ==
  ASSUME RiskAndStopsOK, NEW ids \in SUBSET DOMAIN active, Release(ids)
  PROVE  RiskAndStopsOK'
<1>1. RiskTypeOK /\ StopTypeOK
  BY DEF RiskAndStopsOK
<1>2. ReleaseSwitches(ids) /\ StopUnchanged
  BY DEF Release
<1>3. StatesKept
  BY <1>2, SwitchesEffect
<1>4. globalKill' \in BOOLEAN
  BY <1>1, <1>2 DEF ReleaseSwitches, ReleaseGlobalKill, RiskTypeOK
<1>5. RiskTypeOK'
  BY <1>1, <1>2, <1>3, <1>4, AccountsStay DEF StopUnchanged, RiskTypeOK
<1>6. orphaned' \subseteq Strategies
  BY <1>1 DEF Release, StopTypeOK
<1>7. StopTypeOK'
  BY <1>1, <1>2, <1>6, ReleaseEntry DEF StopTypeOK, StopUnchanged
<1> QED
  BY <1>5, <1>7 DEF RiskAndStopsOK

LEMMA StepTypeOK == RiskAndStopsOK /\ [StopNext]_stopVars => RiskAndStopsOK'
<1> SUFFICES ASSUME RiskAndStopsOK, [StopNext]_stopVars PROVE RiskAndStopsOK'
  OBVIOUS
<1>1. CASE Second
  <2>1. second' \in 0 .. MaxSeconds
    BY <1>1, StopAssumption DEF Second, RiskAndStopsOK, StopTypeOK, StopAssumption
  <2> QED
    BY <1>1, <2>1 DEF Second, RiskAndStopsOK, RiskTypeOK, StopTypeOK, riskVars, serviceVars, accountVars
<1>2. CASE UNCHANGED stopVars
  BY <1>2 DEF stopVars, RiskAndStopsOK, RiskTypeOK, StopTypeOK, riskVars, serviceVars, accountVars
<1>3. CASE ReleaseStop
  BY <1>3, ReleaseTypeOK DEF ReleaseStop
<1>4. CASE ReleaseAll
  BY <1>4, ReleaseTypeOK DEF ReleaseAll
<1> QED
  BY <1>1, <1>2, <1>3, <1>4, StopStepTypeOK, GuardedTypeOK DEF StopNext

(* Every variable of the guardrails and of the emergency stop keeps its    *)
(* type: no call stores a state the others cannot read.                    *)
THEOREM TypeCorrect == StopSpec => []RiskAndStopsOK
BY StopInitTypeOK, StepTypeOK, PTL DEF StopSpec

-----------------------------------------------------------------------------
(* The limits on what a strategy holds.                                    *)
(* A strategy holds what was last reported of it and one unit more for     *)
(* each order since.                                                       *)
NearlyReported(s) ==
  LET seen == risk[s].reported IN
  /\ Positions(held[s]) <= Positions(seen) + unreported[s]
  /\ Units(held[s]) <= Units(seen) + unreported[s]
  /\ \A y \in Symbols : held[s][y] <= seen[y] + unreported[s]

WithinAllLimits(s) ==
  /\ Positions(held[s]) < MaxPositions + MaxUnreported
  /\ Units(held[s]) < MaxExposure + MaxUnreported
  /\ \A y \in Symbols : held[s][y] < SymbolCap + MaxUnreported

Limited(s) == NearlyReported(s) /\ WithinAllLimits(s)

AllLimited == \A s \in Strategies \ forgotten : Limited(s)

LEMMA LimitsInit == StopInit => AllLimited
<1> SUFFICES ASSUME StopInit, NEW s \in Strategies PROVE Limited(s)
  BY DEF AllLimited
<1>1. /\ held[s] = NothingHeld /\ unreported[s] = 0 /\ risk[s].reported = NothingHeld
  BY NewStateIs DEF StopInit, RiskInit
<1>2. \A y \in Symbols : NothingHeld[y] = 0
  BY DEF NothingHeld
<1>3. Positions(NothingHeld) = 0
  <2>1. {y \in Symbols : NothingHeld[y] > 0} = {}
    BY <1>2
  <2> QED
    BY <2>1, FS_EmptySet DEF Positions
<1>4. Units(NothingHeld) = 0
  BY UnitsOfNothing
<1>5. NearlyReported(s)
  BY <1>1, <1>2, <1>3, <1>4 DEF NearlyReported
<1>6. WithinAllLimits(s)
  BY <1>1, <1>2, <1>3, <1>4, RiskAssumption DEF WithinAllLimits, RiskAssumption
<1> QED
  BY <1>5, <1>6 DEF Limited

LEMMA LimitedStays ==
  ASSUME NEW s \in Strategies, Limited(s), risk'[s].reported = risk[s].reported,
         UNCHANGED <<held, unreported>>
  PROVE  Limited(s)'
BY DEF Limited, NearlyReported, WithinAllLimits

LEMMA OrderLimited ==
  ASSUME RiskAndStopsOK, NEW s \in Strategies, NEW y \in Symbols, OrderAllowed(s, y),
         NEW t \in Strategies, Limited(t)
  PROVE  Limited(t)'
<1>1. RiskTypeOK
  BY DEF RiskAndStopsOK
<1>2. StateOf(s) = risk[s] /\ risk' = risk
  BY <1>1, StateIs, KeepingEffect DEF OrderAllowed
<1>3. /\ held \in [Strategies -> [Symbols -> Nat]] /\ unreported \in [Strategies -> Nat]
      /\ risk[s].reported \in [Symbols -> Nat]
  BY <1>1, StateIs DEF RiskTypeOK, StateType
<1>4. /\ held' = [held EXCEPT ![s][y] = held[s][y] + 1]
      /\ unreported' = [unreported EXCEPT ![s] = unreported[s] + 1]
  BY DEF OrderAllowed
<1>5. CASE t # s
  <2>1. held'[t] = held[t] /\ unreported'[t] = unreported[t]
    BY <1>3, <1>4, <1>5
  <2> QED
    BY <1>2, <2>1 DEF Limited, NearlyReported, WithinAllLimits
<1>6. CASE t = s
  <2> DEFINE h == held[s]
             seen == risk[s].reported
             n == unreported[s]
             new == [h EXCEPT ![y] = h[y] + 1]
  <2>1. held'[s] = new /\ unreported'[s] = n + 1 /\ h \in [Symbols -> Nat] /\ n \in Nat
    BY <1>3, <1>4
  <2>2. h \in [Symbols -> Int] /\ seen \in [Symbols -> Int]
    BY <1>3
  <2>3. /\ n < MaxUnreported
        /\ Positions(seen) < MaxPositions /\ Units(seen) + 1 <= MaxExposure
        /\ seen[y] + 1 <= SymbolCap
    BY <1>2 DEF OrderAllowed, WithinLimits
  <2>4. /\ Positions(new) <= Positions(h) + 1 /\ Positions(new) \in Nat
        /\ Positions(h) \in Nat /\ Positions(seen) \in Nat
    BY <2>1, PositionsType, PositionsAfter
  <2>5. Units(new) = Units(h) + 1 /\ Units(h) \in Int /\ Units(seen) \in Int
    <3> HIDE DEF h, seen
    <3>1. Units(new) = Units(h) + 1
      <4>1. 1 \in Int
        OBVIOUS
      <4> QED
        BY <2>2, <4>1, UnitsAfter
    <3>2. Units(h) \in Int /\ Units(seen) \in Int
      BY <2>2, UnitsType
    <3> QED
      BY <3>1, <3>2
  <2>6. /\ Positions(h) <= Positions(seen) + n
        /\ Units(h) <= Units(seen) + n
        /\ \A z \in Symbols : h[z] <= seen[z] + n
        /\ \A z \in Symbols : h[z] < SymbolCap + MaxUnreported
    BY <1>6 DEF Limited, NearlyReported, WithinAllLimits
  <2>7. \A z \in Symbols : new[z] = IF z = y THEN h[z] + 1 ELSE h[z]
    BY <2>1
  <2>8. \A z \in Symbols : h[z] \in Nat /\ seen[z] \in Nat
    BY <1>3
  <2>9. MaxPositions \in Nat /\ MaxExposure \in Nat /\ SymbolCap \in Nat /\ MaxUnreported \in Nat
    BY RiskAssumption DEF RiskAssumption
  <2> HIDE DEF h, seen, n, new
  <2>10. Positions(new) <= Positions(seen) + (n + 1) /\ Positions(new) < MaxPositions + MaxUnreported
    BY <2>1, <2>3, <2>4, <2>6, <2>9
  <2>11. Units(new) <= Units(seen) + (n + 1) /\ Units(new) < MaxExposure + MaxUnreported
    BY <2>1, <2>3, <2>5, <2>6, <2>9
  <2>12. ASSUME NEW z \in Symbols
         PROVE  new[z] <= seen[z] + (n + 1) /\ new[z] < SymbolCap + MaxUnreported
    <3>1. CASE z = y
      BY <2>1, <2>3, <2>6, <2>7, <2>8, <2>9, <3>1
    <3>2. CASE z # y
      BY <2>1, <2>6, <2>7, <2>8, <2>9, <3>2
    <3> QED
      BY <3>1, <3>2
  <2>13. risk'[s].reported = seen
    BY <1>2 DEF seen
  <2> QED
    BY <1>6, <2>1, <2>10, <2>11, <2>12, <2>13 DEF Limited, NearlyReported, WithinAllLimits
<1> QED
  BY <1>5, <1>6

LEMMA CloseLimited ==
  ASSUME RiskAndStopsOK, NEW s \in Strategies, NEW y \in Symbols, Close(s, y),
         NEW t \in Strategies, Limited(t)
  PROVE  Limited(t)'
<1>1. RiskTypeOK
  BY DEF RiskAndStopsOK
<1>2. risk' = risk /\ unreported' = unreported /\ held[s][y] > 0
  BY DEF Close, serviceVars
<1>3. /\ held \in [Strategies -> [Symbols -> Nat]] /\ unreported \in [Strategies -> Nat]
      /\ risk[s].reported \in [Symbols -> Nat]
  BY <1>1, StateIs DEF RiskTypeOK, StateType
<1>4. held' = [held EXCEPT ![s][y] = held[s][y] - 1]
  BY DEF Close
<1>5. CASE t # s
  <2>1. held'[t] = held[t] /\ unreported'[t] = unreported[t]
    BY <1>2, <1>3, <1>4, <1>5
  <2> QED
    BY <1>2, <2>1 DEF Limited, NearlyReported, WithinAllLimits
<1>6. CASE t = s
  <2> DEFINE h == held[s]
             seen == risk[s].reported
             n == unreported[s]
             new == [h EXCEPT ![y] = h[y] - 1]
  <2>1. held'[s] = new /\ h \in [Symbols -> Nat] /\ n \in Nat /\ h[y] > 0
    BY <1>2, <1>3, <1>4
  <2>2. h \in [Symbols -> Int] /\ seen \in [Symbols -> Int] /\ -1 \in Int
    BY <1>3
  <2>4. /\ Positions(new) <= Positions(h) /\ Positions(new) \in Nat
        /\ Positions(h) \in Nat /\ Positions(seen) \in Nat
    BY <2>1, PositionsType, PositionsAfter
  <2>5. Units(new) = Units(h) - 1 /\ Units(h) \in Int /\ Units(seen) \in Int
    <3>1. new = [h EXCEPT ![y] = h[y] + (-1)]
      BY <2>1
    <3> HIDE DEF new, h
    <3>2. Units(new) = Units(h) + (-1)
      BY <2>2, <3>1, UnitsAfter
    <3>3. Units(h) \in Int /\ Units(seen) \in Int
      BY <2>2, UnitsType
    <3> QED
      BY <3>2, <3>3
  <2>6. /\ Positions(h) <= Positions(seen) + n /\ Positions(h) < MaxPositions + MaxUnreported
        /\ Units(h) <= Units(seen) + n /\ Units(h) < MaxExposure + MaxUnreported
        /\ \A z \in Symbols : h[z] <= seen[z] + n
        /\ \A z \in Symbols : h[z] < SymbolCap + MaxUnreported
    BY <1>6 DEF Limited, NearlyReported, WithinAllLimits
  <2>7. \A z \in Symbols : new[z] \in Int /\ new[z] <= h[z]
    BY <2>1
  <2>8. \A z \in Symbols : h[z] \in Nat /\ seen[z] \in Nat
    BY <1>3
  <2>9. MaxPositions \in Nat /\ MaxExposure \in Nat /\ SymbolCap \in Nat /\ MaxUnreported \in Nat
    BY RiskAssumption DEF RiskAssumption
  <2> HIDE DEF h, seen, n, new
  <2>10. Positions(new) <= Positions(seen) + n /\ Positions(new) < MaxPositions + MaxUnreported
    BY <2>1, <2>4, <2>6, <2>9
  <2>11. Units(new) <= Units(seen) + n /\ Units(new) < MaxExposure + MaxUnreported
    BY <2>1, <2>5, <2>6, <2>9
  <2>12. ASSUME NEW z \in Symbols
         PROVE  new[z] <= seen[z] + n /\ new[z] < SymbolCap + MaxUnreported
    BY <2>1, <2>6, <2>7, <2>8, <2>9
  <2>13. risk'[s].reported = seen /\ unreported'[s] = n
    BY <1>2 DEF seen, n
  <2> QED
    BY <1>6, <2>1, <2>10, <2>11, <2>12, <2>13 DEF Limited, NearlyReported, WithinAllLimits
<1> QED
  BY <1>5, <1>6

LEMMA ReportLimited ==
  ASSUME RiskAndStopsOK, NEW s \in Strategies, ReportPositions(s), NEW t \in Strategies, Limited(t)
  PROVE  Limited(t)'
<1>1. RiskTypeOK
  BY DEF RiskAndStopsOK
<1>2. /\ risk'[s].reported = held[s] /\ \A r \in Strategies \ {s} : risk'[r] = risk[r]
  BY <1>1, ReportEffect
<1>3. held' = held /\ unreported' = [unreported EXCEPT ![s] = 0]
  BY DEF ReportPositions
<1>4. unreported \in [Strategies -> Nat] /\ held \in [Strategies -> [Symbols -> Nat]]
  BY <1>1 DEF RiskTypeOK
<1>5. CASE t # s
  <2>1. unreported'[t] = unreported[t] /\ risk'[t] = risk[t]
    BY <1>2, <1>3, <1>4, <1>5
  <2> QED
    BY <1>3, <2>1 DEF Limited, NearlyReported, WithinAllLimits
<1>6. CASE t = s
  <2>1. unreported'[s] = 0
    BY <1>3, <1>4
  <2>2. Positions(held[s]) \in Nat /\ Units(held[s]) \in Int /\ \A y \in Symbols : held[s][y] \in Nat
    <3>1. held[s] \in [Symbols -> Int]
      BY <1>4
    <3> QED
      BY <1>4, <3>1, PositionsType, UnitsType
  <2>3. NearlyReported(s)'
    BY <1>2, <1>3, <2>1, <2>2 DEF NearlyReported
  <2> QED
    BY <1>3, <1>6, <2>3 DEF Limited, WithinAllLimits
<1> QED
  BY <1>5, <1>6

(* The steps that leave a strategy's holdings and its report alone.        *)
LEMMA BooksLimited ==
  ASSUME RiskAndStopsOK, \A t \in Strategies : SameBooks(risk'[t], risk[t]),
         UNCHANGED <<held, unreported>>, NEW t \in Strategies, Limited(t)
  PROVE  Limited(t)'
<1>1. risk'[t].reported = risk[t].reported
  BY DEF SameBooks
<1> QED
  BY <1>1, LimitedStays

LEMMA GuardedLimited ==
  ASSUME RiskAndStopsOK, GuardrailsStep, NEW t \in Strategies \ forgotten', Limited(t)
  PROVE  Limited(t)'
<1>1. RiskTypeOK /\ \A r \in Strategies : SameBooks(risk[r], risk[r])
  BY DEF RiskAndStopsOK, SameBooks
<1>4. ASSUME NEW s \in Strategies, StrategyStep(s)
      PROVE  Limited(t)'
  <2>1. ASSUME NEW y \in Symbols, OrderAllowed(s, y) PROVE Limited(t)'
    BY <2>1, OrderLimited
  <2>2. ASSUME NEW y \in Symbols, OrderRefused(s, y) PROVE Limited(t)'
    BY <1>1, <2>2, KeepingEffect, BooksLimited DEF OrderRefused, accountVars
  <2>3. ASSUME NEW y \in Symbols, Close(s, y) PROVE Limited(t)'
    BY <2>3, CloseLimited
  <2>4. CASE OrderKills(s)
    <3>1. \A r \in Strategies : SameBooks(risk'[r], risk[r])
      BY <1>1, <2>4, KillEffect DEF OrderKills, SameBooks
    <3> QED
      BY <2>4, <3>1, BooksLimited DEF OrderKills, accountVars
  <2>5. CASE ReportPositions(s)
    BY <2>5, ReportLimited
  <2>6. CASE StaleTick(s)
    <3>1. \A r \in Strategies : SameBooks(risk'[r], risk[r])
      BY <1>1, <2>6, PauseEffect DEF SameBooks
    <3> QED
      BY <2>6, <3>1, BooksLimited DEF StaleTick, accountVars
  <2>7. ASSUME NEW p \in Pnls, RecordPnl(s, p) PROVE Limited(t)'
    <3>1. risk'[t].reported = risk[t].reported
      BY <1>1, <2>7, PnlsAreIntegers, RecordEffect, ResetEffect
    <3> QED
      BY <2>7, <3>1, LimitedStays DEF RecordPnl
  <2>8. CASE Unregister(s)
    <3>1. t # s
      BY <2>8 DEF Unregister
    <3>2. risk'[t] = risk[t]
      BY <1>1, <2>8, <3>1 DEF Unregister, RiskTypeOK
    <3> QED
      BY <2>8, <3>2, LimitedStays DEF Unregister, accountVars
  <2> QED
    BY <1>4, <2>1, <2>2, <2>3, <2>4, <2>5, <2>6, <2>7, <2>8 DEF StrategyStep, Order
<1>5. ASSUME NEW s \in Strategies, OperatorReleases(s)
      PROVE  Limited(t)'
  <2>1. \A r \in Strategies : SameBooks(risk'[r], risk[r])
    BY <1>1, <1>5, ReleaseEffect DEF OperatorReleases, SameBooks
  <2> QED
    BY <1>5, <2>1, BooksLimited DEF OperatorReleases, accountVars
<1>6. ASSUME Minute PROVE Limited(t)'
  <2>1. \A r \in Strategies : SameBooks(risk'[r], risk[r])
    BY <1>1, <1>6, MinuteEffect
  <2> QED
    BY <1>6, <2>1, BooksLimited DEF Minute, accountVars
<1>7. ASSUME Midnight PROVE Limited(t)'
  BY <1>7, LimitedStays DEF Midnight, serviceVars
<1> QED
  BY <1>4, <1>5, <1>6, <1>7 DEF GuardrailsStep, Clock

(* What a stop, its release and the passing of a second leave alone.       *)
LEMMA StopsKeepBooks ==
  ASSUME RiskAndStopsOK, Stop \/ ReleaseStop \/ ReleaseAll \/ Second \/ UNCHANGED stopVars
  PROVE  /\ \A t \in Strategies : SameBooks(risk'[t], risk[t])
         /\ UNCHANGED <<held, unreported, balance, lossToday, trades, resetDay, day, forgotten>>
<1>1. RiskTypeOK /\ \A r \in Strategies : SameBooks(risk[r], risk[r])
  BY DEF RiskAndStopsOK, SameBooks
<1> DEFINE Kept == /\ \A t \in Strategies : SameBooks(risk'[t], risk[t])
                   /\ UNCHANGED <<held, unreported, balance, lossToday, trades, resetDay, day, forgotten>>
<1>2. ASSUME NEW ids \in SUBSET DOMAIN active, Release(ids)
      PROVE  Kept
  <2>1. ReleaseSwitches(ids) /\ StopUnchanged
    BY <1>2 DEF Release
  <2>2. \A t \in Strategies : SameBooks(risk'[t], risk[t])
    BY <1>1, <2>1, SwitchesEffect DEF SameBooks
  <2> QED
    BY <2>1, <2>2 DEF StopUnchanged, accountVars
<1>3. ASSUME NEW s \in Strategies, StopStrategy(s)
      PROVE  Kept
  <2>1. \A t \in Strategies : SameBooks(risk'[t], risk[t])
    BY <1>1, <1>3, KillEffect DEF StopStrategy, TriggerStrategyKill, SameBooks
  <2> QED
    BY <1>3, <2>1 DEF StopStrategy, StopUnchanged, accountVars
<1>4. CASE StopFull
  BY <1>1, <1>4 DEF StopFull, StopUnchanged, accountVars
<1>5. ASSUME NEW level \in {"symbol", "mode"}, StopMany(level)
      PROVE  Kept
  BY <1>1, <1>5 DEF StopMany, StopUnchanged, accountVars
<1>6. CASE Second
  BY <1>1, <1>6 DEF Second, riskVars, serviceVars, accountVars
<1>7. CASE UNCHANGED stopVars
  BY <1>1, <1>7 DEF stopVars, riskVars, serviceVars, accountVars
<1>8. CASE ReleaseStop
  <2>1. PICK id \in DOMAIN active : Release({id})
    BY <1>8 DEF ReleaseStop
  <2>2. {id} \in SUBSET DOMAIN active
    OBVIOUS
  <2>3. Kept
    BY <1>2, <2>1, <2>2
  <2> QED
    BY <2>3
<1>9. CASE ReleaseAll
  <2>1. Kept
    BY <1>2, <1>9 DEF ReleaseAll
  <2> QED
    BY <2>1
<1> QED
  BY <1>3, <1>4, <1>5, <1>6, <1>7, <1>8, <1>9 DEF Stop

LEMMA ForgottenGrows ==
  ASSUME GuardrailsStep
  PROVE  forgotten \subseteq forgotten'
BY DEF GuardrailsStep, Clock, Minute, Midnight, OperatorReleases, StrategyStep, Order, OrderAllowed,
       OrderRefused, OrderKills, Close, ReportPositions, StaleTick, RecordPnl, Unregister

LEMMA LimitsStep == RiskAndStopsOK /\ AllLimited /\ [StopNext]_stopVars => AllLimited'
<1> SUFFICES ASSUME RiskAndStopsOK, AllLimited, [StopNext]_stopVars,
                    NEW t \in Strategies \ forgotten'
             PROVE  Limited(t)'
  BY DEF AllLimited
<1>1. CASE GuardrailsStep
  <2>1. forgotten \subseteq forgotten'
    BY <1>1, ForgottenGrows
  <2>2. Limited(t)
    BY <2>1 DEF AllLimited
  <2> QED
    BY <1>1, <2>2, GuardedLimited
<1>2. CASE Stop \/ ReleaseStop \/ ReleaseAll \/ Second \/ UNCHANGED stopVars
  <2>1. /\ \A r \in Strategies : SameBooks(risk'[r], risk[r])
        /\ UNCHANGED <<held, unreported, forgotten>>
    BY <1>2, StopsKeepBooks
  <2>2. Limited(t)
    BY <2>1 DEF AllLimited
  <2> QED
    BY <2>1, <2>2, BooksLimited
<1> QED
  BY <1>1, <1>2 DEF StopNext

(* check_order_allowed keeps what a strategy really holds within the three *)
(* limits, but for the orders checked since the last report.               *)
THEOREM LimitsAlwaysHold == StopSpec => []LimitsHold
<1>1. AllLimited => LimitsHold
  BY DEF AllLimited, Limited, WithinAllLimits, LimitsHold
<1> QED
  BY <1>1, LimitsInit, LimitsStep, TypeCorrect, PTL DEF StopSpec

-----------------------------------------------------------------------------
(* The daily loss.                                                         *)
(* What the service knows of a strategy's loss.                            *)
LossKnown(s) ==
  /\ resetDay # day => lossToday[s] = 0
  /\ resetDay = day =>
       /\ risk[s].pnl = lossToday[s]
       /\ balance[s] > 0 => (risk[s].over <=> Exceeds(lossToday[s], balance[s]))
       /\ risk[s].over => lossToday[s] < balance[s]

LossesKnown == \A s \in Strategies \ forgotten : LossKnown(s)

(* A percentage of nothing is not exceeded, and beyond a limit is a loss.  *)
LEMMA LossLimit ==
  ASSUME NEW pnl \in Int, NEW bal \in Int
  PROVE  /\ bal > 0 => ~Exceeds(0, bal)
         /\ bal > 0 /\ Exceeds(pnl, bal) => pnl < 0
         /\ bal <= 0 /\ pnl < 0 => Exceeds(pnl, bal)
<1>1. LossPercent \in Nat
  BY RiskAssumption DEF RiskAssumption
<1> DEFINE limit == LossPercent * bal
<1>2. /\ limit \in Int
      /\ bal > 0 => limit >= 0
      /\ bal <= 0 => limit <= 0
  BY <1>1
<1>3. -LossPercent * bal = -limit
  BY <1>1
<1>4. \A x \in Int : Exceeds(x, bal) <=> 100 * x < -limit
  BY <1>3 DEF Exceeds
<1> HIDE DEF limit
<1> QED
  BY <1>2, <1>4

LEMMA LossKnownStays ==
  ASSUME NEW s \in Strategies, LossKnown(s), SameBooks(risk'[s], risk[s]),
         UNCHANGED <<balance, lossToday, resetDay, day>>
  PROVE  LossKnown(s)'
BY DEF LossKnown, SameBooks, Exceeds

LEMMA LossInit == StopInit => LossesKnown
BY DEF StopInit, RiskInit, LossesKnown, LossKnown, Never

LEMMA RecordLoss ==
  ASSUME RiskAndStopsOK, NEW s \in Strategies, NEW p \in Pnls, RecordPnl(s, p),
         NEW t \in Strategies, LossKnown(t)
  PROVE  /\ LossKnown(t)'
         /\ risk'[t].kill /\ ~risk[t].kill => Exceeds(lossToday'[t], balance'[t])
<1>1. RiskTypeOK /\ p \in Int
  BY PnlsAreIntegers DEF RiskAndStopsOK
<1>2. /\ resetDay' = day /\ day' = day
      /\ balance' = [balance EXCEPT ![s] = balance[s] + p]
      /\ lossToday' = [lossToday EXCEPT ![s] = lossToday[s] + p]
  BY DEF RecordPnl
<1>3. balance \in [Strategies -> Int] /\ lossToday \in [Strategies -> Int]
  BY <1>1 DEF RiskTypeOK
<1> DEFINE st == DailyReset[t]
<1>4. /\ st.pnl = lossToday[t] /\ st.kill = risk[t].kill /\ st.over \in BOOLEAN
      /\ balance[t] > 0 => (st.over <=> Exceeds(lossToday[t], balance[t]))
      /\ st.over => lossToday[t] < balance[t]
  <2>1. st \in StateType
    BY <1>1, ResetEffect
  <2>2. CASE resetDay = day
    <3>1. st = risk[t]
      BY <1>1, <2>2, ResetEffect
    <3> QED
      BY <2>1, <2>2, <3>1 DEF LossKnown, StateType
  <2>3. CASE resetDay # day
    <3>1. st.pnl = 0 /\ ~st.over /\ st.kill = risk[t].kill
      BY <1>1, <2>3, ResetEffect
    <3>2. lossToday[t] = 0
      BY <2>3 DEF LossKnown
    <3>3. balance[t] > 0 => ~Exceeds(0, balance[t])
      BY <1>3, LossLimit
    <3> HIDE DEF st
    <3> QED
      BY <2>1, <3>1, <3>2, <3>3 DEF StateType
  <2> QED
    BY <2>2, <2>3
<1>5. CASE t # s
  <2>1. risk'[t] = st
    BY <1>1, <1>5, RecordEffect
  <2>2. balance'[t] = balance[t] /\ lossToday'[t] = lossToday[t]
    BY <1>2, <1>3, <1>5
  <2> HIDE DEF st
  <2>3. LossKnown(t)'
    BY <1>2, <1>4, <2>1, <2>2 DEF LossKnown, Exceeds
  <2> QED
    BY <1>4, <2>1, <2>3
<1>6. CASE t = s
  <2> DEFINE sum == lossToday[t] + p
             bal == balance[t] + p
  <2>1. /\ risk'[t].pnl = st.pnl + p
        /\ risk'[t].over = (IF bal > 0 THEN Exceeds(st.pnl + p, bal) ELSE st.over)
        /\ risk'[t].kill <=> st.kill \/ risk'[t].over
    BY <1>1, <1>6, RecordEffect
  <2>2. balance'[t] = bal /\ lossToday'[t] = sum
    BY <1>2, <1>3, <1>6
  <2>3. sum \in Int /\ bal \in Int /\ balance[t] - lossToday[t] = bal - sum
    BY <1>1, <1>3
  <2>5. /\ bal > 0 /\ Exceeds(sum, bal) => sum < 0
        /\ bal <= 0 /\ sum < 0 => Exceeds(sum, bal)
    <3> HIDE DEF sum, bal
    <3> QED
      BY <2>3, LossLimit
  <2>4. st.pnl + p = sum
    BY <1>4
  <2>6. st.over => sum < bal
    BY <1>1, <1>3, <1>4
  <2> HIDE DEF st, sum, bal
  <2>7. risk'[t].over => sum < bal /\ Exceeds(sum, bal)
    <3>1. CASE bal > 0
      BY <2>1, <2>3, <2>4, <2>5, <3>1
    <3>2. CASE ~(bal > 0)
      BY <2>1, <2>3, <2>5, <2>6, <3>2
    <3> QED
      BY <3>1, <3>2
  <2>8. bal > 0 => (risk'[t].over <=> Exceeds(sum, bal))
    BY <2>1, <2>4
  <2>9. LossKnown(t)'
    <3>1. Exceeds(lossToday[t], balance[t])' <=> Exceeds(sum, bal)
      BY <2>2 DEF Exceeds
    <3> QED
      BY <1>2, <2>1, <2>2, <2>4, <2>7, <2>8, <3>1 DEF LossKnown
  <2> QED
    BY <1>4, <2>1, <2>2, <2>7, <2>9
<1> QED
  BY <1>5, <1>6

LEMMA NoOrder ==
  ASSUME NEW t \in Strategies, held' = held, RiskTypeOK
  PROVE  OrderWithinLoss(t)
<1>1. held \in [Strategies -> [Symbols -> Nat]]
  BY DEF RiskTypeOK
<1> QED
  BY <1>1 DEF OrderWithinLoss, Buys

LEMMA OrderLoss ==
  ASSUME RiskAndStopsOK, NEW s \in Strategies, NEW y \in Symbols, OrderAllowed(s, y),
         NEW t \in Strategies, LossKnown(t)
  PROVE  LossKnown(t)' /\ OrderWithinLoss(t) /\ risk' = risk
<1>1. RiskTypeOK
  BY DEF RiskAndStopsOK
<1>2. risk' = risk /\ StateOf(s) = risk[s]
  BY <1>1, KeepingEffect, StateIs DEF OrderAllowed
<1>3. UNCHANGED <<balance, lossToday, resetDay, day>>
  BY DEF OrderAllowed
<1>4. LossKnown(t)'
  BY <1>2, <1>3, LossKnownStays DEF SameBooks
<1>5. CASE t # s
  <2>1. held'[t] = held[t] /\ held \in [Strategies -> [Symbols -> Nat]]
    BY <1>1, <1>5 DEF OrderAllowed, RiskTypeOK
  <2>2. ~Buys(t)
    BY <2>1 DEF Buys
  <2> QED
    BY <1>2, <1>4, <2>2 DEF OrderWithinLoss
<1>6. CASE t = s
  <2>1. ~risk[t].over
    BY <1>2, <1>6 DEF OrderAllowed
  <2>2. balance[t] \in Int
    BY <1>1 DEF RiskTypeOK
  <2>3. balance[t] > 0 => ~Exceeds(lossToday[t], balance[t])
    BY <2>1, <2>2, LossLimit DEF LossKnown
  <2> QED
    BY <1>2, <1>4, <2>3 DEF OrderWithinLoss
<1> QED
  BY <1>5, <1>6

(* A strategy over the limit that is not killed yet is really over it.     *)
LEMMA OverTheLimit ==
  ASSUME RiskTypeOK, NEW t \in Strategies, LossKnown(t), risk[t].over, resetDay = day
  PROVE  Exceeds(lossToday[t], balance[t])
<1>1. lossToday[t] \in Int /\ balance[t] \in Int
  BY DEF RiskTypeOK
<1>2. lossToday[t] < balance[t]
  BY DEF LossKnown
<1>3. CASE balance[t] > 0
  BY <1>3 DEF LossKnown
<1>4. CASE ~(balance[t] > 0)
  <2>1. lossToday[t] < 0 /\ balance[t] <= 0
    BY <1>1, <1>2, <1>4
  <2> QED
    BY <1>1, <2>1, LossLimit
<1> QED
  BY <1>3, <1>4

LEMMA GuardedLoss ==
  ASSUME RiskAndStopsOK, GuardrailsStep, NEW t \in Strategies \ forgotten', LossKnown(t)
  PROVE  LossKnown(t)' /\ OrderWithinLoss(t) /\ KilledForLoss(t)
<1> DEFINE Goal == LossKnown(t)' /\ OrderWithinLoss(t) /\ KilledForLoss(t)
<1>1. RiskTypeOK /\ \A r \in Strategies : SameBooks(risk[r], risk[r])
  BY DEF RiskAndStopsOK, SameBooks
<1>2. ASSUME held' = held, SameBooks(risk'[t], risk[t]), risk'[t].kill => risk[t].kill,
             UNCHANGED <<balance, lossToday, resetDay, day>>
      PROVE  Goal
  BY <1>1, <1>2, NoOrder, LossKnownStays DEF KilledForLoss
<1>4. ASSUME NEW s \in Strategies, StrategyStep(s)
      PROVE  Goal
  <2>1. ASSUME NEW y \in Symbols, OrderAllowed(s, y) PROVE Goal
    BY <2>1, OrderLoss DEF KilledForLoss
  <2>2. ASSUME NEW y \in Symbols, OrderRefused(s, y) PROVE Goal
    <3>1. risk' = risk
      BY <1>1, <2>2, KeepingEffect DEF OrderRefused
    <3> HIDE DEF Goal
    <3> QED
      BY <1>1, <1>2, <2>2, <3>1 DEF OrderRefused, accountVars
  <2>3. ASSUME NEW y \in Symbols, Close(s, y) PROVE Goal
    <3>1. /\ risk' = risk /\ held' = [held EXCEPT ![s][y] = held[s][y] - 1]
          /\ UNCHANGED <<balance, lossToday, resetDay, day>>
      BY <2>3 DEF Close, serviceVars
    <3>2. held \in [Strategies -> [Symbols -> Nat]]
      BY <1>1 DEF RiskTypeOK
    <3>3. \A z \in Symbols : held'[t][z] <= held[t][z]
      BY <3>1, <3>2
    <3>4. ~Buys(t)
      BY <3>2, <3>3, <3>1 DEF Buys
    <3>5. LossKnown(t)'
      BY <1>1, <3>1, LossKnownStays
    <3> QED
      BY <3>1, <3>4, <3>5 DEF OrderWithinLoss, KilledForLoss
  <2>4. ASSUME OrderKills(s) PROVE Goal
    <3>1. /\ SameBooks(risk'[t], risk[t]) /\ (t # s => risk'[t] = risk[t])
          /\ StateOf(s) = risk[s]
      BY <1>1, <2>4, KillEffect, StateIs DEF OrderKills, SameBooks
    <3>2. held' = held /\ UNCHANGED <<balance, lossToday, resetDay, day>>
      BY <2>4 DEF OrderKills, accountVars
    <3>3. LossKnown(t)' /\ OrderWithinLoss(t)
      BY <1>1, <3>1, <3>2, NoOrder, LossKnownStays
    <3>4. KilledForLoss(t)
      <4>1. CASE t # s
        BY <3>1, <4>1 DEF KilledForLoss
      <4>2. CASE t = s
        <5>1. risk[t].over
          BY <2>4, <3>1, <4>2 DEF OrderKills
        <5>2. resetDay = day => Exceeds(lossToday[t], balance[t])
          BY <1>1, <5>1, OverTheLimit
        <5> QED
          BY <3>2, <5>2 DEF KilledForLoss, Exceeds
      <4> QED
        BY <4>1, <4>2
    <3> QED
      BY <3>3, <3>4
  <2>5. ASSUME ReportPositions(s) PROVE Goal
    <3>1. /\ risk'[t].pnl = risk[t].pnl /\ risk'[t].over = risk[t].over
          /\ risk'[t].kill = risk[t].kill
      BY <1>1, <2>5, ReportEffect
    <3>2. held' = held /\ UNCHANGED <<balance, lossToday, resetDay, day>>
      BY <2>5 DEF ReportPositions
    <3>3. LossKnown(t)'
      BY <3>1, <3>2 DEF LossKnown, Exceeds
    <3> QED
      BY <1>1, <3>1, <3>2, <3>3, NoOrder DEF KilledForLoss
  <2>6. ASSUME StaleTick(s) PROVE Goal
    <3>1. SameBooks(risk'[t], risk[t]) /\ risk'[t].kill = risk[t].kill
      BY <1>1, <2>6, PauseEffect DEF SameBooks
    <3> HIDE DEF Goal
    <3> QED
      BY <1>2, <2>6, <3>1 DEF StaleTick, accountVars
  <2>7. ASSUME NEW p \in Pnls, RecordPnl(s, p) PROVE Goal
    <3>1. held' = held
      BY <2>7 DEF RecordPnl
    <3> QED
      BY <1>1, <2>7, <3>1, NoOrder, RecordLoss DEF KilledForLoss
  <2>8. ASSUME Unregister(s) PROVE Goal
    <3>1. t # s
      BY <2>8 DEF Unregister
    <3>2. risk'[t] = risk[t]
      BY <1>1, <2>8, <3>1 DEF Unregister, RiskTypeOK
    <3> HIDE DEF Goal
    <3> QED
      BY <1>1, <1>2, <2>8, <3>2 DEF Unregister, accountVars
  <2> HIDE DEF Goal
  <2> QED
    BY <1>4, <2>1, <2>2, <2>3, <2>4, <2>5, <2>6, <2>7, <2>8 DEF StrategyStep, Order
<1>5. ASSUME NEW s \in Strategies, OperatorReleases(s)
      PROVE  Goal
  <2>1. SameBooks(risk'[t], risk[t]) /\ (risk'[t].kill => risk[t].kill)
    BY <1>1, <1>5, ReleaseEffect DEF OperatorReleases, SameBooks
  <2> HIDE DEF Goal
  <2> QED
    BY <1>2, <1>5, <2>1 DEF OperatorReleases, accountVars
<1>6. ASSUME Minute PROVE Goal
  <2>1. SameBooks(risk'[t], risk[t]) /\ risk'[t].kill = risk[t].kill
    BY <1>1, <1>6, MinuteEffect
  <2> HIDE DEF Goal
  <2> QED
    BY <1>2, <1>6, <2>1 DEF Minute, accountVars
<1>7. ASSUME Midnight PROVE Goal
  <2>1. /\ lossToday' = [r \in Strategies |-> 0] /\ resetDay' # day'
        /\ held' = held /\ risk' = risk
    BY <1>1, <1>7, MidnightTypeOK DEF Midnight, serviceVars
  <2>2. LossKnown(t)'
    BY <2>1 DEF LossKnown
  <2> QED
    BY <1>1, <2>1, <2>2, NoOrder DEF KilledForLoss
<1> HIDE DEF Goal
<1>8. Goal
  BY <1>4, <1>5, <1>6, <1>7 DEF GuardrailsStep, Clock
<1> QED
  BY <1>8 DEF Goal

-----------------------------------------------------------------------------
LEMMA StopsKillAlone ==
  ASSUME RiskAndStopsOK, Stop \/ ReleaseStop \/ ReleaseAll \/ Second \/ UNCHANGED stopVars,
         NEW t \in Strategies
  PROVE  IsEmergencyStopped(t) \/ active' # active \/ KilledForLoss(t)
<1>1. RiskTypeOK /\ StopTypeOK
  BY DEF RiskAndStopsOK
<1>2. ASSUME risk'[t].kill => risk[t].kill PROVE KilledForLoss(t)
  BY <1>2 DEF KilledForLoss
<1>3. ASSUME NEW ids \in SUBSET DOMAIN active, Release(ids)
      PROVE  KilledForLoss(t)
  <2>1. ReleaseSwitches(ids)
    BY <1>3 DEF Release
  <2>2. risk'[t].kill => risk[t].kill
    BY <2>1, SwitchesEffect
  <2> QED
    BY <1>2, <2>2
<1>4. ASSUME NEW s \in Strategies, StopStrategy(s)
      PROVE  IsEmergencyStopped(t) \/ active' # active \/ KilledForLoss(t)
  <2> DEFINE id == NewId("strategy")
  <2>1. CASE t # s
    <3>1. risk'[t] = risk[t]
      BY <1>1, <1>4, <2>1, KillEffect DEF StopStrategy, TriggerStrategyKill
    <3> QED
      BY <1>2, <3>1
  <2>2. CASE t = s
    <3>1. SUFFICES ASSUME active' = active PROVE IsEmergencyStopped(t)
      OBVIOUS
    <3>2. DOMAIN active' = DOMAIN active \union {id} /\ active'[id] = {s}
      <4>1. {s} \in SUBSET Strategies /\ Record(NewId("strategy"), {s})
        BY <1>4 DEF StopStrategy
      <4> QED
        BY <1>1, <4>1, RecordEntry
    <3> HIDE DEF id
    <3> QED
      BY <2>2, <3>1, <3>2 DEF IsEmergencyStopped
  <2> QED
    BY <2>1, <2>2
<1>5. CASE StopFull \/ StopMany("symbol") \/ StopMany("mode")
  BY <1>2, <1>5 DEF StopFull, StopMany
<1>6. CASE Second \/ UNCHANGED stopVars
  BY <1>2, <1>6 DEF Second, stopVars, riskVars, serviceVars
<1>7. CASE ReleaseStop
  <2>1. PICK id \in DOMAIN active : Release({id})
    BY <1>7 DEF ReleaseStop
  <2>2. {id} \in SUBSET DOMAIN active
    OBVIOUS
  <2> QED
    BY <1>3, <2>1, <2>2
<1>8. CASE ReleaseAll
  BY <1>3, <1>8 DEF ReleaseAll
<1> QED
  BY <1>4, <1>5, <1>6, <1>7, <1>8 DEF Stop

LEMMA LossStep ==
  ASSUME RiskAndStopsOK, LossesKnown, [StopNext]_stopVars, NEW t \in Strategies \ forgotten'
  PROVE  /\ LossKnown(t)' /\ OrderWithinLoss(t)
         /\ IsEmergencyStopped(t) \/ active' # active \/ KilledForLoss(t)
<1>1. CASE GuardrailsStep
  <2>1. forgotten \subseteq forgotten'
    BY <1>1, ForgottenGrows
  <2>2. LossKnown(t)
    BY <2>1 DEF LossesKnown
  <2> QED
    BY <1>1, <2>2, GuardedLoss
<1>2. CASE Stop \/ ReleaseStop \/ ReleaseAll \/ Second \/ UNCHANGED stopVars
  <2>1. /\ \A r \in Strategies : SameBooks(risk'[r], risk[r])
        /\ UNCHANGED <<held, balance, lossToday, resetDay, day, forgotten>>
    BY <1>2, StopsKeepBooks
  <2>2. LossKnown(t)
    BY <2>1 DEF LossesKnown
  <2>3. LossKnown(t)'
    BY <2>1, <2>2, LossKnownStays
  <2> QED
    BY <1>2, <2>1, <2>3, NoOrder, StopsKillAlone DEF RiskAndStopsOK
<1> QED
  BY <1>1, <1>2 DEF StopNext

(* A strategy that is being deactivated neither buys nor is killed.        *)
LEMMA ForgettingStep ==
  ASSUME RiskAndStopsOK, [StopNext]_stopVars, NEW t \in Strategies \ forgotten, t \in forgotten'
  PROVE  OrderWithinLoss(t) /\ KilledForLoss(t)
<1>1. RiskTypeOK
  BY DEF RiskAndStopsOK
<1>2. forgotten' # forgotten
  OBVIOUS
<1>3. GuardrailsStep
  BY <1>2, StopsKeepBooks DEF StopNext
<1>4. \E s \in Strategies : Unregister(s)
  BY <1>2, <1>3 DEF GuardrailsStep, Clock, Minute, Midnight, OperatorReleases, StrategyStep, Order,
                OrderAllowed, OrderRefused, OrderKills, Close, ReportPositions, StaleTick,
                RecordPnl
<1>5. PICK s \in Strategies : Unregister(s)
  BY <1>4
<1>6. held' = held /\ t = s
  BY <1>5 DEF Unregister, accountVars
<1>7. risk'[t] = NewState
  BY <1>1, <1>5, <1>6 DEF Unregister, RiskTypeOK
<1> QED
  BY <1>1, <1>6, <1>7, NoOrder, NewStateIs DEF KilledForLoss

(* record_pnl and check_order_allowed: no order beyond the daily loss limit*)
(* and no kill short of it, whatever days, stops and releases come between.*)
THEOREM LossLimitAlwaysHolds == StopSpec => LossLimitHolds
<1>1. RiskAndStopsOK /\ LossesKnown /\ [StopNext]_stopVars => LossesKnown'
  BY LossStep DEF LossesKnown
<1>2. RiskAndStopsOK /\ LossesKnown /\ [StopNext]_stopVars =>
        \A s \in Strategies \ forgotten :
          OrderWithinLoss(s) /\ (IsEmergencyStopped(s) \/ active' # active \/ KilledForLoss(s))
  BY LossStep, ForgettingStep
<1> QED
  BY <1>1, <1>2, LossInit, TypeCorrect, PTL DEF StopSpec, LossLimitHolds
-----------------------------------------------------------------------------
(* Stops and switches.                                                     *)
SwitchesBehindStops ==
  /\ \A id \in DOMAIN active \ shaken : id.level = "full" => globalKill
  /\ \A id \in DOMAIN active \ shaken : \A s \in active[id] \ forgotten :
       id.level = "strategy" => risk[s].kill

StoppedByName(s) == \E id \in DOMAIN active : id.level = "strategy" /\ s \in active[id]

StopsBehindSwitches ==
  /\ globalKill => \E id \in DOMAIN active : id.level = "full"
  /\ trades = 0 => \A s \in Strategies :
       ~risk[s].over /\ (risk[s].kill => s \in orphaned \/ StoppedByName(s))

LEMMA SwitchesInit == StopInit => SwitchesBehindStops /\ StopsBehindSwitches
<1> SUFFICES ASSUME StopInit PROVE SwitchesBehindStops /\ StopsBehindSwitches
  OBVIOUS
<1>1. active = <<>> /\ globalKill = FALSE /\ risk = [t \in Strategies |-> NewState]
  BY DEF StopInit, RiskInit
<1>2. DOMAIN active = {}
  BY <1>1
<1>3. \A t \in Strategies : ~risk[t].over /\ ~risk[t].kill
  BY <1>1, NewStateIs
<1> QED
  BY <1>1, <1>2, <1>3 DEF SwitchesBehindStops, StopsBehindSwitches

LEMMA GuardedSwitches ==
  ASSUME RiskAndStopsOK, GuardrailsStep, SwitchesBehindStops, StopsBehindSwitches
  PROVE  SwitchesBehindStops' /\ StopsBehindSwitches'
<1> DEFINE Goal == SwitchesBehindStops' /\ StopsBehindSwitches'
<1>1. RiskTypeOK /\ StopTypeOK
  BY DEF RiskAndStopsOK
<1>2. UNCHANGED <<active, shaken, orphaned, globalKill>>
  BY DEF GuardrailsStep, Clock, Minute, Midnight, OperatorReleases, StrategyStep, Order,
                OrderAllowed, OrderRefused, OrderKills, Close, ReportPositions, StaleTick,
                RecordPnl, Unregister, serviceVars
<1>a. \A id \in DOMAIN active : active[id] \subseteq Strategies
  BY <1>1 DEF StopTypeOK
<1>3. ASSUME \A t \in Strategies \ forgotten' : risk[t].kill => risk'[t].kill,
             forgotten \subseteq forgotten',
             trades' = 0 => trades = 0 /\ \A t \in Strategies :
               ~risk'[t].over /\ (risk'[t].kill => risk[t].kill)
      PROVE  Goal
  <2>1. SwitchesBehindStops'
    BY <1>2, <1>3, <1>a DEF SwitchesBehindStops
  <2>2. StopsBehindSwitches'
    BY <1>2, <1>3 DEF StopsBehindSwitches, StoppedByName
  <2> QED
    BY <2>1, <2>2
<1>b. trades = 0 => \A t \in Strategies : ~risk[t].over
  BY DEF StopsBehindSwitches
<1>4. ASSUME NEW s \in Strategies, StrategyStep(s)
      PROVE  Goal
  <2>1. ASSUME NEW y \in Symbols, Order(s, y) PROVE Goal
    <3>1. risk' = risk /\ UNCHANGED <<trades, forgotten>>
      BY <1>1, <2>1, KeepingEffect DEF Order, OrderAllowed, OrderRefused, accountVars
    <3> HIDE DEF Goal
    <3> QED
      BY <1>3, <1>b, <3>1
  <2>3. ASSUME NEW y \in Symbols, Close(s, y) PROVE Goal
    <3>1. risk' = risk /\ UNCHANGED <<trades, forgotten>>
      BY <2>3 DEF Close, serviceVars
    <3> HIDE DEF Goal
    <3> QED
      BY <1>3, <1>b, <3>1
  <2>4. ASSUME OrderKills(s) PROVE Goal
    <3>1. risk[s].over /\ UNCHANGED <<trades, forgotten>>
      BY <1>1, <2>4, StateIs DEF OrderKills, accountVars
    <3>2. trades # 0
      BY <1>b, <3>1
    <3>3. \A t \in Strategies : risk[t].kill => risk'[t].kill
      BY <1>1, <2>4, KillEffect DEF OrderKills
    <3> HIDE DEF Goal
    <3> QED
      BY <1>3, <3>1, <3>2, <3>3
  <2>5. ASSUME ReportPositions(s) PROVE Goal
    <3>1. UNCHANGED <<trades, forgotten>>
      BY <2>5 DEF ReportPositions
    <3>2. \A t \in Strategies : risk'[t].kill = risk[t].kill /\ risk'[t].over = risk[t].over
      BY <1>1, <2>5, ReportEffect
    <3> HIDE DEF Goal
    <3> QED
      BY <1>3, <1>b, <3>1, <3>2
  <2>6. ASSUME StaleTick(s) PROVE Goal
    <3>1. UNCHANGED <<trades, forgotten>>
      BY <2>6 DEF StaleTick, accountVars
    <3>2. \A t \in Strategies : risk'[t].kill = risk[t].kill /\ risk'[t].over = risk[t].over
      BY <1>1, <2>6, PauseEffect DEF SameBooks
    <3> HIDE DEF Goal
    <3> QED
      BY <1>3, <1>b, <3>1, <3>2
  <2>7. ASSUME NEW p \in Pnls, RecordPnl(s, p) PROVE Goal
    <3>1. trades' # 0 /\ forgotten' = forgotten
      BY <1>1, <2>7 DEF RecordPnl, RiskTypeOK
    <3>2. \A t \in Strategies : risk[t].kill => risk'[t].kill
      BY <1>1, <2>7, PnlsAreIntegers, RecordEffect, ResetEffect
    <3> HIDE DEF Goal
    <3> QED
      BY <1>3, <3>1, <3>2
  <2>8. ASSUME Unregister(s) PROVE Goal
    <3>1. UNCHANGED trades /\ forgotten' = forgotten \union {s}
      BY <2>8 DEF Unregister, accountVars
    <3>2. risk'[s] = NewState /\ \A t \in Strategies \ {s} : risk'[t] = risk[t]
      BY <1>1, <2>8 DEF Unregister, RiskTypeOK
    <3>3. ~risk'[s].kill /\ ~risk'[s].over
      BY <3>2, NewStateIs
    <3> HIDE DEF Goal
    <3> QED
      BY <1>3, <1>b, <3>1, <3>2, <3>3
  <2> HIDE DEF Goal
  <2> QED
    BY <1>4, <2>1, <2>3, <2>4, <2>5, <2>6, <2>7, <2>8 DEF StrategyStep
<1>5. ASSUME NEW s \in Strategies, active = <<>>, OperatorReleases(s)
      PROVE  Goal
  <2>1. DOMAIN active' = {} /\ DOMAIN active = {}
    BY <1>2, <1>5
  <2>2. UNCHANGED trades
    BY <1>5 DEF OperatorReleases, accountVars
  <2>3. \A t \in Strategies : risk'[t].over = risk[t].over /\ (risk'[t].kill => risk[t].kill)
    BY <1>1, <1>5, ReleaseEffect DEF OperatorReleases, SameBooks
  <2>4. SwitchesBehindStops'
    BY <2>1 DEF SwitchesBehindStops
  <2>5. StopsBehindSwitches'
    BY <1>2, <2>2, <2>3 DEF StopsBehindSwitches, StoppedByName
  <2> QED
    BY <2>4, <2>5
<1>6. ASSUME Minute PROVE Goal
  <2>1. UNCHANGED <<trades, forgotten>>
    BY <1>6 DEF Minute, accountVars
  <2>2. \A t \in Strategies : risk'[t].kill = risk[t].kill /\ risk'[t].over = risk[t].over
    BY <1>1, <1>6, MinuteEffect DEF SameBooks
  <2> HIDE DEF Goal
  <2> QED
    BY <1>3, <1>b, <2>1, <2>2
<1>7. ASSUME Midnight PROVE Goal
  <2>1. risk' = risk /\ UNCHANGED <<trades, forgotten>>
    BY <1>7 DEF Midnight, serviceVars
  <2> HIDE DEF Goal
  <2> QED
    BY <1>3, <1>b, <2>1
<1> HIDE DEF Goal
<1>8. Goal
  BY <1>4, <1>5, <1>6, <1>7 DEF GuardrailsStep, Clock
<1> QED
  BY <1>8 DEF Goal

LEMMA StopSwitches ==
  ASSUME RiskAndStopsOK, Stop, SwitchesBehindStops, StopsBehindSwitches
  PROVE  SwitchesBehindStops' /\ StopsBehindSwitches'
<1>1. RiskTypeOK /\ StopTypeOK /\ registered \subseteq Strategies
  BY DEF RiskAndStopsOK, RiskTypeOK
<1>2. UNCHANGED <<trades, forgotten>> /\ \A t \in Strategies : SameBooks(risk'[t], risk[t])
  BY StopsKeepBooks
<1>3. CASE StopFull
  <2> DEFINE id == NewId("full")
  <2>1. /\ id.level = "full"
        /\ DOMAIN active' = DOMAIN active \union {id}
        /\ \A i \in DOMAIN active \ {id} : active'[i] = active[i]
        /\ shaken' = shaken \ {id} /\ orphaned' = orphaned
    BY ZenonT(30), <1>1, <1>3, RecordEntry DEF StopFull
  <2>2. globalKill' = TRUE /\ risk' = risk
    BY <1>3 DEF StopFull, TriggerGlobalKill
  <2> HIDE DEF id
  <2>3. SwitchesBehindStops'
    BY <1>2, <2>1, <2>2 DEF SwitchesBehindStops
  <2>4. StopsBehindSwitches'
    BY <1>2, <2>1, <2>2 DEF StopsBehindSwitches, StoppedByName
  <2> QED
    BY <2>3, <2>4
<1>4. ASSUME NEW s \in Strategies, StopStrategy(s)
      PROVE  SwitchesBehindStops' /\ StopsBehindSwitches'
  <2> DEFINE id == NewId("strategy")
  <2>1. /\ id.level = "strategy"
        /\ DOMAIN active' = DOMAIN active \union {id}
        /\ active'[id] = {s}
        /\ \A i \in DOMAIN active \ {id} : active'[i] = active[i]
        /\ shaken' = shaken \ {id}
        /\ orphaned' = (orphaned \union Recorded(id)) \ {s}
    <3>1. {s} \in SUBSET Strategies /\ Record(NewId("strategy"), {s})
      BY <1>4 DEF StopStrategy
    <3> QED
      BY <1>1, <3>1, RecordEntry
  <2>2. /\ globalKill' = globalKill
        /\ risk'[s].kill /\ \A t \in Strategies \ {s} : risk'[t] = risk[t]
    BY <1>1, <1>4, KillEffect DEF StopStrategy, TriggerStrategyKill
  <2>3. id \in DOMAIN active => Recorded(id) = active[id]
    BY DEF Recorded
  <2>a. \A i \in DOMAIN active : active[i] \subseteq Strategies
    BY <1>1 DEF StopTypeOK
  <2> HIDE DEF id
  <2>4. SwitchesBehindStops'
    BY <1>2, <2>1, <2>2, <2>a DEF SwitchesBehindStops
  <2>5. globalKill' => \E i \in DOMAIN active' : i.level = "full"
    BY <2>1, <2>2 DEF StopsBehindSwitches
  <2>6. ASSUME trades' = 0, NEW t \in Strategies
        PROVE  ~risk'[t].over /\ (risk'[t].kill => t \in orphaned' \/ StoppedByName(t)')
    <3>1. ~risk'[t].over
      BY <1>2, <2>6 DEF StopsBehindSwitches, SameBooks
    <3>2. CASE t = s
      BY <2>1, <3>1, <3>2 DEF StoppedByName
    <3>3. CASE t # s
      <4>1. SUFFICES ASSUME risk[t].kill, t \notin orphaned PROVE t \in orphaned' \/ StoppedByName(t)'
        BY <2>1, <2>2, <3>1, <3>3
      <4>2. PICK i \in DOMAIN active : i.level = "strategy" /\ t \in active[i]
        BY <1>2, <2>6, <4>1 DEF StopsBehindSwitches, StoppedByName
      <4>3. CASE i = id
        BY <2>1, <2>3, <3>3, <4>2, <4>3
      <4>4. CASE i # id
        BY <2>1, <4>2, <4>4 DEF StoppedByName
      <4> QED
        BY <4>3, <4>4
    <3> QED
      BY <3>2, <3>3
  <2>7. StopsBehindSwitches'
    BY <2>5, <2>6 DEF StopsBehindSwitches
  <2> QED
    BY <2>4, <2>7
<1>5. ASSUME NEW level \in {"symbol", "mode"}, StopMany(level)
      PROVE  SwitchesBehindStops' /\ StopsBehindSwitches'
  <2> DEFINE id == NewId(level)
  <2>1. /\ id.level = level
        /\ DOMAIN active' = DOMAIN active \union {id}
        /\ \A i \in DOMAIN active \ {id} : active'[i] = active[i]
        /\ shaken' = shaken \ {id} /\ orphaned' = orphaned
    <3>1. level # "strategy" /\ level \in {"full", "strategy", "symbol", "mode"}
      OBVIOUS
    <3>2. registered \in SUBSET Strategies /\ Record(NewId(level), registered)
      BY <1>1, <1>5 DEF StopMany
    <3> QED
      BY <1>1, <3>1, <3>2, RecordEntry
  <2>2. globalKill' = globalKill /\ risk' = risk
    BY <1>5 DEF StopMany
  <2> HIDE DEF id
  <2>3. SwitchesBehindStops'
    BY <1>2, <2>1, <2>2 DEF SwitchesBehindStops
  <2>4. StopsBehindSwitches'
    BY <1>2, <2>1, <2>2 DEF StopsBehindSwitches, StoppedByName
  <2> QED
    BY <2>3, <2>4
<1> QED
  BY <1>3, <1>4, <1>5 DEF Stop

LEMMA ReleaseKeepsSwitches ==
  ASSUME RiskAndStopsOK, NEW ids \in SUBSET DOMAIN active, Release(ids),
         SwitchesBehindStops, StopsBehindSwitches
  PROVE  SwitchesBehindStops' /\ StopsBehindSwitches'
<1>1. RiskTypeOK /\ StopTypeOK
  BY DEF RiskAndStopsOK
<1>2. /\ DOMAIN active' = DOMAIN active \ ids
      /\ \A i \in DOMAIN active \ ids : active'[i] = active[i]
  BY <1>1, ReleaseEntry
<1>3. /\ shaken' = {k \in DOMAIN active \ ids : k \in shaken \/ Shaken(k, ids)}
      /\ orphaned' = orphaned \ Freed(ids)
      /\ ReleaseSwitches(ids) /\ UNCHANGED <<trades, forgotten>>
  BY DEF Release, StopUnchanged, accountVars
<1>4. /\ Freed(ids) \subseteq Strategies
      /\ \A t \in Freed(ids) : ~risk'[t].kill /\ SameBooks(risk'[t], risk[t])
      /\ \A t \in Strategies \ Freed(ids) : risk'[t] = risk[t]
  BY <1>3, SwitchesEffect
<1>5. /\ (\E id \in ids : id.level = "full") => globalKill' = FALSE
      /\ ~(\E id \in ids : id.level = "full") => globalKill' = globalKill
  BY <1>3 DEF ReleaseSwitches, ReleaseGlobalKill
<1>a. \A i \in DOMAIN active : active[i] \subseteq Strategies
  BY <1>1 DEF StopTypeOK
<1>6. \A id \in DOMAIN active' \ shaken' : id.level = "full" => globalKill'
  BY <1>2, <1>3, <1>5 DEF Shaken, SwitchesBehindStops
<1>7. ASSUME NEW id \in DOMAIN active' \ shaken', id.level = "strategy",
             NEW s \in active'[id] \ forgotten'
      PROVE  risk'[s].kill
  <2>1. id \in DOMAIN active \ shaken /\ ~Shaken(id, ids) /\ s \in active[id]
    BY <1>2, <1>3, <1>7
  <2>2. s \notin Freed(ids)
    BY <1>7, <2>1 DEF Shaken
  <2>3. risk[s].kill /\ s \in Strategies
    BY <1>3, <1>7, <1>a, <2>1 DEF SwitchesBehindStops
  <2> QED
    BY <1>4, <2>2, <2>3
<1>8. SwitchesBehindStops'
  BY <1>6, <1>7 DEF SwitchesBehindStops
<1>9. globalKill' => \E id \in DOMAIN active' : id.level = "full"
  BY <1>2, <1>5 DEF StopsBehindSwitches
<1>10. ASSUME trades' = 0, NEW t \in Strategies
       PROVE  ~risk'[t].over /\ (risk'[t].kill => t \in orphaned' \/ StoppedByName(t)')
  <2>1. ~risk[t].over /\ (risk[t].kill => t \in orphaned \/ StoppedByName(t))
    BY <1>3, <1>10 DEF StopsBehindSwitches
  <2>2. CASE t \in Freed(ids)
    BY <1>4, <2>1, <2>2 DEF SameBooks
  <2>3. CASE t \notin Freed(ids)
    <3>1. risk'[t] = risk[t] /\ (t \in orphaned => t \in orphaned')
      BY <1>3, <1>4, <2>3
    <3>2. ASSUME StoppedByName(t) PROVE StoppedByName(t)'
      <4>1. PICK i \in DOMAIN active : i.level = "strategy" /\ t \in active[i]
        BY <3>2 DEF StoppedByName
      <4>2. i \notin ids
        BY <2>3, <4>1 DEF Freed
      <4> QED
        BY <1>2, <4>1, <4>2 DEF StoppedByName
    <3> QED
      BY <2>1, <3>1, <3>2
  <2> QED
    BY <2>2, <2>3
<1>11. StopsBehindSwitches'
  BY <1>9, <1>10 DEF StopsBehindSwitches
<1> QED
  BY <1>8, <1>11

SwitchInv == RiskAndStopsOK /\ SwitchesBehindStops /\ StopsBehindSwitches

LEMMA SwitchStep == SwitchInv /\ [StopNext]_stopVars => SwitchInv'
<1> SUFFICES ASSUME SwitchInv, [StopNext]_stopVars
             PROVE  SwitchesBehindStops' /\ StopsBehindSwitches'
  BY StepTypeOK DEF SwitchInv
<1>1. CASE Second \/ UNCHANGED stopVars
  BY <1>1 DEF Second, stopVars, riskVars, serviceVars, accountVars, SwitchInv,
              SwitchesBehindStops, StopsBehindSwitches, StoppedByName
<1>2. CASE ReleaseStop
  <2>1. PICK id \in DOMAIN active : Release({id})
    BY <1>2 DEF ReleaseStop
  <2>2. {id} \in SUBSET DOMAIN active
    OBVIOUS
  <2> QED
    BY <2>1, <2>2, ReleaseKeepsSwitches DEF SwitchInv
<1>3. CASE ReleaseAll
  BY <1>3, ReleaseKeepsSwitches DEF ReleaseAll, SwitchInv
<1> QED
  BY <1>1, <1>2, <1>3, StopSwitches, GuardedSwitches DEF StopNext, SwitchInv

LEMMA SwitchesTell == SwitchInv => StopsTellKills
<1> SUFFICES ASSUME SwitchInv PROVE StopsTellKills
  OBVIOUS
<1>1. RiskTypeOK /\ StopTypeOK
  BY DEF SwitchInv, RiskAndStopsOK
<1>2. \A s \in Strategies : StateOf(s) = risk[s]
  BY <1>1, StateIs
<1>3. \A i \in DOMAIN active : active[i] \subseteq Strategies
  BY <1>1 DEF StopTypeOK
<1>4. StoppedMayNotTrade
  BY <1>2, <1>3 DEF StoppedMayNotTrade, NotStopped, SwitchInv, SwitchesBehindStops
<1>5. EveryKillHasItsStop
  BY <1>2 DEF EveryKillHasItsStop, IsEmergencyStopped, SwitchInv, StopsBehindSwitches, StoppedByName
<1> QED
  BY <1>4, <1>5 DEF StopsTellKills

(* emergency_stop and release_stop: an active stop keeps its strategies    *)
(* from trading, and no switch stays without a stop.                       *)
THEOREM StopsAlwaysTellKills == StopSpec => []StopsTellKills
<1>1. StopInit => SwitchInv
  BY StopInitTypeOK, SwitchesInit DEF SwitchInv
<1> QED
  BY <1>1, SwitchStep, SwitchesTell, PTL DEF StopSpec

-----------------------------------------------------------------------------
(***************************************************************************)
(* What holds of the orders for any number of calls, requests and retries  *)
(* and whatever the exchange's rules.                                      *)
(*                                                                         *)
(* No order is lost sight of (OrdersAccountedFor): a call that is creating *)
(* an order looked the client id up before its first await, so an order of *)
(* that id the table knows by now was placed by a call that overlapped it  *)
(* (Guarded).                                                              *)
(*                                                                         *)
(* The table tells the truth (TableTellsTheExchange): a status that is     *)
(* final at the exchange stays, an object keeps the names of its order,    *)
(* and a call in flight was told what was so (Told).                       *)
(*                                                                         *)
(* The exchange holds what was asked for (WithinTheRequest): the rounding  *)
(* of either layer is bounded (ClientRounds, EngineRounds), a cache holds  *)
(* the exchange's rules or the defaults, and each of the two adjustments   *)
(* is made once at most (Wanted).                                          *)
(***************************************************************************)
CallJob ==
  [at : Normalizes \union Creates, request : Requests, qty : Int, price : Int,
   sentQty : Int, sentPrice : Int, adjusts : Nat, attempt : Nat,
   number : Nat, status : {"NEW", "FILLED"}]

Statuses == {"NEW", "FILLED", "CANCELED"}

MarketOrder == [request : Requests, status : Statuses, qty : Int, price : Int]

RulesTyped ==
  /\ rules \in Filters
  /\ clientRules \in Filters \union {None}
  /\ engineRules \in Filters \union {None}

JobsTyped ==
  /\ DOMAIN job = Tasks
  /\ \A t \in Tasks : IsPlacing(job[t]) => job[t] \in CallJob

OrderObject == [cid : ClientIds, number : Nat, id : Nat, status : Statuses]

TablesTyped ==
  /\ market \in Seq(MarketOrder)
  /\ objects \in Seq(OrderObject)
  /\ \A n : <<"ext", n>> \in DOMAIN orders => n \in DOMAIN market

(* The order a call is being told of is its own.                           *)
TellsOwn ==
  \A t \in Tasks :
    job[t].at = "placed" =>
      /\ job[t].number \in DOMAIN market
      /\ market[job[t].number].request = job[t].request

Accounted ==
  \A n \in DOMAIN market :
    \/ <<"ext", n>> \in DOMAIN orders
    \/ n \in lost
    \/ \E t \in Tasks : At(t, "placed") /\ job[t].number = n

KnownByBoth ==
  \A n \in DOMAIN market :
    <<"ext", n>> \in DOMAIN orders => <<"cid", market[n].request.cid>> \in DOMAIN orders

OverlapSeen ==
  \A t, u \in Tasks :
    (t # u /\ IsPlacing(job[t]) /\ IsPlacing(job[u])
       /\ job[t].request.cid = job[u].request.cid)
      => job[t].request.cid \in overlapped

(* What a call that passed the lookup may find of its client id.           *)
Guarded ==
  \A t \in Tasks : \A n \in DOMAIN market :
    (job[t].at \in Creates /\ market[n].request.cid = job[t].request.cid) =>
      \/ n \in lost
      \/ job[t].request.cid \in overlapped
      \/ At(t, "placed") /\ job[t].number = n

OneEach ==
  \A m, n \in DOMAIN market :
    (m # n /\ market[m].request.cid = market[n].request.cid) =>
      {m, n} \intersect lost # {} \/ market[n].request.cid \in overlapped

CancelJob == [at : {"cancel", "canceled"}, object : DOMAIN objects]

AskJob ==
  [at : {"ask", "told"}, key : DOMAIN orders, object : DOMAIN objects, status : Statuses]

(* What a refresh replaces is there already: it adds no key.               *)
RefreshesKnown ==
  /\ \A o \in DOMAIN objects : <<"ext", objects[o].number>> \in DOMAIN orders
  /\ \A key \in DOMAIN orders : orders[key] \in DOMAIN objects
  /\ \A t \in Tasks :
       /\ job[t].at \in {"cancel", "canceled"} => job[t] \in CancelJob
       /\ job[t].at \in {"ask", "told"} => job[t] \in AskJob

Inv ==
  /\ RulesTyped /\ JobsTyped /\ TablesTyped
  /\ TellsOwn /\ Accounted /\ KnownByBoth /\ OverlapSeen /\ Guarded /\ OneEach
  /\ RefreshesKnown

Core ==
  /\ JobsTyped /\ TellsOwn /\ Accounted /\ KnownByBoth /\ OverlapSeen
  /\ Guarded /\ OneEach

-----------------------------------------------------------------------------
(* The rounding keeps integers integers.                                   *)
LEMMA RoundTyped ==
  ASSUME NEW x \in Int, NEW unit \in Nat \ {0}
  PROVE  RoundDown(x, unit) \in Int /\ RoundHalfUp(x, unit) \in Int
<1>1. x % unit \in Int /\ (2 * x + unit) % (2 * unit) \in Int
  OBVIOUS
<1> QED
  BY <1>1 DEF RoundDown, RoundHalfUp

LEMMA FiltersTyped ==
  ASSUME NEW f \in Filters, NEW qty \in Int, NEW price \in Int, NEW type \in Types
  PROVE  /\ ClientQty(f, qty, type) \in Int /\ ClientPrice(f, price) \in Int
         /\ EngineQty(f, qty, type) \in Int /\ EnginePrice(f, price) \in Int
<1>1. /\ f.lot[type] \in Nat \ {0} /\ f.tick \in Nat \ {0}
      /\ f.minQty[type] \in Nat /\ f.maxQty[type] \in Nat
      /\ f.minPrice \in Nat /\ f.maxPrice \in Nat
  BY DEF Filters
<1>2. /\ RoundDown(qty, f.lot[type]) \in Int
      /\ RoundHalfUp(price, f.tick) \in Int
  BY <1>1, RoundTyped
<1> QED
  BY <1>1, <1>2 DEF ClientQty, ClientPrice, EngineQty, EnginePrice, Clamp, NoPrice

LEMMA AdjustTyped ==
  ASSUME NEW x \in Int, NEW refusal, NEW side
  PROVE  AdjustPrice(x, refusal, side) \in Int /\ AdjustQty(x, refusal) \in Int
BY DEF AdjustPrice, AdjustQty, Up, Down

LEMMA DefaultsTyped == ClientDefaults \in Filters /\ EngineDefaults \in Filters
<1>1. ASSUME NEW notional \in Nat PROVE Defaults(notional) \in Filters
  BY FilterAssumption DEF Defaults, Filters, NotionalFilters
<1> QED
  BY <1>1, FilterAssumption DEF ClientDefaults, EngineDefaults

LEMMA PrintedTyped ==
  ASSUME NEW f \in Filters
  PROVE  AsPrinted(f) \in Filters
<1> DEFINE g == [f EXCEPT !.lot = [type \in Types |-> 1]]
<1>1. g \in Filters
  BY DEF Filters
<1>2. [g EXCEPT !.tick = 1] \in Filters
  <2> HIDE DEF g
  <2> QED BY <1>1 DEF Filters
<1>3. AsPrinted(f) = [g EXCEPT !.tick = 1]
  BY DEF AsPrinted
<1> QED
  BY <1>2, <1>3

LEMMA ClientReadsTyped ==
  ASSUME NEW f \in Filters
  PROVE  /\ ClientReads(f) \in Filters
         /\ ClientReads(f).tick = f.tick /\ ClientReads(f).lot = f.lot
BY DEF ClientReads, Filters

(* What a call becomes: over, or in the loop of create_order.              *)
Becoming(j) ==
  {Idle} \union {k \in CallJob : k.request = j.request /\ k.at \in {"rules", "sent", "pause"}}

LEMMA FailingLemma ==
  ASSUME NEW j \in CallJob
  PROVE  Failing(j) \in Becoming(j)
<1>1. CASE j.attempt < MaxRetries
  <2> DEFINE g == [j EXCEPT !.at = "pause"]
  <2>1. g \in CallJob /\ g.at = "pause" /\ g.request = j.request /\ g.attempt = j.attempt
    BY DEF CallJob, Normalizes, Creates
  <2>2. j.attempt + 1 \in Nat
    BY DEF CallJob
  <2>3. /\ [g EXCEPT !.attempt = j.attempt + 1] \in CallJob
        /\ [g EXCEPT !.attempt = j.attempt + 1].at = "pause"
        /\ [g EXCEPT !.attempt = j.attempt + 1].request = j.request
    <3> HIDE DEF g
    <3> QED BY <2>1, <2>2 DEF CallJob
  <2>4. Failing(j) = [g EXCEPT !.attempt = j.attempt + 1]
    BY <1>1 DEF Failing
  <2> HIDE DEF g
  <2> QED BY <2>3, <2>4 DEF Becoming
<1>2. CASE ~ (j.attempt < MaxRetries)
  BY <1>2 DEF Failing, Becoming
<1> QED
  BY <1>1, <1>2

LEMMA SendingLemma ==
  ASSUME NEW j \in CallJob, NEW f \in Filters
  PROVE  Sending(j, f) \in Becoming(j)
<1> DEFINE qty   == ClientQty(f, j.qty, j.request.type)
           price == ClientPrice(f, j.price)
           g     == [j EXCEPT !.at = "sent"]
           h     == [g EXCEPT !.sentQty = qty]
           k     == [h EXCEPT !.sentPrice = price]
<1>1. j.qty \in Int /\ j.price \in Int /\ j.request.type \in Types
  BY LiveOrdersAssumption DEF CallJob
<1>2. qty \in Int /\ price \in Int
  BY <1>1, FiltersTyped
<1>3. g \in CallJob /\ g.at = "sent" /\ g.request = j.request
  BY DEF CallJob, Creates
<1> HIDE DEF g, qty, price
<1>4. h \in CallJob /\ h.at = "sent" /\ h.request = j.request
  BY <1>2, <1>3 DEF CallJob
<1> HIDE DEF h
<1>5. k \in CallJob /\ k.at = "sent" /\ k.request = j.request
  BY <1>2, <1>4 DEF CallJob
<1>6. Sending(j, f) = k \/ Sending(j, f) = Failing(j)
  BY DEF Sending, k, h, g, qty, price
<1> HIDE DEF k
<1> QED
  BY <1>5, <1>6, FailingLemma DEF Becoming

LEMMA CreatingLemma ==
  ASSUME RulesTyped, NEW j \in CallJob
  PROVE  Creating(j) \in Becoming(j)
<1>1. CASE clientRules = None
  <2> DEFINE g == [j EXCEPT !.at = "rules"]
  <2>1. g \in CallJob /\ g.at = "rules" /\ g.request = j.request
    BY DEF CallJob, Creates
  <2>2. Creating(j) = g
    BY <1>1 DEF Creating
  <2> HIDE DEF g
  <2> QED BY <2>1, <2>2 DEF Becoming
<1>2. CASE clientRules # None
  BY <1>2, SendingLemma DEF Creating, RulesTyped
<1> QED
  BY <1>1, <1>2

(* place_order goes on only with a client id the table does not know.      *)
LEMMA OfferingLemma ==
  ASSUME RulesTyped, NEW j \in CallJob
  PROVE  /\ Offering(j) \in Becoming(j)
         /\ Offering(j) # Idle => <<"cid", j.request.cid>> \notin DOMAIN orders
BY CreatingLemma DEF Offering, Becoming

LEMMA AdjustingLemma ==
  ASSUME NEW j \in CallJob, NEW refusal
  PROVE  \/ Adjusting(j, refusal) = Idle
         \/ /\ Adjusting(j, refusal) \in CallJob
            /\ Adjusting(j, refusal).at = "adjust"
            /\ Adjusting(j, refusal).request = j.request
<1> DEFINE adjusts == j.adjusts + 1
           price == IF j.adjusts = 0 /\ j.price # NoPrice
                    THEN AdjustPrice(j.price, refusal, j.request.side) ELSE j.price
           qty   == IF j.adjusts = 1 THEN AdjustQty(j.qty, refusal) ELSE j.qty
           g     == [j EXCEPT !.at = "adjust"]
           h     == [g EXCEPT !.adjusts = adjusts]
           k     == [h EXCEPT !.price = price]
           l     == [k EXCEPT !.qty = qty]
<1>1. j.qty \in Int /\ j.price \in Int /\ adjusts \in Nat
  BY DEF CallJob
<1>2. price \in Int /\ qty \in Int
  BY <1>1, AdjustTyped
<1>3. g \in CallJob /\ g.at = "adjust" /\ g.request = j.request
  BY DEF CallJob, Normalizes
<1> HIDE DEF g, qty, price, adjusts
<1>4. h \in CallJob /\ h.at = "adjust" /\ h.request = j.request
  BY <1>1, <1>3 DEF CallJob
<1> HIDE DEF h
<1>5. k \in CallJob /\ k.at = "adjust" /\ k.request = j.request
  BY <1>2, <1>4 DEF CallJob
<1> HIDE DEF k
<1>6. l \in CallJob /\ l.at = "adjust" /\ l.request = j.request
  BY <1>2, <1>5 DEF CallJob
<1>7. Adjusting(j, refusal) = l \/ Adjusting(j, refusal) = Idle
  BY DEF Adjusting, l, k, h, g, qty, price, adjusts
<1> HIDE DEF l
<1> QED
  BY <1>6, <1>7

LEMMA NormalizedLemma ==
  ASSUME NEW j \in CallJob, NEW f \in Filters
  PROVE  Normalized(j, f) \in CallJob /\ Normalized(j, f).request = j.request
<1> DEFINE qty   == EngineQty(f, j.qty, j.request.type)
           price == EnginePrice(f, j.price)
           g     == [j EXCEPT !.qty = qty]
           h     == [g EXCEPT !.price = price]
<1>1. j.qty \in Int /\ j.price \in Int /\ j.request.type \in Types
  BY LiveOrdersAssumption DEF CallJob
<1>2. qty \in Int /\ price \in Int
  BY <1>1, FiltersTyped
<1> HIDE DEF qty, price
<1>3. g \in CallJob /\ g.request = j.request
  BY <1>2 DEF CallJob
<1> HIDE DEF g
<1>4. h \in CallJob /\ h.request = j.request
  BY <1>2, <1>3 DEF CallJob
<1>5. Normalized(j, f) = h
  BY DEF Normalized, h, g, qty, price
<1> HIDE DEF h
<1> QED
  BY <1>4, <1>5

LEMMA NormalizingLemma ==
  ASSUME RulesTyped, NEW j \in CallJob, NEW f \in Filters
  PROVE  \/ Normalizing(j, f) = Idle
         \/ /\ Normalizing(j, f) \in CallJob
            /\ Normalizing(j, f).at = "adjust"
            /\ Normalizing(j, f).request = j.request
         \/ /\ Normalizing(j, f) \in Becoming(j)
            /\ <<"cid", j.request.cid>> \notin DOMAIN orders
<1>1. \/ Normalizing(j, f) = Offering(Normalized(j, f))
      \/ \E refusal : Normalizing(j, f) = Adjusting(j, refusal)
  BY DEF Normalizing
<1>2. Becoming(Normalized(j, f)) = Becoming(j)
  BY NormalizedLemma DEF Becoming
<1> QED
  BY <1>1, <1>2, NormalizedLemma, OfferingLemma, AdjustingLemma

-----------------------------------------------------------------------------
(* A step in which one call goes on and nothing is placed or learnt: the   *)
(* exchange keeps its orders but for their status, the table its keys.     *)
LEMMA CoreKept ==
  ASSUME Core, NEW t \in Tasks, NEW next,
         job' = [job EXCEPT ![t] = next],
         IsPlacing(next) => next \in CallJob,
         next.at # "placed", job[t].at # "placed",
         IsPlacing(next) =>
           \A u \in Tasks \ {t} :
             Placing(u, next.request.cid) => next.request.cid \in overlapped',
         next.at \in Creates =>
           \/ job[t].at \in Creates /\ job[t].request = next.request
           \/ <<"cid", next.request.cid>> \notin DOMAIN orders,
         DOMAIN orders' = DOMAIN orders, lost' = lost, overlapped \subseteq overlapped',
         DOMAIN market' = DOMAIN market,
         \A n \in DOMAIN market : market'[n].request = market[n].request
  PROVE  Core'
<1>1. /\ DOMAIN job' = Tasks /\ job'[t] = next
      /\ \A u \in Tasks \ {t} : job'[u] = job[u]
  BY DEF Core, JobsTyped
<1>2. JobsTyped'
  BY <1>1 DEF Core, JobsTyped
<1>3. TellsOwn'
  BY <1>1 DEF Core, TellsOwn
<1>4. Accounted'
  BY ZenonT(30), <1>1 DEF Core, Accounted, At
<1>5. KnownByBoth'
  BY DEF Core, KnownByBoth
<1>6. OverlapSeen'
  <2> SUFFICES ASSUME NEW v \in Tasks, NEW u \in Tasks, v # u,
                      IsPlacing(job'[v]), IsPlacing(job'[u]),
                      job'[v].request.cid = job'[u].request.cid
               PROVE  job'[v].request.cid \in overlapped'
    BY DEF OverlapSeen, IsPlacing
  <2>1. CASE v # t /\ u # t
    BY <1>1, <2>1 DEF Core, OverlapSeen
  <2>2. CASE v = t
    BY <1>1, <2>2 DEF Placing
  <2>3. CASE u = t
    BY <1>1, <2>3 DEF Placing
  <2> QED BY <2>1, <2>2, <2>3
<1>7. Guarded'
  <2> SUFFICES ASSUME NEW v \in Tasks, NEW n \in DOMAIN market,
                      job'[v].at \in Creates,
                      market[n].request.cid = job'[v].request.cid
               PROVE  \/ n \in lost
                      \/ job'[v].request.cid \in overlapped'
                      \/ job'[v].at = "placed" /\ job'[v].number = n
    BY DEF Guarded, At
  <2>1. CASE v # t
    BY <1>1, <2>1 DEF Core, Guarded, At
  <2>2. CASE v = t /\ job[t].at \in Creates /\ job[t].request = next.request
    BY <1>1, <2>2 DEF Core, Guarded, At
  <2>3. CASE v = t /\ <<"cid", next.request.cid>> \notin DOMAIN orders
    <3>1. <<"ext", n>> \notin DOMAIN orders
      BY <1>1, <2>3 DEF Core, KnownByBoth
    <3>2. CASE n \in lost
      BY <3>2
    <3>3. ASSUME NEW u \in Tasks, job[u].at = "placed", job[u].number = n
          PROVE  next.request.cid \in overlapped'
      <4>1. u # t /\ IsPlacing(job[u]) /\ IsPlacing(next)
        BY <1>1, <2>3, <3>3 DEF IsPlacing, Creates
      <4>2. job[u].request.cid = next.request.cid
        BY <1>1, <2>3, <3>3 DEF Core, TellsOwn
      <4> QED BY <4>1, <4>2 DEF Placing
    <3> QED BY <1>1, <2>3, <3>1, <3>2, <3>3 DEF Core, Accounted, At
  <2> QED BY <1>1, <2>1, <2>2, <2>3
<1>8. OneEach'
  BY DEF Core, OneEach
<1> QED
  BY <1>2, <1>3, <1>4, <1>5, <1>6, <1>7, <1>8 DEF Core

LEMMA RefreshesKept ==
  ASSUME JobsTyped, RefreshesKnown, NEW t \in Tasks, NEW next,
         job' = [job EXCEPT ![t] = next], UNCHANGED tables,
         next.at \in {"cancel", "canceled"} => next \in CancelJob,
         next.at \in {"ask", "told"} => next \in AskJob
  PROVE  RefreshesKnown'
BY DEF RefreshesKnown, JobsTyped, tables, CancelJob, AskJob

(* A step of place_order or place_with_retry that neither places nor       *)
(* learns an order: Core and the rest of Inv hold after it.                *)
LEMMA CallStep ==
  ASSUME Inv, NEW t \in Tasks, NEW next,
         job' = [job EXCEPT ![t] = next], UNCHANGED <<market, tables, lost>>,
         overlapped \subseteq overlapped', RulesTyped', job[t].at # "placed",
         \/ next = Idle
         \/ /\ next \in CallJob
            /\ next.at \in Normalizes \union {"rules", "sent", "pause"}
            /\ \A u \in Tasks \ {t} :
                 Placing(u, next.request.cid) => next.request.cid \in overlapped'
            /\ next.at \in Creates =>
                 \/ job[t].at \in Creates /\ job[t].request = next.request
                 \/ <<"cid", next.request.cid>> \notin DOMAIN orders
  PROVE  Inv'
<1>1. ~ IsPlacing(Idle) /\ Idle.at = "idle"
  BY DEF IsPlacing, Idle, Normalizes, Creates
<1>2. Core'
  <2>1. next.at # "placed" /\ (next.at \in Creates => IsPlacing(next))
    BY <1>1 DEF IsPlacing, Idle, Normalizes, Creates
  <2> QED BY <1>1, <2>1, CoreKept DEF Inv, Core, tables, IsPlacing
<1>3. RefreshesKnown'
  <2>1. next.at \notin {"cancel", "canceled", "ask", "told"}
    BY <1>1 DEF Normalizes
  <2> QED BY <2>1, RefreshesKept DEF Inv
<1>4. TablesTyped'
  BY DEF Inv, TablesTyped, tables
<1> QED
  BY <1>2, <1>3, <1>4 DEF Inv, Core

(* The same, for a step of a call that was placing already.                *)
LEMMA PlacingStep ==
  ASSUME Inv, NEW t \in Tasks, NEW next, IsPlacing(job[t]), job[t].at # "placed",
         job' = [job EXCEPT ![t] = next], UNCHANGED <<market, tables, lost, overlapped>>,
         RulesTyped',
         \/ next = Idle
         \/ /\ next \in CallJob /\ next.request = job[t].request
            /\ next.at \in Normalizes
         \/ /\ next \in Becoming(job[t])
            /\ \/ job[t].at \in Creates
               \/ <<"cid", job[t].request.cid>> \notin DOMAIN orders
  PROVE  Inv'
<1>1. \A u \in Tasks \ {t} :
        Placing(u, job[t].request.cid) => job[t].request.cid \in overlapped
  BY DEF Inv, OverlapSeen, Placing
<1>2. Normalizes \intersect Creates = {}
  BY DEF Normalizes, Creates
<1> QED
  BY <1>1, <1>2, CallStep DEF Becoming

LEMMA CallTyped ==
  ASSUME NEW r \in Requests
  PROVE  Call(r) \in CallJob /\ Call(r).request = r /\ Call(r).at = "adjust"
BY LiveOrdersAssumption DEF Call, CallJob, Normalizes

LEMMA PlaceOrderStep ==
  ASSUME Inv, NEW t \in Tasks, PlaceOrder(t) \/ PlaceWithRetry(t)
  PROVE  Inv'
<1>1. PICK r \in Requests :
        /\ Begins(t, r.cid)
        /\ Goes(t, Offering(Call(r))) \/ Goes(t, Call(r))
        /\ UNCHANGED <<rules, market, tables, caches, lost>>
  BY DEF PlaceOrder, PlaceWithRetry
<1>2. Call(r) \in CallJob /\ Call(r).request = r /\ Call(r).at = "adjust"
  BY CallTyped
<1>3. /\ overlapped \subseteq overlapped'
      /\ \A u \in Tasks : Placing(u, r.cid) => r.cid \in overlapped'
  BY <1>1 DEF Begins
<1>4. RulesTyped' /\ job[t].at # "placed"
  BY <1>1 DEF Inv, RulesTyped, caches, Begins, At
<1>5. CASE Goes(t, Offering(Call(r)))
  <2>1. \/ Offering(Call(r)) = Idle
        \/ /\ Offering(Call(r)) \in CallJob
           /\ Offering(Call(r)).request = r
           /\ Offering(Call(r)).at \in {"rules", "sent", "pause"}
           /\ <<"cid", r.cid>> \notin DOMAIN orders
    BY <1>2, OfferingLemma DEF Inv, Becoming
  <2> QED BY <1>1, <1>3, <1>4, <1>5, <2>1, CallStep DEF Goes
<1>6. CASE Goes(t, Call(r))
  <2>1. "adjust" \in Normalizes /\ "adjust" \notin Creates
    BY DEF Normalizes, Creates
  <2> QED BY <1>1, <1>2, <1>3, <1>4, <1>6, <2>1, CallStep DEF Goes
<1> QED
  BY <1>1, <1>5, <1>6

LEMMA NormalizeStep ==
  ASSUME Inv, NEW t \in Tasks, Normalize(t)
  PROVE  Inv'
<1>1. /\ job[t].at = "adjust" /\ IsPlacing(job[t]) /\ job[t] \in CallJob
      /\ "filters" \in Normalizes /\ "adjust" \in Normalizes
  BY DEF Normalize, At, IsPlacing, Normalizes, Inv, JobsTyped
<1>2. UNCHANGED <<market, tables, lost, overlapped>> /\ RulesTyped'
  BY DEF Normalize, history, caches, Inv, RulesTyped
<1>3. CASE Goes(t, [job[t] EXCEPT !.at = "filters"])
  <2> DEFINE g == [job[t] EXCEPT !.at = "filters"]
  <2>1. g \in CallJob /\ g.request = job[t].request /\ g.at = "filters"
    BY <1>1 DEF CallJob
  <2>2. job' = [job EXCEPT ![t] = g]
    BY <1>3 DEF Goes
  <2> HIDE DEF g
  <2> QED BY <1>1, <1>2, <2>1, <2>2, PlacingStep
<1>4. ASSUME NEW f \in Filters, Goes(t, Normalizing(job[t], f))
      PROVE  Inv'
  <2>1. RulesTyped
    BY DEF Inv
  <2> QED BY <1>1, <1>2, <1>4, <2>1, NormalizingLemma, PlacingStep DEF Goes
<1> QED
  BY <1>3, <1>4, DefaultsTyped DEF Normalize, Loaded, Inv, RulesTyped

LEMMA FiltersArriveStep ==
  ASSUME Inv, NEW t \in Tasks, FiltersArrive(t)
  PROVE  Inv'
<1>1. /\ job[t].at = "filters" /\ IsPlacing(job[t]) /\ job[t] \in CallJob
      /\ "adjust" \in Normalizes
  BY DEF FiltersArrive, At, IsPlacing, Normalizes, Inv, JobsTyped
<1>2. PICK f \in {AsPrinted(rules), EngineDefaults} :
        /\ engineRules' = f
        /\ \E g \in Loaded(f) : Goes(t, Normalizing(job[t], g))
  BY DEF FiltersArrive
<1>3. f \in Filters /\ RulesTyped
  BY PrintedTyped, DefaultsTyped DEF Inv, RulesTyped
<1>4. PICK g \in Filters : Goes(t, Normalizing(job[t], g))
  BY <1>2, <1>3, DefaultsTyped DEF Loaded
<1>5. UNCHANGED <<market, tables, lost, overlapped>> /\ RulesTyped'
  BY <1>2, <1>3 DEF FiltersArrive, history, RulesTyped
<1> QED
  BY <1>1, <1>3, <1>4, <1>5, NormalizingLemma, PlacingStep DEF Goes

LEMMA RulesArriveStep ==
  ASSUME Inv, NEW t \in Tasks, RulesArrive(t)
  PROVE  Inv'
<1>1. /\ job[t].at = "rules" /\ job[t].at \in Creates
      /\ IsPlacing(job[t]) /\ job[t] \in CallJob
  BY DEF RulesArrive, At, IsPlacing, Creates, Inv, JobsTyped
<1>2. clientRules' \in Filters
  BY DefaultsTyped, ClientReadsTyped DEF RulesArrive, Inv, RulesTyped
<1>3. UNCHANGED <<market, tables, lost, overlapped>> /\ RulesTyped'
  BY <1>2 DEF RulesArrive, history, Inv, RulesTyped
<1>4. Sending(job[t], clientRules') \in Becoming(job[t])
  BY <1>1, <1>2, SendingLemma
<1>5. job' = [job EXCEPT ![t] = Sending(job[t], clientRules')]
  BY DEF RulesArrive, Goes
<1> QED
  BY <1>1, <1>3, <1>4, <1>5, PlacingStep

LEMMA RetryStep ==
  ASSUME Inv, NEW t \in Tasks, Retry(t) \/ Refuse(t)
  PROVE  Inv'
<1>1. /\ job[t].at \in Creates /\ job[t].at # "placed"
      /\ IsPlacing(job[t]) /\ job[t] \in CallJob
  BY DEF Retry, Refuse, At, IsPlacing, Creates, Inv, JobsTyped
<1>2. UNCHANGED <<market, tables, lost, overlapped>> /\ RulesTyped /\ RulesTyped'
  BY DEF Retry, Refuse, caches, history, Inv, RulesTyped
<1>3. PICK next \in Becoming(job[t]) : job' = [job EXCEPT ![t] = next]
  BY <1>1, <1>2, CreatingLemma, FailingLemma DEF Retry, Refuse, Goes
<1> QED
  BY <1>1, <1>2, <1>3, PlacingStep

(* The exchange takes an order: its call passed the lookup, so Guarded     *)
(* says of every other order of the client id what OneEach asks.           *)
LEMMA AcceptStep ==
  ASSUME Inv, NEW t \in Tasks, Accept(t)
  PROVE  Inv'
<1> DEFINE n == Len(market) + 1
<1>1. /\ job[t].at = "sent" /\ job[t].at \in Creates
      /\ IsPlacing(job[t]) /\ job[t] \in CallJob
  BY DEF Accept, At, IsPlacing, Creates, Inv, JobsTyped
<1>2. PICK status \in {"NEW", "FILLED"} :
        /\ market' = Append(market, [request |-> job[t].request, status |-> status,
                                     qty |-> job[t].sentQty, price |-> job[t].sentPrice])
        /\ Goes(t, [job[t] EXCEPT !.at = "placed", !.number = n, !.status = status])
  BY DEF Accept
<1>3. /\ market \in Seq(MarketOrder) /\ n \in Nat
      /\ DOMAIN market = 1 .. Len(market) /\ n \notin DOMAIN market
  BY DEF Inv, TablesTyped
<1>4. /\ market' \in Seq(MarketOrder)
      /\ DOMAIN market' = DOMAIN market \union {n}
      /\ market'[n].request = job[t].request
      /\ \A m \in DOMAIN market : market'[m] = market[m]
  <2>1. [request |-> job[t].request, status |-> status,
         qty |-> job[t].sentQty, price |-> job[t].sentPrice] \in MarketOrder
    BY <1>1 DEF CallJob, MarketOrder, Statuses
  <2> QED BY <1>2, <1>3, <2>1
<1> DEFINE next == [job[t] EXCEPT !.at = "placed", !.number = n, !.status = status]
<1>5. /\ next \in CallJob /\ next.at = "placed" /\ next.at \in Creates
      /\ next.number = n /\ next.request = job[t].request
  <2> DEFINE g == [job[t] EXCEPT !.at = "placed"]
             h == [g EXCEPT !.number = n]
             k == [h EXCEPT !.status = status]
  <2>1. g \in CallJob /\ g.at = "placed" /\ g.request = job[t].request
    BY <1>1 DEF CallJob, Creates
  <2> HIDE DEF g
  <2>2. h \in CallJob /\ h.at = "placed" /\ h.number = n /\ h.request = job[t].request
    BY <1>3, <2>1 DEF CallJob
  <2> HIDE DEF h
  <2>3. k \in CallJob /\ k.at = "placed" /\ k.number = n /\ k.request = job[t].request
    BY <2>2 DEF CallJob
  <2>4. next = k
    BY DEF k, h, g
  <2> HIDE DEF next, k
  <2> QED BY <2>3, <2>4 DEF Creates
<1>6. job' = [job EXCEPT ![t] = next]
  BY <1>2 DEF Goes
<1> HIDE DEF next, n
<1>7. /\ DOMAIN job' = Tasks /\ job'[t] = next
      /\ \A u \in Tasks \ {t} : job'[u] = job[u]
  BY <1>6 DEF Inv, JobsTyped
<1>8. UNCHANGED <<orders, objects, lost, overlapped>> /\ RulesTyped'
  BY DEF Accept, tables, caches, history, Inv, RulesTyped
<1>9. JobsTyped' /\ TablesTyped'
  BY <1>4, <1>5, <1>7, <1>8 DEF Inv, JobsTyped, TablesTyped
<1>10. TellsOwn'
  BY <1>4, <1>5, <1>7 DEF Inv, TellsOwn
<1>11. Accounted'
  <2> SUFFICES ASSUME NEW m \in DOMAIN market', m \notin lost,
                      <<"ext", m>> \notin DOMAIN orders
               PROVE  \E u \in Tasks : job'[u].at = "placed" /\ job'[u].number = m
    BY <1>8 DEF Accounted, At
  <2>1. CASE m = n
    BY <1>5, <1>7, <2>1
  <2>2. CASE m \in DOMAIN market
    <3>1. PICK u \in Tasks : job[u].at = "placed" /\ job[u].number = m
      BY <2>2 DEF Inv, Accounted, At
    <3>2. u # t
      BY <1>1, <3>1
    <3> QED BY <1>7, <3>1, <3>2
  <2> QED BY <1>4, <2>1, <2>2
<1>12. KnownByBoth'
  BY <1>3, <1>4, <1>8 DEF Inv, KnownByBoth, TablesTyped
<1>13. OverlapSeen'
  BY <1>1, <1>5, <1>7, <1>8 DEF Inv, OverlapSeen, IsPlacing
<1>14. Guarded'
  <2> SUFFICES ASSUME NEW u \in Tasks, NEW m \in DOMAIN market', job'[u].at \in Creates,
                      market'[m].request.cid = job'[u].request.cid, m \notin lost,
                      job'[u].request.cid \notin overlapped
               PROVE  job'[u].at = "placed" /\ job'[u].number = m
    BY <1>8 DEF Guarded, At
  <2>1. CASE u = t /\ m = n
    BY <1>5, <1>7, <2>1
  <2>2. CASE u = t /\ m # n
    BY <1>1, <1>4, <1>5, <1>7, <2>2 DEF Inv, Guarded, At
  <2>3. CASE u # t /\ m = n
    BY <1>1, <1>4, <1>7, <2>3 DEF Inv, OverlapSeen, IsPlacing
  <2>4. CASE u # t /\ m # n
    BY <1>4, <1>7, <2>4 DEF Inv, Guarded, At
  <2> QED BY <2>1, <2>2, <2>3, <2>4
<1>15. OneEach'
  <2>1. ASSUME NEW m \in DOMAIN market, market[m].request.cid = job[t].request.cid
        PROVE  m \in lost \/ job[t].request.cid \in overlapped
    BY <1>1, <2>1 DEF Inv, Guarded, At
  <2> QED BY <1>4, <1>8, <2>1 DEF Inv, OneEach
<1>16. RefreshesKnown'
  <2>1. next.at \notin {"cancel", "canceled", "ask", "told"}
    BY <1>5
  <2> QED BY <1>6, <1>8, <2>1, RefreshesKept DEF Inv, tables
<1> QED
  BY <1>8, <1>9, <1>10, <1>11, <1>12, <1>13, <1>14, <1>15, <1>16 DEF Inv

(* The call that was to learn of its order forgets it; the order is lost.  *)
LEMMA AnswerLostStep ==
  ASSUME Inv, NEW t \in Tasks, AnswerLost(t)
  PROVE  Inv'
<1> DEFINE g == [job[t] EXCEPT !.number = 0]
           j == [g EXCEPT !.status = "NEW"]
           next == Failing(j)
<1>1. /\ job[t].at = "placed" /\ job[t].at \in Creates
      /\ IsPlacing(job[t]) /\ job[t] \in CallJob
  BY DEF AnswerLost, At, IsPlacing, Creates, Inv, JobsTyped
<1>2. g \in CallJob /\ g.request = job[t].request
  BY <1>1 DEF CallJob
<1>3. job' = [job EXCEPT ![t] = next]
  BY DEF AnswerLost, Goes
<1> HIDE DEF g
<1>4. j \in CallJob /\ j.request = job[t].request
  BY <1>2 DEF CallJob
<1> HIDE DEF j
<1>5. /\ IsPlacing(next) => next \in CallJob /\ next.request = job[t].request
      /\ next.at \notin {"placed", "cancel", "canceled", "ask", "told"}
  BY <1>4, FailingLemma DEF Becoming, Idle, IsPlacing, Normalizes, Creates
<1> HIDE DEF next
<1>6. /\ DOMAIN job' = Tasks /\ job'[t] = next
      /\ \A u \in Tasks \ {t} : job'[u] = job[u]
  BY <1>3 DEF Inv, JobsTyped
<1>7. /\ lost' = lost \union {job[t].number}
      /\ UNCHANGED <<market, orders, objects, overlapped>> /\ RulesTyped'
  BY DEF AnswerLost, tables, caches, Inv, RulesTyped
<1>8. JobsTyped' /\ TablesTyped'
  BY <1>5, <1>6, <1>7 DEF Inv, JobsTyped, TablesTyped
<1>9. TellsOwn'
  BY <1>5, <1>6, <1>7 DEF Inv, TellsOwn
<1>10. Accounted'
  <2> SUFFICES ASSUME NEW m \in DOMAIN market, m \notin lost', <<"ext", m>> \notin DOMAIN orders
               PROVE  \E u \in Tasks : job'[u].at = "placed" /\ job'[u].number = m
    BY <1>7 DEF Accounted, At
  <2>1. PICK u \in Tasks : job[u].at = "placed" /\ job[u].number = m
    BY <1>7 DEF Inv, Accounted, At
  <2>2. u # t
    BY <1>7, <2>1
  <2> QED BY <1>6, <2>1, <2>2
<1>11. KnownByBoth'
  BY <1>7 DEF Inv, KnownByBoth
<1>12. OverlapSeen'
  BY <1>1, <1>5, <1>6, <1>7 DEF Inv, OverlapSeen
<1>13. Guarded'
  <2> SUFFICES ASSUME NEW u \in Tasks, NEW m \in DOMAIN market, job'[u].at \in Creates,
                      market[m].request.cid = job'[u].request.cid
               PROVE  \/ m \in lost'
                      \/ job'[u].request.cid \in overlapped
                      \/ job'[u].at = "placed" /\ job'[u].number = m
    BY <1>7 DEF Guarded, At
  <2>1. CASE u # t
    BY <1>6, <1>7, <2>1 DEF Inv, Guarded, At
  <2>2. CASE u = t
    <3>1. job'[t].request = job[t].request
      BY <1>5, <1>6, <2>2 DEF IsPlacing
    <3> QED BY <1>1, <1>7, <2>2, <3>1 DEF Inv, Guarded, At
  <2> QED BY <2>1, <2>2
<1>14. OneEach'
  BY <1>7 DEF Inv, OneEach
<1>15. RefreshesKnown'
  BY <1>3, <1>5, <1>7, RefreshesKept DEF Inv, tables
<1> QED
  BY <1>7, <1>8, <1>9, <1>10, <1>11, <1>12, <1>13, <1>14, <1>15 DEF Inv

LEMMA UnderKeys ==
  ASSUME NEW keys
  PROVE  /\ DOMAIN Under(keys) = DOMAIN orders \union keys
         /\ \A key \in DOMAIN Under(keys) :
              Under(keys)[key] = IF key \in keys THEN Len(objects) + 1 ELSE orders[key]
BY DEF Under

(* The answer puts the order into the table under all its keys.            *)
LEMMA AnswerArrivesStep ==
  ASSUME Inv, NEW t \in Tasks, AnswerArrives(t)
  PROVE  Inv'
<1> DEFINE n    == job[t].number
           cid  == job[t].request.cid
           o    == Len(objects) + 1
           keys == Keys(cid, n, o)
<1>1. /\ job[t].at = "placed" /\ job[t].at \in Creates
      /\ IsPlacing(job[t]) /\ job[t] \in CallJob
  BY DEF AnswerArrives, At, IsPlacing, Creates, Inv, JobsTyped
<1>2. n \in DOMAIN market /\ market[n].request = job[t].request /\ n \in Nat
  BY <1>1 DEF Inv, TellsOwn, CallJob
<1>3. objects \in Seq(OrderObject) /\ cid \in ClientIds /\ o \in Nat
  <2>1. \A r \in Requests : r.cid \in ClientIds
    BY LiveOrdersAssumption
  <2> QED BY <1>1, <2>1 DEF Inv, TablesTyped, CallJob
<1>4. OrderOf(job[t]) \in OrderObject /\ OrderOf(job[t]).number = n
  BY <1>1, <1>2, <1>3 DEF OrderOf, OrderObject, CallJob, Statuses
<1>5. /\ objects' \in Seq(OrderObject)
      /\ DOMAIN objects' = DOMAIN objects \union {o} /\ o \notin DOMAIN objects
      /\ objects'[o].number = n
      /\ \A i \in DOMAIN objects : objects'[i] = objects[i]
  BY <1>3, <1>4 DEF AnswerArrives
<1>6. orders' = Under(keys)
  BY DEF AnswerArrives, Register, OrderOf
<1>7. /\ DOMAIN orders' = DOMAIN orders \union keys
      /\ \A key \in DOMAIN orders' :
           orders'[key] = IF key \in keys THEN o ELSE orders[key]
  <2> HIDE DEF keys
  <2> QED BY <1>6, UnderKeys
<1>8. /\ <<"ext", n>> \in keys /\ <<"cid", cid>> \in keys
      /\ \A m : <<"ext", m>> \in keys => m = n
  BY DEF Keys
<1> HIDE DEF keys, o, n, cid
<1>9. job' = [job EXCEPT ![t] = Idle]
  BY DEF AnswerArrives, Goes
<1>10. /\ DOMAIN job' = Tasks /\ job'[t] = Idle
       /\ \A u \in Tasks \ {t} : job'[u] = job[u]
  BY <1>9 DEF Inv, JobsTyped
<1>11. /\ Idle.at \notin Creates /\ ~ IsPlacing(Idle)
       /\ Idle.at \notin {"placed", "cancel", "canceled", "ask", "told"}
  BY DEF Idle, IsPlacing, Normalizes, Creates
<1>12. UNCHANGED <<market, lost, overlapped>> /\ RulesTyped'
  BY DEF AnswerArrives, caches, history, Inv, RulesTyped
<1>13. JobsTyped'
  BY <1>10, <1>11 DEF Inv, JobsTyped
<1>14. TablesTyped'
  BY <1>2, <1>5, <1>7, <1>8, <1>12 DEF Inv, TablesTyped
<1>15. TellsOwn'
  BY <1>10, <1>11, <1>12 DEF Inv, TellsOwn
<1>16. Accounted'
  <2> SUFFICES ASSUME NEW m \in DOMAIN market, m \notin lost, <<"ext", m>> \notin DOMAIN orders'
               PROVE  \E u \in Tasks : job'[u].at = "placed" /\ job'[u].number = m
    BY <1>12 DEF Accounted, At
  <2>1. PICK u \in Tasks : job[u].at = "placed" /\ job[u].number = m
    BY <1>7 DEF Inv, Accounted, At
  <2>2. u # t
    BY <1>7, <1>8, <2>1 DEF n
  <2> QED BY <1>10, <2>1, <2>2
<1>17. KnownByBoth'
  BY <1>2, <1>7, <1>8, <1>12 DEF Inv, KnownByBoth, cid
<1>18. OverlapSeen'
  BY <1>10, <1>11, <1>12 DEF Inv, OverlapSeen
<1>19. Guarded'
  BY <1>10, <1>11, <1>12 DEF Inv, Guarded, At
<1>20. OneEach'
  BY <1>12 DEF Inv, OneEach
<1>21. RefreshesKnown'
  BY <1>5, <1>7, <1>8, <1>10, <1>11 DEF Inv, RefreshesKnown, CancelJob, AskJob
<1> QED
  BY <1>12, <1>13, <1>14, <1>15, <1>16, <1>17, <1>18, <1>19, <1>20, <1>21 DEF Inv

(* A step of cancel_order or get_order_status: the call places nothing     *)
(* before it or after it.                                                  *)
LEMMA OtherCallStep ==
  ASSUME Inv, NEW t \in Tasks, NEW next, job' = [job EXCEPT ![t] = next],
         ~ IsPlacing(job[t]), ~ IsPlacing(next),
         UNCHANGED <<rules, caches, lost, overlapped>>,
         DOMAIN orders' = DOMAIN orders, TablesTyped', RefreshesKnown',
         DOMAIN market' = DOMAIN market,
         \A n \in DOMAIN market : market'[n].request = market[n].request
  PROVE  Inv'
<1>1. job[t].at # "placed" /\ next.at # "placed" /\ next.at \notin Creates
  BY DEF IsPlacing, Creates
<1>2. Core'
  BY <1>1, CoreKept DEF Inv, Core
<1>3. RulesTyped'
  BY DEF Inv, RulesTyped, caches
<1> QED
  BY <1>2, <1>3 DEF Inv, Core

LEMMA BeginOtherStep ==
  ASSUME Inv, NEW t \in Tasks, BeginCancel(t) \/ BeginStatus(t)
  PROVE  Inv'
<1>1. PICK key \in DOMAIN orders :
        /\ At(t, "idle")
        /\ \/ Goes(t, [at |-> "cancel", object |-> orders[key]])
           \/ Goes(t, [at |-> "ask", key |-> key, object |-> orders[key], status |-> "NEW"])
        /\ UNCHANGED <<rules, market, tables, caches, lost, overlapped>>
  BY DEF BeginCancel, BeginStatus
<1>2. orders[key] \in DOMAIN objects
  BY DEF Inv, RefreshesKnown
<1>3. PICK next : /\ job' = [job EXCEPT ![t] = next]
                  /\ next \in CancelJob \union AskJob
                  /\ next.at \in {"cancel", "ask"}
  <2>1. CASE Goes(t, [at |-> "cancel", object |-> orders[key]])
    <3> DEFINE next == [at |-> "cancel", object |-> orders[key]]
    <3>1. next \in CancelJob /\ next.at = "cancel" /\ job' = [job EXCEPT ![t] = next]
      BY <1>2, <2>1 DEF Goes, CancelJob
    <3> HIDE DEF next
    <3> QED BY <3>1
  <2>2. CASE Goes(t, [at |-> "ask", key |-> key, object |-> orders[key], status |-> "NEW"])
    <3> DEFINE next == [at |-> "ask", key |-> key, object |-> orders[key], status |-> "NEW"]
    <3>1. next \in AskJob /\ next.at = "ask" /\ job' = [job EXCEPT ![t] = next]
      BY <1>2, <2>2 DEF Goes, AskJob, Statuses
    <3> HIDE DEF next
    <3> QED BY <3>1
  <2> QED BY <1>1, <2>1, <2>2
<1>4. ~ IsPlacing(job[t]) /\ ~ IsPlacing(next)
  BY <1>1, <1>3 DEF At, IsPlacing, Normalizes, Creates
<1>5. TablesTyped'
  BY <1>1 DEF Inv, TablesTyped, tables
<1>6. /\ next.at \in {"cancel", "canceled"} => next \in CancelJob
      /\ next.at \in {"ask", "told"} => next \in AskJob
  BY <1>3 DEF CancelJob, AskJob
<1>7. RefreshesKnown'
  BY <1>1, <1>3, <1>6, RefreshesKept DEF Inv
<1> QED
  BY <1>1, <1>3, <1>4, <1>5, <1>7, OtherCallStep DEF tables

LEMMA RequestFailsStep ==
  ASSUME Inv, NEW t \in Tasks, RequestFails(t)
  PROVE  Inv'
<1>1. ~ IsPlacing(job[t]) /\ ~ IsPlacing(Idle) /\ Idle.at = "idle"
  BY DEF RequestFails, Idle, IsPlacing, Normalizes, Creates
<1>2. job' = [job EXCEPT ![t] = Idle]
  BY DEF RequestFails, Goes
<1>3. UNCHANGED <<rules, market, tables, caches, lost, overlapped>>
  BY DEF RequestFails, history
<1>4. TablesTyped'
  BY <1>3 DEF Inv, TablesTyped, tables
<1>5. RefreshesKnown'
  BY <1>1, <1>2, <1>3, RefreshesKept DEF Inv
<1> QED
  BY <1>1, <1>2, <1>3, <1>4, <1>5, OtherCallStep DEF tables

(* Only the status of an order changes at the exchange.                    *)
LEMMA StatusChange ==
  ASSUME market \in Seq(MarketOrder), NEW n \in DOMAIN market,
         NEW status \in {"FILLED", "CANCELED"},
         market' = [market EXCEPT ![n].status = status]
  PROVE  /\ market' \in Seq(MarketOrder) /\ DOMAIN market' = DOMAIN market
         /\ \A m \in DOMAIN market : market'[m].request = market[m].request
<1> DEFINE o == [market[n] EXCEPT !.status = status]
<1>1. market[n] \in MarketOrder
  OBVIOUS
<1>2. o \in MarketOrder /\ o.request = market[n].request
  BY <1>1 DEF MarketOrder, Statuses
<1>3. market' = [market EXCEPT ![n] = o]
  OBVIOUS
<1> HIDE DEF o
<1> QED
  BY <1>2, <1>3

LEMMA FillStep ==
  ASSUME Inv, Fill
  PROVE  Inv'
<1>1. PICK n \in DOMAIN market : market' = [market EXCEPT ![n].status = "FILLED"]
  BY DEF Fill
<1>2. /\ market' \in Seq(MarketOrder) /\ DOMAIN market' = DOMAIN market
      /\ \A m \in DOMAIN market : market'[m].request = market[m].request
  BY <1>1, StatusChange DEF Inv, TablesTyped
<1>3. UNCHANGED <<rules, tables, caches, history, job>>
  BY DEF Fill
<1>4. RulesTyped' /\ JobsTyped' /\ TablesTyped' /\ RefreshesKnown'
  BY <1>2, <1>3 DEF Inv, RulesTyped, JobsTyped, TablesTyped, RefreshesKnown, CancelJob,
                    AskJob, tables, caches
<1>5. TellsOwn' /\ Accounted' /\ KnownByBoth'
  BY <1>2, <1>3 DEF Inv, TellsOwn, Accounted, KnownByBoth, At, tables, history
<1>6. OverlapSeen'
  BY <1>3 DEF Inv, OverlapSeen, history
<1>7. Guarded'
  BY <1>2, <1>3 DEF Inv, Guarded, At, history
<1>8. OneEach'
  BY <1>2, <1>3 DEF Inv, OneEach, history
<1> QED
  BY <1>4, <1>5, <1>6, <1>7, <1>8 DEF Inv

LEMMA CancelAtExchangeStep ==
  ASSUME Inv, NEW t \in Tasks, CancelAtExchange(t)
  PROVE  Inv'
<1> DEFINE n    == objects[job[t].object].number
           next == [job[t] EXCEPT !.at = "canceled"]
<1>1. /\ job[t] \in CancelJob /\ job[t].at = "cancel"
      /\ job[t].object \in DOMAIN objects
  BY DEF CancelAtExchange, At, Inv, RefreshesKnown, CancelJob
<1>2. n \in DOMAIN market
  BY <1>1 DEF Inv, RefreshesKnown, TablesTyped
<1>3. /\ market' \in Seq(MarketOrder) /\ DOMAIN market' = DOMAIN market
      /\ \A m \in DOMAIN market : market'[m].request = market[m].request
  BY <1>2, StatusChange DEF CancelAtExchange, Inv, TablesTyped
<1>4. UNCHANGED <<rules, tables, caches, lost, overlapped>>
  BY DEF CancelAtExchange, history
<1>5. job' = [job EXCEPT ![t] = next]
  BY DEF CancelAtExchange, Goes
<1>6. next \in CancelJob /\ next.at = "canceled"
  BY <1>1 DEF CancelJob
<1>7. ~ IsPlacing(job[t]) /\ ~ IsPlacing(next)
  BY <1>1, <1>6 DEF IsPlacing, Normalizes, Creates
<1>8. TablesTyped' /\ RefreshesKnown'
  BY <1>1, <1>3, <1>4, <1>5, <1>6, RefreshesKept DEF Inv, TablesTyped, tables
<1> QED
  BY <1>3, <1>4, <1>5, <1>7, <1>8, OtherCallStep DEF tables

LEMMA CancelAnsweredStep ==
  ASSUME Inv, NEW t \in Tasks, CancelAnswered(t)
  PROVE  Inv'
<1> DEFINE i == job[t].object
           o == [objects[i] EXCEPT !.status = "CANCELED"]
<1>1. i \in DOMAIN objects /\ job[t].at = "canceled"
  BY DEF CancelAnswered, At, Inv, RefreshesKnown, CancelJob
<1>2. objects[i] \in OrderObject
  BY <1>1 DEF Inv, TablesTyped
<1>3. o \in OrderObject /\ o.number = objects[i].number
  BY <1>2 DEF OrderObject, Statuses
<1>4. objects' = [objects EXCEPT ![i] = o]
  BY DEF CancelAnswered
<1> HIDE DEF o
<1>5. /\ objects' \in Seq(OrderObject) /\ DOMAIN objects' = DOMAIN objects
      /\ \A k \in DOMAIN objects : objects'[k].number = objects[k].number
  BY <1>1, <1>3, <1>4 DEF Inv, TablesTyped
<1>6. UNCHANGED <<rules, market, orders, caches, lost, overlapped>>
  BY DEF CancelAnswered, history
<1>7. job' = [job EXCEPT ![t] = Idle]
  BY DEF CancelAnswered, Goes
<1>8. ~ IsPlacing(job[t]) /\ ~ IsPlacing(Idle) /\ Idle.at = "idle"
  BY <1>1 DEF IsPlacing, Normalizes, Creates, Idle
<1>9. TablesTyped'
  BY <1>5, <1>6 DEF Inv, TablesTyped
<1>10. RefreshesKnown'
  BY <1>5, <1>6, <1>7, <1>8 DEF Inv, RefreshesKnown, JobsTyped, CancelJob, AskJob
<1> QED
  BY <1>6, <1>7, <1>8, <1>9, <1>10, OtherCallStep

LEMMA StatusAtExchangeStep ==
  ASSUME Inv, NEW t \in Tasks, StatusAtExchange(t)
  PROVE  Inv'
<1> DEFINE g    == [job[t] EXCEPT !.at = "told"]
           next == [g EXCEPT !.status = market[objects[job[t].object].number].status]
<1>1. job[t] \in AskJob /\ job[t].at = "ask"
  BY DEF StatusAtExchange, At, Inv, RefreshesKnown
<1>2. g \in AskJob /\ g.at = "told"
  BY <1>1 DEF AskJob
<1>3. job' = [job EXCEPT ![t] = next]
  BY DEF StatusAtExchange, Goes
<1> HIDE DEF g
<1>4. market[objects[job[t].object].number].status \in Statuses
  <2>1. objects[job[t].object].number \in DOMAIN market
    BY <1>1 DEF Inv, RefreshesKnown, TablesTyped, AskJob
  <2>2. market[objects[job[t].object].number] \in MarketOrder
    BY <2>1 DEF Inv, TablesTyped
  <2> QED BY <2>2 DEF MarketOrder
<1>5. next \in AskJob /\ next.at = "told"
  BY <1>2, <1>4 DEF AskJob
<1>6. UNCHANGED <<rules, market, tables, caches, lost, overlapped>>
  BY DEF StatusAtExchange, history
<1>7. ~ IsPlacing(job[t]) /\ ~ IsPlacing(next)
  BY <1>1, <1>5 DEF IsPlacing, Normalizes, Creates
<1>8. TablesTyped'
  BY <1>6 DEF Inv, TablesTyped, tables
<1> HIDE DEF next
<1>9. RefreshesKnown'
  BY <1>1, <1>3, <1>5, <1>6, RefreshesKept DEF Inv
<1> QED
  BY <1>3, <1>6, <1>7, <1>8, <1>9, OtherCallStep DEF tables

(* A refresh replaces objects under keys the table has.                    *)
LEMMA StatusArrivesStep ==
  ASSUME Inv, NEW t \in Tasks, StatusArrives(t)
  PROVE  Inv'
<1> DEFINE old  == objects[job[t].object]
           new  == [old EXCEPT !.status = job[t].status]
           o    == Len(objects) + 1
           keys == {job[t].key, <<"ext", old.number>>}
<1>1. /\ job[t].at = "told"
      /\ job[t].object \in DOMAIN objects /\ job[t].key \in DOMAIN orders
  BY DEF StatusArrives, At, Inv, RefreshesKnown, AskJob
<1>2. objects \in Seq(OrderObject) /\ old \in OrderObject
  BY <1>1 DEF Inv, TablesTyped
<1>3. job[t].status \in Statuses
  BY <1>1 DEF Inv, RefreshesKnown, AskJob
<1>4. new \in OrderObject /\ new.number = old.number
  BY <1>2, <1>3 DEF OrderObject
<1>5. objects' = Append(objects, new)
  BY DEF StatusArrives
<1> HIDE DEF new
<1>6. /\ objects' \in Seq(OrderObject)
      /\ DOMAIN objects' = DOMAIN objects \union {o}
      /\ objects'[o].number = old.number
      /\ \A i \in DOMAIN objects : objects'[i] = objects[i]
  BY <1>2, <1>4, <1>5
<1>7. orders' = Under(keys)
  BY DEF StatusArrives, Refreshed
<1>8. keys \subseteq DOMAIN orders
  BY <1>1 DEF Inv, RefreshesKnown
<1>9. /\ DOMAIN orders' = DOMAIN orders
      /\ \A key \in DOMAIN orders :
           orders'[key] = IF key \in keys THEN o ELSE orders[key]
  <2> HIDE DEF keys
  <2> QED BY <1>7, <1>8, UnderKeys
<1>10. <<"ext", old.number>> \in DOMAIN orders
  BY <1>8
<1> HIDE DEF keys, o, old
<1>11. UNCHANGED <<rules, market, caches, lost, overlapped>>
  BY DEF StatusArrives, history
<1>12. job' = [job EXCEPT ![t] = Idle]
  BY DEF StatusArrives, Goes
<1>13. ~ IsPlacing(job[t]) /\ ~ IsPlacing(Idle) /\ Idle.at = "idle"
  BY <1>1 DEF IsPlacing, Normalizes, Creates, Idle
<1>14. TablesTyped'
  BY <1>6, <1>9, <1>11 DEF Inv, TablesTyped
<1>15. RefreshesKnown'
  <2>1. /\ DOMAIN job' = Tasks /\ job'[t] = Idle
        /\ \A u \in Tasks \ {t} : job'[u] = job[u]
    BY <1>12 DEF Inv, JobsTyped
  <2> QED BY <1>6, <1>9, <1>10, <1>13, <2>1 DEF Inv, RefreshesKnown, CancelJob, AskJob
<1> QED
  BY <1>9, <1>11, <1>12, <1>13, <1>14, <1>15, OtherCallStep

-----------------------------------------------------------------------------
LEMMA InvInit == Init => Inv
<1> SUFFICES ASSUME Init PROVE Inv
  OBVIOUS
<1>1. /\ market = <<>> /\ objects = <<>> /\ DOMAIN orders = {}
      /\ clientRules = None /\ engineRules = None /\ rules \in Rulebooks
      /\ DOMAIN job = Tasks /\ \A t \in Tasks : job[t].at = "idle"
  BY DEF Init, Idle
<1>2. \A t \in Tasks : ~ IsPlacing(job[t]) /\ job[t].at \notin Creates
  BY <1>1 DEF IsPlacing, Normalizes, Creates
<1>3. RulesTyped
  BY <1>1, LiveOrdersAssumption DEF RulesTyped, WellFormed
<1>4. JobsTyped
  BY <1>1, <1>2 DEF JobsTyped
<1>5. TablesTyped
  BY <1>1 DEF TablesTyped
<1>6. TellsOwn /\ OverlapSeen /\ Guarded
  BY <1>1, <1>2 DEF TellsOwn, OverlapSeen, Guarded
<1>7. Accounted /\ KnownByBoth /\ OneEach
  BY <1>1 DEF Accounted, KnownByBoth, OneEach
<1>8. RefreshesKnown
  BY <1>1 DEF RefreshesKnown
<1> QED
  BY <1>3, <1>4, <1>5, <1>6, <1>7, <1>8 DEF Inv

LEMMA InvNext == Inv /\ [Next]_vars => Inv'
<1> SUFFICES ASSUME Inv, [Next]_vars PROVE Inv'
  OBVIOUS
<1>1. ASSUME NEW t \in Tasks, PlaceOrder(t) \/ PlaceWithRetry(t) PROVE Inv'
  BY <1>1, PlaceOrderStep
<1>2. ASSUME NEW t \in Tasks, Normalize(t) PROVE Inv'
  BY <1>2, NormalizeStep
<1>3. ASSUME NEW t \in Tasks, FiltersArrive(t) PROVE Inv'
  BY <1>3, FiltersArriveStep
<1>4. ASSUME NEW t \in Tasks, RulesArrive(t) PROVE Inv'
  BY <1>4, RulesArriveStep
<1>5. ASSUME NEW t \in Tasks, Retry(t) \/ Refuse(t) PROVE Inv'
  BY <1>5, RetryStep
<1>6. ASSUME NEW t \in Tasks, Accept(t) PROVE Inv'
  BY <1>6, AcceptStep
<1>7. ASSUME NEW t \in Tasks, AnswerLost(t) PROVE Inv'
  BY <1>7, AnswerLostStep
<1>8. ASSUME NEW t \in Tasks, AnswerArrives(t) PROVE Inv'
  BY <1>8, AnswerArrivesStep
<1>9. ASSUME NEW t \in Tasks, BeginCancel(t) \/ BeginStatus(t) PROVE Inv'
  BY <1>9, BeginOtherStep
<1>10. ASSUME NEW t \in Tasks, CancelAtExchange(t) PROVE Inv'
  BY <1>10, CancelAtExchangeStep
<1>11. ASSUME NEW t \in Tasks, CancelAnswered(t) PROVE Inv'
  BY <1>11, CancelAnsweredStep
<1>12. ASSUME NEW t \in Tasks, StatusAtExchange(t) PROVE Inv'
  BY <1>12, StatusAtExchangeStep
<1>13. ASSUME NEW t \in Tasks, StatusArrives(t) PROVE Inv'
  BY <1>13, StatusArrivesStep
<1>14. ASSUME NEW t \in Tasks, RequestFails(t) PROVE Inv'
  BY <1>14, RequestFailsStep
<1>15. CASE Fill
  BY <1>15, FillStep
<1>16. CASE UNCHANGED vars
  BY <1>16 DEF vars, Inv, RulesTyped, JobsTyped, TablesTyped, TellsOwn, Accounted,
               KnownByBoth, OverlapSeen, Guarded, OneEach, RefreshesKnown, CancelJob, AskJob, At
<1> QED
  BY <1>1, <1>2, <1>3, <1>4, <1>5, <1>6, <1>7, <1>8, <1>9, <1>10, <1>11, <1>12,
     <1>13, <1>14, <1>15, <1>16 DEF Next

(* Every order the exchange holds can be found through the table unless    *)
(* its answer was lost or is under way, and a client id has two only when  *)
(* an answer was lost or two calls overlapped: for all calls and rules.    *)
THEOREM OrdersAlwaysAccountedFor == Spec => []OrdersAccountedFor
<1>1. Inv => OrdersAccountedFor
  BY DEF Inv, Accounted, OneEach, OrdersAccountedFor
<1> QED
  BY <1>1, InvInit, InvNext, PTL DEF Spec
-----------------------------------------------------------------------------
KeysOf(o) == Keys(o.cid, o.number, o.id)

(* What a call was told is so at the exchange, and a key it asked under is *)
(* one of the order's.                                                     *)
Told(j, mk, ob) ==
  /\ (j.at = "placed" /\ j.status # "NEW") => mk[j.number].status = j.status
  /\ j.at = "canceled" => mk[ob[j.object].number].status = "CANCELED"
  /\ j.at \in {"ask", "told"} =>
       /\ j.key \in KeysOf(ob[j.object])
       /\ j.status # "NEW" => mk[ob[j.object].number].status = j.status

ObjectTells(o, mk) ==
  /\ o.number \in DOMAIN mk
  /\ mk[o.number].request.cid = o.cid
  /\ o.status # "NEW" => mk[o.number].status = o.status

TableInv ==
  /\ \A i \in DOMAIN objects : ObjectTells(objects[i], market)
  /\ \A key \in DOMAIN orders : key \in KeysOf(objects[orders[key]])
  /\ \A t \in Tasks : Told(job[t], market, objects)

(* An order at the exchange keeps its request, and a status that is final. *)
Settles ==
  /\ DOMAIN market \subseteq DOMAIN market'
  /\ \A n \in DOMAIN market :
       /\ market'[n].request = market[n].request
       /\ market[n].status # "NEW" => market'[n].status = market[n].status

(* An object keeps the names of its order.                                 *)
SameNames ==
  /\ DOMAIN objects \subseteq DOMAIN objects'
  /\ \A i \in DOMAIN objects :
       /\ objects'[i].cid = objects[i].cid /\ objects'[i].number = objects[i].number
       /\ objects'[i].id = objects[i].id

LEMMA StillTold ==
  ASSUME Inv, TableInv, Settles, SameNames, NEW u \in Tasks
  PROVE  Told(job[u], market', objects')
<1>1. CASE job[u].at = "placed"
  BY <1>1 DEF Inv, TellsOwn, TableInv, Told, Settles
<1>2. CASE job[u].at = "canceled"
  <2>1. job[u].object \in DOMAIN objects
    BY <1>2 DEF Inv, RefreshesKnown, CancelJob
  <2>2. objects[job[u].object].number \in DOMAIN market
    BY <2>1 DEF TableInv, ObjectTells
  <2> QED
    BY <1>2, <2>1, <2>2 DEF TableInv, Told, Settles, SameNames
<1>3. CASE job[u].at \in {"ask", "told"}
  <2>1. job[u].object \in DOMAIN objects
    BY <1>3 DEF Inv, RefreshesKnown, AskJob
  <2>2. objects[job[u].object].number \in DOMAIN market
    BY <2>1 DEF TableInv, ObjectTells
  <2>3. KeysOf(objects'[job[u].object]) = KeysOf(objects[job[u].object])
    BY <2>1 DEF KeysOf, SameNames
  <2>4. /\ job[u].key \in KeysOf(objects[job[u].object])
        /\ job[u].status # "NEW" => market[objects[job[u].object].number].status = job[u].status
    BY <1>3 DEF TableInv, Told
  <2>5. objects'[job[u].object].number = objects[job[u].object].number
    BY <2>1 DEF SameNames
  <2> QED
    BY <1>3, <2>2, <2>3, <2>4, <2>5 DEF Told, Settles
<1> QED
  BY <1>1, <1>2, <1>3 DEF Told

(* A step that leaves the table alone, in which one call goes on.          *)
LEMMA TableQuiet ==
  ASSUME Inv, TableInv, Settles, UNCHANGED tables, NEW t \in Tasks, NEW next,
         job' = [job EXCEPT ![t] = next], Told(next, market', objects')
  PROVE  TableInv'
<1>1. SameNames /\ objects' = objects /\ orders' = orders
  BY DEF SameNames, tables
<1>2. \A i \in DOMAIN objects' : ObjectTells(objects'[i], market')
  BY <1>1 DEF TableInv, ObjectTells, Settles
<1>3. \A u \in Tasks : job'[u] = IF u = t THEN next ELSE job[u]
  BY DEF Inv, JobsTyped
<1>4. \A u \in Tasks : Told(job'[u], market', objects')
  BY <1>1, <1>3, StillTold
<1> QED
  BY <1>1, <1>2, <1>4 DEF TableInv

LEMMA TableNoNews ==
  ASSUME Inv, TableInv, UNCHANGED <<market, tables>>, NEW t \in Tasks, NEW next,
         job' = [job EXCEPT ![t] = next],
         next.at \notin {"placed", "canceled", "ask", "told"}
  PROVE  TableInv'
<1>1. Settles /\ Told(next, market', objects')
  BY DEF Settles, Told
<1> QED
  BY <1>1, TableQuiet

(* place_order and the normaliser before an order is sent.                 *)
LEMMA TableCalls ==
  ASSUME Inv, TableInv, NEW t \in Tasks,
         \/ PlaceOrder(t) \/ PlaceWithRetry(t) \/ Normalize(t) \/ FiltersArrive(t)
         \/ RulesArrive(t) \/ Retry(t) \/ Refuse(t) \/ AnswerLost(t) \/ RequestFails(t)
  PROVE  TableInv'
<1> DEFINE Quiet(next) == next.at \notin {"placed", "canceled", "ask", "told"}
<1>1. \A j \in CallJob : \A next \in Becoming(j) : Quiet(next)
  BY DEF Becoming, Idle
<1>2. RulesTyped
  BY DEF Inv
<1>3. \A j \in CallJob : \A f \in Filters : Quiet(Normalizing(j, f))
  <2> SUFFICES ASSUME NEW j \in CallJob, NEW f \in Filters
               PROVE  Quiet(Normalizing(j, f))
    OBVIOUS
  <2>1. CASE Normalizing(j, f) = Idle
    BY <2>1 DEF Idle
  <2>2. CASE Normalizing(j, f).at = "adjust"
    BY <2>2
  <2>3. CASE Normalizing(j, f) \in Becoming(j)
    BY <1>1, <2>3
  <2> QED
    BY <1>2, <2>1, <2>2, <2>3, NormalizingLemma
<1>4. IsPlacing(job[t]) => job[t] \in CallJob
  BY DEF Inv, JobsTyped
<1>5. UNCHANGED <<market, tables>>
  BY DEF PlaceOrder, PlaceWithRetry, Normalize, FiltersArrive, RulesArrive, Retry, Refuse,
         AnswerLost, RequestFails
<1>6. ASSUME NEW next, Quiet(next), Goes(t, next) PROVE TableInv'
  BY <1>5, <1>6, TableNoNews DEF Goes
<1>7. CASE PlaceOrder(t) \/ PlaceWithRetry(t)
  <2>1. PICK r \in Requests : Goes(t, Offering(Call(r))) \/ Goes(t, Call(r))
    BY <1>7 DEF PlaceOrder, PlaceWithRetry
  <2>2. Quiet(Offering(Call(r))) /\ Quiet(Call(r))
    BY <1>1, <1>2, CallTyped, OfferingLemma
  <2> QED BY <1>6, <2>1, <2>2
<1>8. CASE Normalize(t)
  <2>1. job[t] \in CallJob
    BY <1>4, <1>8 DEF Normalize, At, IsPlacing, Normalizes
  <2>2. CASE Goes(t, [job[t] EXCEPT !.at = "filters"])
    <3>1. [job[t] EXCEPT !.at = "filters"].at = "filters"
      BY <2>1 DEF CallJob
    <3> QED BY <1>6, <2>2, <3>1
  <2>3. ASSUME NEW f \in Filters, Goes(t, Normalizing(job[t], f)) PROVE TableInv'
    BY <1>3, <1>6, <2>1, <2>3
  <2> QED
    BY <1>2, <1>8, <2>2, <2>3, DefaultsTyped DEF Normalize, Loaded, RulesTyped
<1>9. CASE FiltersArrive(t)
  <2>1. job[t] \in CallJob
    BY <1>4, <1>9 DEF FiltersArrive, At, IsPlacing, Normalizes
  <2>2. PICK f \in {AsPrinted(rules), EngineDefaults} :
          \E g \in Loaded(f) : Goes(t, Normalizing(job[t], g))
    BY <1>9 DEF FiltersArrive
  <2>3. PICK g \in Filters : Goes(t, Normalizing(job[t], g))
    BY <1>2, <2>2, PrintedTyped, DefaultsTyped DEF RulesTyped, Loaded
  <2> QED BY <1>3, <1>6, <2>1, <2>3
<1>10. CASE RulesArrive(t)
  <2>1. job[t] \in CallJob
    BY <1>4, <1>10 DEF RulesArrive, At, IsPlacing, Creates
  <2>2. clientRules' \in Filters
    BY <1>2, <1>10, DefaultsTyped, ClientReadsTyped DEF RulesArrive, RulesTyped
  <2>3. Quiet(Sending(job[t], clientRules'))
    BY <1>1, <2>1, <2>2, SendingLemma
  <2>4. job' = [job EXCEPT ![t] = Sending(job[t], clientRules')]
    BY <1>10 DEF RulesArrive, Goes
  <2> QED BY <1>5, <2>3, <2>4, TableNoNews
<1>11. CASE Retry(t) \/ Refuse(t)
  <2>1. job[t] \in CallJob
    BY <1>4, <1>11 DEF Retry, Refuse, At, IsPlacing, Creates
  <2>2. Quiet(Creating(job[t])) /\ Quiet(Failing(job[t]))
    BY <1>1, <1>2, <2>1, CreatingLemma, FailingLemma
  <2> QED BY <1>6, <1>11, <2>2 DEF Retry, Refuse
<1>12. CASE AnswerLost(t)
  <2> DEFINE g == [job[t] EXCEPT !.number = 0]
             j == [g EXCEPT !.status = "NEW"]
  <2>1. job[t] \in CallJob
    BY <1>4, <1>12 DEF AnswerLost, At, IsPlacing, Creates
  <2>2. g \in CallJob
    BY <2>1 DEF CallJob
  <2>3. Goes(t, Failing(j))
    BY <1>12 DEF AnswerLost
  <2> HIDE DEF g
  <2>4. j \in CallJob
    BY <2>2 DEF CallJob
  <2> HIDE DEF j
  <2> QED BY <1>1, <1>6, <2>3, <2>4, FailingLemma
<1>13. CASE RequestFails(t)
  BY <1>6, <1>13 DEF RequestFails, Idle
<1> QED
  BY <1>7, <1>8, <1>9, <1>10, <1>11, <1>12, <1>13

(* The exchange takes an order and the call is told of it.                 *)
LEMMA TableAccept ==
  ASSUME Inv, TableInv, NEW t \in Tasks, Accept(t)
  PROVE  TableInv'
<1> DEFINE n == Len(market) + 1
<1>1. job[t] \in CallJob
  BY DEF Accept, At, IsPlacing, Creates, Inv, JobsTyped
<1>2. PICK status \in {"NEW", "FILLED"} :
        /\ market' = Append(market, [request |-> job[t].request, status |-> status,
                                     qty |-> job[t].sentQty, price |-> job[t].sentPrice])
        /\ Goes(t, [job[t] EXCEPT !.at = "placed", !.number = n, !.status = status])
  BY DEF Accept
<1>3. market \in Seq(MarketOrder) /\ n \in Nat
  BY DEF Inv, TablesTyped
<1>4. Settles /\ market'[n].status = status
  BY <1>2, <1>3 DEF Settles
<1> DEFINE next == [job[t] EXCEPT !.at = "placed", !.number = n, !.status = status]
<1>5. next.at = "placed" /\ next.number = n /\ next.status = status
  <2> DEFINE g == [job[t] EXCEPT !.at = "placed"]
             h == [g EXCEPT !.number = n]
             k == [h EXCEPT !.status = status]
  <2>1. g \in CallJob /\ g.at = "placed"
    BY <1>1 DEF CallJob, Creates
  <2> HIDE DEF g
  <2>2. h \in CallJob /\ h.at = "placed" /\ h.number = n
    BY <1>3, <2>1 DEF CallJob
  <2> HIDE DEF h
  <2>3. k \in CallJob /\ k.at = "placed" /\ k.number = n /\ k.status = status
    BY <2>2 DEF CallJob
  <2>4. next = k
    BY DEF k, h, g
  <2> HIDE DEF next, k
  <2> QED BY <2>3, <2>4
<1>6. job' = [job EXCEPT ![t] = next] /\ UNCHANGED tables
  BY <1>2 DEF Goes, Accept
<1> HIDE DEF next, n
<1>7. Told(next, market', objects')
  BY <1>4, <1>5 DEF Told
<1> QED
  BY <1>4, <1>6, <1>7, TableQuiet

LEMMA SettlesWhen ==
  ASSUME Inv, NEW n \in DOMAIN market, market[n].status = "NEW",
         NEW status \in {"FILLED", "CANCELED"},
         market' = [market EXCEPT ![n].status = status]
  PROVE  Settles /\ market'[n].status = status
<1> DEFINE o == [market[n] EXCEPT !.status = status]
<1>1. market \in Seq(MarketOrder) /\ market[n] \in MarketOrder
  BY DEF Inv, TablesTyped
<1>2. o.request = market[n].request /\ o.status = status
  BY <1>1 DEF MarketOrder
<1>3. market' = [market EXCEPT ![n] = o]
  OBVIOUS
<1> HIDE DEF o
<1> QED
  BY <1>1, <1>2, <1>3 DEF Settles

LEMMA TableFill ==
  ASSUME Inv, TableInv, Fill
  PROVE  TableInv'
<1>1. PICK n \in DOMAIN market :
        market[n].status = "NEW" /\ market' = [market EXCEPT ![n].status = "FILLED"]
  BY DEF Fill
<1>2. Settles
  BY <1>1, SettlesWhen
<1>3. UNCHANGED <<tables, job>>
  BY DEF Fill
<1>4. SameNames
  BY <1>3 DEF SameNames, tables
<1>5. \A i \in DOMAIN objects : ObjectTells(objects[i], market')
  BY <1>2 DEF TableInv, ObjectTells, Settles
<1> QED
  BY <1>2, <1>3, <1>4, <1>5, StillTold DEF TableInv, tables

LEMMA TableCancel ==
  ASSUME Inv, TableInv, NEW t \in Tasks, CancelAtExchange(t)
  PROVE  TableInv'
<1> DEFINE n    == objects[job[t].object].number
           next == [job[t] EXCEPT !.at = "canceled"]
<1>1. job[t] \in CancelJob /\ job[t].object \in DOMAIN objects
  BY DEF CancelAtExchange, At, Inv, RefreshesKnown, CancelJob
<1>2. n \in DOMAIN market
  BY <1>1 DEF TableInv, ObjectTells
<1>3. Settles /\ market'[n].status = "CANCELED"
  BY <1>2, SettlesWhen DEF CancelAtExchange
<1>4. next.at = "canceled" /\ next.object = job[t].object
  BY <1>1 DEF CancelJob
<1>5. UNCHANGED tables /\ job' = [job EXCEPT ![t] = next]
  BY DEF CancelAtExchange, Goes
<1> HIDE DEF next
<1>6. Told(next, market', objects')
  BY <1>3, <1>4, <1>5 DEF Told, tables
<1> QED
  BY <1>3, <1>5, <1>6, TableQuiet

(* cancel_order and get_order_status begin with what the table says.       *)
LEMMA TableBegin ==
  ASSUME Inv, TableInv, NEW t \in Tasks, BeginCancel(t) \/ BeginStatus(t)
  PROVE  TableInv'
<1>1. UNCHANGED <<market, tables>>
  BY DEF BeginCancel, BeginStatus
<1>2. Settles
  BY <1>1 DEF Settles
<1>3. CASE BeginCancel(t)
  <2>1. PICK key \in DOMAIN orders : Goes(t, [at |-> "cancel", object |-> orders[key]])
    BY <1>3 DEF BeginCancel
  <2> DEFINE next == [at |-> "cancel", object |-> orders[key]]
  <2>2. next.at = "cancel" /\ job' = [job EXCEPT ![t] = next]
    BY <2>1 DEF Goes
  <2> HIDE DEF next
  <2> QED BY <1>1, <2>2, TableNoNews
<1>4. CASE BeginStatus(t)
  <2>1. PICK key \in DOMAIN orders :
          Goes(t, [at |-> "ask", key |-> key, object |-> orders[key], status |-> "NEW"])
    BY <1>4 DEF BeginStatus
  <2> DEFINE next == [at |-> "ask", key |-> key, object |-> orders[key], status |-> "NEW"]
  <2>2. /\ next.at = "ask" /\ next.key = key /\ next.object = orders[key]
        /\ next.status = "NEW" /\ job' = [job EXCEPT ![t] = next]
    BY <2>1 DEF Goes
  <2> HIDE DEF next
  <2>3. Told(next, market', objects')
    BY <1>1, <2>2 DEF Told, TableInv, tables
  <2> QED BY <1>1, <1>2, <2>2, <2>3, TableQuiet
<1> QED
  BY <1>3, <1>4

LEMMA TableAsked ==
  ASSUME Inv, TableInv, NEW t \in Tasks, StatusAtExchange(t)
  PROVE  TableInv'
<1> DEFINE g    == [job[t] EXCEPT !.at = "told"]
           st   == market[objects[job[t].object].number].status
           next == [g EXCEPT !.status = st]
<1>1. job[t] \in AskJob /\ job[t].at = "ask"
  BY DEF StatusAtExchange, At, Inv, RefreshesKnown
<1>2. g \in AskJob /\ g.at = "told" /\ g.key = job[t].key /\ g.object = job[t].object
  BY <1>1 DEF AskJob
<1>3. job' = [job EXCEPT ![t] = next] /\ UNCHANGED <<market, tables>>
  BY DEF StatusAtExchange, Goes
<1> HIDE DEF g
<1>4. /\ next.at = "told" /\ next.key = job[t].key /\ next.object = job[t].object
      /\ next.status = st
  BY <1>2 DEF AskJob
<1> HIDE DEF next
<1>5. Told(next, market', objects')
  BY <1>1, <1>3, <1>4 DEF Told, TableInv, tables
<1>6. Settles
  BY <1>3 DEF Settles
<1> QED
  BY <1>3, <1>5, <1>6, TableQuiet

(* A step that changes the table and ends the call: the objects there stay *)
(* those of their orders.                                                  *)
LEMMA TableEnds ==
  ASSUME Inv, TableInv, NEW t \in Tasks, job' = [job EXCEPT ![t] = Idle],
         market' = market, SameNames,
         \A i \in DOMAIN objects' : ObjectTells(objects'[i], market),
         \A key \in DOMAIN orders' : key \in KeysOf(objects'[orders'[key]])
  PROVE  TableInv'
<1>1. Settles
  BY DEF Settles
<1>2. \A u \in Tasks : job'[u] = IF u = t THEN Idle ELSE job[u]
  BY DEF Inv, JobsTyped
<1>3. \A u \in Tasks : Told(job'[u], market', objects')
  BY <1>1, <1>2, StillTold DEF Told, Idle
<1> QED
  BY <1>3 DEF TableInv

LEMMA TableAnswer ==
  ASSUME Inv, TableInv, NEW t \in Tasks, AnswerArrives(t)
  PROVE  TableInv'
<1> DEFINE o    == Len(objects) + 1
           new  == OrderOf(job[t])
           keys == KeysOf(new)
<1>1. job[t].at = "placed" /\ job[t] \in CallJob
  BY DEF AnswerArrives, At, IsPlacing, Creates, Inv, JobsTyped
<1>2. /\ job[t].number \in DOMAIN market
      /\ market[job[t].number].request = job[t].request
      /\ job[t].status # "NEW" => market[job[t].number].status = job[t].status
  BY <1>1 DEF Inv, TellsOwn, TableInv, Told
<1>3. ObjectTells(new, market)
  BY <1>2 DEF ObjectTells, OrderOf
<1>4. objects \in Seq(OrderObject) /\ objects' = Append(objects, new) /\ orders' = Under(keys)
  BY DEF Inv, TablesTyped, AnswerArrives, Register, KeysOf
<1> HIDE DEF new
<1>5. /\ DOMAIN objects' = DOMAIN objects \union {o} /\ o \notin DOMAIN objects
      /\ objects'[o] = new
      /\ \A i \in DOMAIN objects : objects'[i] = objects[i]
  BY <1>4
<1>6. /\ DOMAIN orders' = DOMAIN orders \union keys
      /\ \A key \in DOMAIN orders' :
           orders'[key] = IF key \in keys THEN o ELSE orders[key]
  <2> HIDE DEF keys
  <2> QED BY <1>4, UnderKeys
<1>7. \A key \in DOMAIN orders : orders[key] \in DOMAIN objects
  BY DEF Inv, RefreshesKnown
<1>8. \A key \in DOMAIN orders' : key \in KeysOf(objects'[orders'[key]])
  <2> SUFFICES ASSUME NEW key \in DOMAIN orders'
               PROVE  key \in KeysOf(objects'[orders'[key]])
    OBVIOUS
  <2>1. CASE key \in keys
    BY <1>5, <1>6, <2>1
  <2>2. CASE key \notin keys
    BY <1>5, <1>6, <1>7, <2>2 DEF TableInv
  <2> QED BY <2>1, <2>2
<1>9. \A i \in DOMAIN objects' : ObjectTells(objects'[i], market)
  BY <1>3, <1>5 DEF TableInv
<1>10. SameNames
  BY <1>5 DEF SameNames
<1>11. market' = market /\ job' = [job EXCEPT ![t] = Idle]
  BY DEF AnswerArrives, Goes
<1> QED
  BY <1>8, <1>9, <1>10, <1>11, TableEnds

LEMMA TableCanceled ==
  ASSUME Inv, TableInv, NEW t \in Tasks, CancelAnswered(t)
  PROVE  TableInv'
<1> DEFINE i == job[t].object
           o == [objects[i] EXCEPT !.status = "CANCELED"]
<1>1. i \in DOMAIN objects /\ job[t].at = "canceled"
  BY DEF CancelAnswered, At, Inv, RefreshesKnown, CancelJob
<1>2. objects \in Seq(OrderObject) /\ objects[i] \in OrderObject
  BY <1>1 DEF Inv, TablesTyped
<1>3. /\ o.number = objects[i].number /\ o.cid = objects[i].cid /\ o.id = objects[i].id
      /\ o.status = "CANCELED"
  BY <1>2 DEF OrderObject
<1>4. /\ objects' = [objects EXCEPT ![i] = o] /\ market' = market /\ orders' = orders
      /\ job' = [job EXCEPT ![t] = Idle]
  BY DEF CancelAnswered, Goes
<1>5. market[objects[i].number].status = "CANCELED"
  BY <1>1 DEF TableInv, Told
<1> HIDE DEF o
<1>6. /\ DOMAIN objects' = DOMAIN objects /\ objects'[i] = o
      /\ \A k \in DOMAIN objects : k # i => objects'[k] = objects[k]
  BY <1>1, <1>2, <1>4
<1>7. SameNames
  BY <1>3, <1>6 DEF SameNames
<1>8. ObjectTells(o, market)
  BY <1>1, <1>3, <1>5 DEF TableInv, ObjectTells
<1>9. \A k \in DOMAIN objects' : ObjectTells(objects'[k], market)
  BY <1>6, <1>8 DEF TableInv
<1>10. \A key \in DOMAIN orders' : key \in KeysOf(objects'[orders'[key]])
  <2>1. \A k \in DOMAIN objects : KeysOf(objects'[k]) = KeysOf(objects[k])
    BY <1>7 DEF SameNames, KeysOf
  <2> QED BY <1>4, <2>1 DEF TableInv, Inv, RefreshesKnown
<1> QED
  BY <1>4, <1>7, <1>9, <1>10, TableEnds

LEMMA TableRefreshed ==
  ASSUME Inv, TableInv, NEW t \in Tasks, StatusArrives(t)
  PROVE  TableInv'
<1> DEFINE old  == objects[job[t].object]
           new  == [old EXCEPT !.status = job[t].status]
           o    == Len(objects) + 1
           keys == {job[t].key, <<"ext", old.number>>}
<1>1. job[t].at = "told" /\ job[t].object \in DOMAIN objects
  BY DEF StatusArrives, At, Inv, RefreshesKnown, AskJob
<1>2. objects \in Seq(OrderObject) /\ old \in OrderObject
  BY <1>1 DEF Inv, TablesTyped
<1>3. /\ new.number = old.number /\ new.cid = old.cid /\ new.id = old.id
      /\ new.status = job[t].status
  BY <1>2 DEF OrderObject
<1>4. /\ objects' = Append(objects, new) /\ orders' = Under(keys) /\ market' = market
      /\ job' = [job EXCEPT ![t] = Idle]
  BY DEF StatusArrives, Refreshed, Goes
<1>5. /\ job[t].key \in KeysOf(old)
      /\ job[t].status # "NEW" => market[old.number].status = job[t].status
  BY <1>1 DEF TableInv, Told
<1>6. ObjectTells(old, market)
  BY <1>1 DEF TableInv
<1> HIDE DEF new, old
<1>7. ObjectTells(new, market)
  BY <1>3, <1>5, <1>6 DEF ObjectTells
<1>8. keys \subseteq KeysOf(new)
  BY <1>3, <1>5 DEF KeysOf, Keys
<1>9. /\ DOMAIN objects' = DOMAIN objects \union {o} /\ o \notin DOMAIN objects
      /\ objects'[o] = new
      /\ \A i \in DOMAIN objects : objects'[i] = objects[i]
  BY <1>2, <1>4
<1>10. /\ DOMAIN orders' = DOMAIN orders \union keys
       /\ \A key \in DOMAIN orders' :
            orders'[key] = IF key \in keys THEN o ELSE orders[key]
  <2> HIDE DEF keys
  <2> QED BY <1>4, UnderKeys
<1> HIDE DEF keys, o
<1>11. \A key \in DOMAIN orders' : key \in KeysOf(objects'[orders'[key]])
  <2> SUFFICES ASSUME NEW key \in DOMAIN orders'
               PROVE  key \in KeysOf(objects'[orders'[key]])
    OBVIOUS
  <2>1. CASE key \in keys
    BY <1>8, <1>9, <1>10, <2>1
  <2>2. CASE key \notin keys
    BY <1>9, <1>10, <2>2 DEF TableInv, Inv, RefreshesKnown
  <2> QED BY <2>1, <2>2
<1>12. \A i \in DOMAIN objects' : ObjectTells(objects'[i], market)
  BY <1>7, <1>9 DEF TableInv
<1>13. SameNames
  BY <1>9 DEF SameNames
<1> QED
  BY <1>4, <1>11, <1>12, <1>13, TableEnds

LEMMA TableInitial == Init => TableInv
<1> SUFFICES ASSUME Init PROVE TableInv
  OBVIOUS
<1>1. /\ DOMAIN objects = {} /\ DOMAIN orders = {} /\ \A t \in Tasks : job[t].at = "idle"
  BY DEF Init, Idle
<1> QED
  BY <1>1 DEF TableInv, Told

LEMMA TableNext == Inv /\ TableInv /\ [Next]_vars => TableInv'
<1> SUFFICES ASSUME Inv, TableInv, [Next]_vars PROVE TableInv'
  OBVIOUS
<1>1. ASSUME NEW t \in Tasks,
             \/ PlaceOrder(t) \/ PlaceWithRetry(t) \/ Normalize(t) \/ FiltersArrive(t)
             \/ RulesArrive(t) \/ Retry(t) \/ Refuse(t) \/ AnswerLost(t) \/ RequestFails(t)
      PROVE  TableInv'
  BY <1>1, TableCalls
<1>2. ASSUME NEW t \in Tasks, Accept(t) \/ CancelAtExchange(t) \/ StatusAtExchange(t)
      PROVE  TableInv'
  BY <1>2, TableAccept, TableCancel, TableAsked
<1>3. ASSUME NEW t \in Tasks, BeginCancel(t) \/ BeginStatus(t)
      PROVE  TableInv'
  BY <1>3, TableBegin
<1>4. ASSUME NEW t \in Tasks, AnswerArrives(t) \/ CancelAnswered(t) \/ StatusArrives(t)
      PROVE  TableInv'
  BY <1>4, TableAnswer, TableCanceled, TableRefreshed
<1>5. CASE Fill
  BY <1>5, TableFill
<1>6. CASE UNCHANGED vars
  BY <1>6 DEF vars, TableInv, Told
<1> QED
  BY <1>1, <1>2, <1>3, <1>4, <1>5, <1>6 DEF Next

(* However placing, cancelling and asking overlap, the table leads under   *)
(* every key to the order the key names, and calls no order filled or      *)
(* cancelled that is not so at the exchange.                               *)
THEOREM TableAlwaysTells == Spec => []TableTellsTheExchange
<1>1. Inv /\ TableInv => TableTellsTheExchange
  BY DEF Inv, RefreshesKnown, TableInv, ObjectTells, KeysOf, TableTellsTheExchange
<1> QED
  BY <1>1, InvInit, InvNext, TableInitial, TableNext, PTL DEF Spec
-----------------------------------------------------------------------------
LEMMA Division ==
  ASSUME NEW x \in Nat, NEW unit \in Nat \ {0}
  PROVE  /\ x \div unit \in Nat
         /\ x % unit \in 0 .. (unit - 1)
         /\ x = unit * (x \div unit) + (x % unit)
OBVIOUS

(* Rounding down gives a multiple of the unit and loses less than a unit.  *)
LEMMA RoundDownLemma ==
  ASSUME NEW x \in Nat, NEW unit \in Nat \ {0}
  PROVE  /\ RoundDown(x, unit) \in Nat
         /\ RoundDown(x, unit) = unit * (x \div unit)
         /\ RoundDown(x, unit) <= x
         /\ x - RoundDown(x, unit) < unit
<1>1. unit * (x \div unit) \in Nat
  BY Division
<1> QED
  BY <1>1, Division DEF RoundDown

(* Rounding to the nearest is off by half a unit at most.                  *)
LEMMA RoundHalfUpLemma ==
  ASSUME NEW y \in Nat, NEW unit \in Nat \ {0}
  PROVE  /\ RoundHalfUp(y, unit) \in Nat
         /\ 2 * RoundHalfUp(y, unit) <= 2 * y + unit
         /\ 2 * y <= 2 * RoundHalfUp(y, unit) + unit
<1> DEFINE x == 2 * y + unit
           u == 2 * unit
           k == x \div u
           r == RoundDown(x, u)
<1>1. x \in Nat /\ u \in Nat \ {0}
  OBVIOUS
<1>2. r = u * k /\ k \in Nat /\ r <= x /\ x - r < u /\ r \in Nat
  <2> HIDE DEF x, u
  <2> QED BY <1>1, RoundDownLemma, Division
<1>3. unit * k \in Nat /\ u * k = 2 * (unit * k)
  <2> HIDE DEF k
  <2> QED BY <1>1, <1>2
<1>4. r \div 2 = unit * k
  <2> HIDE DEF r, x, u, k
  <2> QED BY <1>2, <1>3
<1>5. RoundHalfUp(y, unit) = unit * k
  BY <1>4 DEF RoundHalfUp
<1> HIDE DEF r, k
<1> QED
  BY <1>1, <1>2, <1>3, <1>5

(* What the client sends: never more than it was given, and less by under  *)
(* one lot; a price off by at most half a tick (_normalize_qty and         *)
(* _normalize_price, binance_exchange_client.py:135-165).                  *)
THEOREM ClientRounds ==
  ASSUME NEW f \in Filters, NEW qty \in Nat, NEW price \in Nat, NEW type \in Types
  PROVE  /\ ClientQty(f, qty, type) \in Nat /\ ClientQty(f, qty, type) <= qty
         /\ qty - ClientQty(f, qty, type) < f.lot[type]
         /\ ClientPrice(f, price) \in Nat
         /\ 2 * ClientPrice(f, price) <= 2 * price + f.tick
         /\ 2 * price <= 2 * ClientPrice(f, price) + f.tick
<1>1. f.lot[type] \in Nat \ {0} /\ f.tick \in Nat \ {0}
  BY DEF Filters
<1>2. /\ ClientQty(f, qty, type) \in Nat /\ ClientQty(f, qty, type) <= qty
      /\ qty - ClientQty(f, qty, type) < f.lot[type]
  BY <1>1, RoundDownLemma DEF ClientQty
<1>3. CASE price = NoPrice
  <2>1. ClientPrice(f, price) = 0 /\ price = 0
    BY <1>3 DEF ClientPrice, NoPrice
  <2> QED BY <1>1, <1>2, <2>1
<1>4. CASE price # NoPrice
  <2>1. ClientPrice(f, price) = RoundHalfUp(price, f.tick)
    BY <1>4 DEF ClientPrice
  <2> QED BY <1>1, <1>2, <2>1, RoundHalfUpLemma
<1> QED
  BY <1>3, <1>4

(* The engine's quantity keeps the limits it knows, and is more than was   *)
(* asked for only when it was raised to the minimum; its price is off by   *)
(* half a tick or at a limit (binance_filters.py:85-150).                  *)
THEOREM EngineRounds ==
  ASSUME NEW f, WellFormed(f), NEW qty \in Nat, NEW price \in Nat, NEW type \in Types
  PROVE  /\ EngineQty(f, qty, type) \in Nat
         /\ f.minQty[type] <= EngineQty(f, qty, type)
         /\ EngineQty(f, qty, type) <= f.maxQty[type]
         /\ EngineQty(f, qty, type) <= qty \/ EngineQty(f, qty, type) = f.minQty[type]
         /\ EnginePrice(f, price) \in Nat
         /\ \/ 2 * EnginePrice(f, price) <= 2 * price + f.tick
            \/ EnginePrice(f, price) = f.minPrice
         /\ \/ 2 * price <= 2 * EnginePrice(f, price) + f.tick
            \/ EnginePrice(f, price) = f.maxPrice
<1>1. /\ f.lot[type] \in Nat \ {0} /\ f.tick \in Nat \ {0}
      /\ f.minQty[type] \in Nat /\ f.maxQty[type] \in Nat
      /\ f.minQty[type] <= f.maxQty[type]
      /\ f.minPrice \in Nat /\ f.maxPrice \in Nat /\ f.minPrice <= f.maxPrice
  BY DEF WellFormed, Filters
<1>2. RoundDown(qty, f.lot[type]) \in Nat /\ RoundDown(qty, f.lot[type]) <= qty
  BY <1>1, RoundDownLemma
<1>3. /\ RoundHalfUp(price, f.tick) \in Nat
      /\ 2 * RoundHalfUp(price, f.tick) <= 2 * price + f.tick
      /\ 2 * price <= 2 * RoundHalfUp(price, f.tick) + f.tick
  BY <1>1, RoundHalfUpLemma
<1>4. /\ EngineQty(f, qty, type) \in Nat
      /\ f.minQty[type] <= EngineQty(f, qty, type)
      /\ EngineQty(f, qty, type) <= f.maxQty[type]
      /\ EngineQty(f, qty, type) <= qty \/ EngineQty(f, qty, type) = f.minQty[type]
  BY <1>1, <1>2 DEF EngineQty, Clamp
<1>5. CASE price = NoPrice
  BY <1>1, <1>4, <1>5 DEF EnginePrice, NoPrice
<1>6. CASE price # NoPrice
  <2>1. EnginePrice(f, price) = Clamp(RoundHalfUp(price, f.tick), f.minPrice, f.maxPrice)
    BY <1>6 DEF EnginePrice
  <2> DEFINE x == RoundHalfUp(price, f.tick)
  <2> HIDE DEF x
  <2>2. /\ x \in Nat /\ 2 * x <= 2 * price + f.tick /\ 2 * price <= 2 * x + f.tick
        /\ EnginePrice(f, price) = Clamp(x, f.minPrice, f.maxPrice)
    BY <1>3, <2>1 DEF x
  <2> QED BY <1>1, <1>4, <2>2 DEF Clamp
<1> QED
  BY <1>5, <1>6

(* Half a percent up and down.                                             *)
LEMMA UpDown ==
  ASSUME NEW x \in Nat
  PROVE  Up(x) \in Nat /\ Down(x) \in Nat /\ Down(x) <= x /\ x <= Up(x)
<1>1. /\ 201 * x \in Nat /\ 199 * x \in Nat /\ 200 \in Nat \ {0}
  OBVIOUS
<1>2. /\ (201 * x) \div 200 \in Nat /\ (201 * x) % 200 \in 0 .. 199
      /\ 201 * x = 200 * ((201 * x) \div 200) + ((201 * x) % 200)
  BY <1>1, Division
<1>3. /\ (199 * x) \div 200 \in Nat /\ (199 * x) % 200 \in 0 .. 199
      /\ 199 * x = 200 * ((199 * x) \div 200) + ((199 * x) % 200)
  BY <1>1, Division
<1> QED
  BY <1>2, <1>3 DEF Up, Down

LEMMA PrintedFields ==
  ASSUME NEW f \in Filters
  PROVE  /\ AsPrinted(f).tick = 1 /\ AsPrinted(f).minQty = f.minQty
         /\ AsPrinted(f).maxQty = f.maxQty
         /\ AsPrinted(f).minPrice = f.minPrice /\ AsPrinted(f).maxPrice = f.maxPrice
<1> DEFINE g == [f EXCEPT !.lot = [type \in Types |-> 1]]
<1>1. /\ g \in Filters /\ g.minQty = f.minQty /\ g.maxQty = f.maxQty
      /\ g.minPrice = f.minPrice /\ g.maxPrice = f.maxPrice
  BY DEF Filters
<1>2. AsPrinted(f) = [g EXCEPT !.tick = 1]
  BY DEF AsPrinted
<1> HIDE DEF g
<1> QED
  BY <1>1, <1>2 DEF Filters

LEMMA DefaultsFields ==
  /\ WellFormed(ClientDefaults) /\ WellFormed(EngineDefaults)
  /\ ClientDefaults.tick = DefaultUnit
  /\ \A type \in Types : ClientDefaults.lot[type] = DefaultUnit
  /\ EngineDefaults.tick = DefaultUnit
  /\ \A type \in Types : EngineDefaults.minQty[type] = 0
  /\ EngineDefaults.minPrice = 0 /\ EngineDefaults.maxPrice = Huge
<1>1. 0 <= Huge /\ {DefaultUnit, DefaultNotional, Huge} \subseteq Nat \ {0}
  BY FilterAssumption
<1> QED
  BY <1>1, DefaultsTyped DEF ClientDefaults, EngineDefaults, Defaults, WellFormed
-----------------------------------------------------------------------------
(* A call in the normaliser's loop: the price was moved once at most, and  *)
(* after it the quantity.                                                  *)
Wanted(j) ==
  LET r == j.request
  IN  /\ r.normalized
      /\ j.price \in {r.price, Up(r.price), Down(r.price)}
      /\ j.adjusts = 0 => j.price = r.price
      /\ j.qty \in {r.qty, Up(r.qty), Down(r.qty)}
      /\ j.adjusts < 2 => j.qty = r.qty

(* What create_order is called with: the request's own quantity and price, *)
(* or the engine's.                                                        *)
Offered(r, q, p) ==
  /\ q \in Nat /\ p \in Nat
  /\ IF r.normalized
     THEN /\ q <= rules.minQty[r.type] \/ q <= Up(r.qty)
          /\ r.price # NoPrice =>
               /\ 2 * p <= 2 * Up(r.price) + DefaultUnit \/ p <= rules.minPrice
               /\ 2 * Down(r.price) <= 2 * p + DefaultUnit \/ p >= rules.maxPrice
     ELSE q = r.qty /\ p = r.price

(* What is sent; un tells whether the rules could not be fetched once.     *)
SentFits(r, q, p, un) ==
  /\ IF r.normalized
     THEN q <= rules.minQty[r.type] \/ q <= Up(r.qty)
     ELSE q <= r.qty /\ (r.qty - q < rules.lot[r.type] \/ (un /\ r.qty - q < DefaultUnit))
  /\ r.price # NoPrice => PriceOf(r, p)
  /\ (~ un /\ rules.minimumIn = "MIN_NOTIONAL" /\ p # NoPrice) =>
       p * q >= rules.minNotional

Fits(j, un) ==
  /\ j.at \in Normalizes => Wanted(j)
  /\ j.at \in Creates => Offered(j.request, j.qty, j.price)
  /\ j.at \in {"sent", "placed"} => SentFits(j.request, j.sentQty, j.sentPrice, un)

(* The rules in the caches are the exchange's, as read, or the defaults.   *)
ClientKnows(f, un) == f = ClientReads(rules) \/ (f = ClientDefaults /\ un)
EngineKnows(f)     == f \in {AsPrinted(rules), EngineDefaults}

WithinInv ==
  /\ WellFormed(rules) /\ unfetched \in BOOLEAN
  /\ clientRules = None \/ ClientKnows(clientRules, unfetched)
  /\ engineRules = None \/ EngineKnows(engineRules)
  /\ \A t \in Tasks : Fits(job[t], unfetched)
  /\ \A n \in DOMAIN market :
       SentFits(market[n].request, market[n].qty, market[n].price, unfetched)

(* The invariant after a step that leaves the rules as they are.           *)
WithinAfter ==
  /\ WellFormed(rules) /\ unfetched' \in BOOLEAN
  /\ clientRules' = None \/ ClientKnows(clientRules', unfetched')
  /\ engineRules' = None \/ EngineKnows(engineRules')
  /\ \A t \in Tasks : Fits(job'[t], unfetched')
  /\ \A n \in DOMAIN market' :
       SentFits(market'[n].request, market'[n].qty, market'[n].price, unfetched')

LEMMA WithinPrimed ==
  ASSUME rules' = rules
  PROVE  WithinInv' <=> WithinAfter
BY ZenonT(60)
   DEF WithinInv, WithinAfter, Fits, Wanted, Offered, SentFits, PriceOf, ClientKnows, EngineKnows

LEMMA RequestTyped ==
  ASSUME NEW r \in Requests
  PROVE  r.qty \in Nat /\ r.price \in 0 .. Huge /\ r.type \in Types /\ r.normalized \in BOOLEAN
BY LiveOrdersAssumption

LEMMA ClientSends ==
  ASSUME WellFormed(rules), NEW un \in BOOLEAN, NEW f, ClientKnows(f, un),
         NEW r \in Requests, NEW q, NEW p, Offered(r, q, p),
         ClientAccepts(f, ClientQty(f, q, r.type), ClientPrice(f, p))
  PROVE  SentFits(r, ClientQty(f, q, r.type), ClientPrice(f, p), un)
<1> DEFINE a == ClientQty(f, q, r.type)
           b == ClientPrice(f, p)
<1>1. r.qty \in Nat /\ r.price \in Nat /\ r.type \in Types /\ r.normalized \in BOOLEAN
  BY RequestTyped, FilterAssumption
<1>2. f \in Filters /\ rules \in Filters /\ q \in Nat /\ p \in Nat
  BY DefaultsTyped, ClientReadsTyped DEF ClientKnows, WellFormed, Offered
<1>3. /\ a \in Nat /\ a <= q /\ q - a < f.lot[r.type]
      /\ b \in Nat /\ 2 * b <= 2 * p + f.tick /\ 2 * p <= 2 * b + f.tick
  BY <1>1, <1>2, ClientRounds
<1>4. /\ f.tick = rules.tick \/ f.tick = DefaultUnit
      /\ f.lot[r.type] = rules.lot[r.type] \/ (un /\ f.lot[r.type] = DefaultUnit)
  BY <1>1, <1>2, DefaultsFields, ClientReadsTyped DEF ClientKnows
<1>5. /\ rules.tick \in Nat /\ DefaultUnit \in Nat /\ f.tick \in Nat
      /\ rules.lot[r.type] \in Nat /\ rules.minQty[r.type] \in Nat
      /\ rules.minPrice \in Nat /\ rules.maxPrice \in Nat /\ rules.minNotional \in Nat
  BY <1>1, <1>2, FilterAssumption DEF Filters
<1>6. Up(r.qty) \in Nat /\ Up(r.price) \in Nat /\ Down(r.price) \in Nat
  BY <1>1, UpDown
<1>7. (~ un /\ rules.minimumIn = "MIN_NOTIONAL" /\ b # NoPrice) =>
        b * a >= rules.minNotional
  <2> SUFFICES ASSUME ~ un, rules.minimumIn = "MIN_NOTIONAL", b # NoPrice
               PROVE  b * a >= rules.minNotional
    OBVIOUS
  <2>1. a * b >= rules.minNotional
    BY DEF ClientAccepts, ClientKnows, ClientReads
  <2> QED
    <3> HIDE DEF a, b
    <3> QED BY <1>3, <2>1
<1> HIDE DEF a, b
<1>8. IF r.normalized
      THEN a <= rules.minQty[r.type] \/ a <= Up(r.qty)
      ELSE a <= r.qty /\ (r.qty - a < rules.lot[r.type] \/ (un /\ r.qty - a < DefaultUnit))
  BY <1>1, <1>2, <1>3, <1>4, <1>5, <1>6 DEF Offered
<1>9. r.price # NoPrice => PriceOf(r, b)
  BY <1>1, <1>2, <1>3, <1>4, <1>5, <1>6 DEF Offered, PriceOf
<1> QED
  BY <1>7, <1>8, <1>9 DEF SentFits, a, b

LEMMA EngineOffers ==
  ASSUME WellFormed(rules), NEW f, EngineKnows(f), NEW r \in Requests, r.normalized,
         NEW q \in {r.qty, Up(r.qty), Down(r.qty)},
         NEW p \in {r.price, Up(r.price), Down(r.price)}
  PROVE  Offered(r, EngineQty(f, q, r.type), EnginePrice(f, p))
<1> DEFINE a == EngineQty(f, q, r.type)
           b == EnginePrice(f, p)
<1>1. r.qty \in Nat /\ r.price \in Nat /\ r.price <= Huge /\ r.type \in Types
  BY RequestTyped, FilterAssumption
<1>2. /\ Up(r.qty) \in Nat /\ Down(r.qty) \in Nat /\ Down(r.qty) <= r.qty /\ r.qty <= Up(r.qty)
      /\ Up(r.price) \in Nat /\ Down(r.price) \in Nat
      /\ Down(r.price) <= r.price /\ r.price <= Up(r.price)
  BY <1>1, UpDown
<1>3. /\ q \in Nat /\ q <= Up(r.qty)
      /\ p \in Nat /\ Down(r.price) <= p /\ p <= Up(r.price)
  BY <1>1, <1>2
<1>4. /\ WellFormed(f) /\ rules \in Filters
      /\ f.tick = 1 \/ f.tick = DefaultUnit
      /\ f.minQty[r.type] = rules.minQty[r.type] \/ f.minQty[r.type] = 0
      /\ f.minPrice = rules.minPrice \/ f.minPrice = 0
      /\ f.maxPrice = rules.maxPrice \/ f.maxPrice = Huge
  <2>1. CASE f = EngineDefaults
    BY <1>1, <2>1, DefaultsFields DEF WellFormed
  <2>2. CASE f = AsPrinted(rules)
    BY <1>1, <2>2, PrintedFields, PrintedTyped DEF WellFormed
  <2> QED BY <2>1, <2>2 DEF EngineKnows
<1>5. /\ 2 * b <= 2 * p + f.tick \/ b = f.minPrice
      /\ 2 * p <= 2 * b + f.tick \/ b = f.maxPrice
  BY <1>1, <1>3, <1>4, EngineRounds
<1>6. a \in Nat /\ b \in Nat /\ (a <= q \/ a = f.minQty[r.type])
  BY <1>1, <1>3, <1>4, EngineRounds
<1>7. /\ DefaultUnit \in Nat \ {0} /\ Huge \in Nat
      /\ rules.minQty[r.type] \in Nat /\ rules.minPrice \in Nat /\ rules.maxPrice \in Nat
  BY <1>1, <1>4, FilterAssumption DEF Filters
<1> HIDE DEF a, b
<1>8. a <= rules.minQty[r.type] \/ a <= Up(r.qty)
  BY <1>2, <1>3, <1>4, <1>5, <1>6, <1>7
<1>9. 2 * b <= 2 * Up(r.price) + DefaultUnit \/ b <= rules.minPrice
  BY <1>2, <1>3, <1>4, <1>5, <1>6, <1>7
<1>10. 2 * Down(r.price) <= 2 * b + DefaultUnit \/ b >= rules.maxPrice
  BY <1>1, <1>2, <1>3, <1>4, <1>5, <1>6, <1>7
<1> QED
  BY <1>5, <1>6, <1>8, <1>9, <1>10 DEF Offered, a, b
-----------------------------------------------------------------------------
(* What each piece of place_order leaves of a call's request, quantity and *)
(* price.                                                                  *)
Same(k, j) == k.request = j.request /\ k.qty = j.qty /\ k.price = j.price

LEMMA FailingEffect ==
  ASSUME NEW j \in CallJob
  PROVE  \/ Failing(j).at = "idle"
         \/ Failing(j).at = "pause" /\ Same(Failing(j), j)
<1>1. CASE j.attempt < MaxRetries
  <2> DEFINE g == [j EXCEPT !.at = "pause"]
  <2>1. g \in CallJob /\ g.at = "pause" /\ Same(g, j) /\ j.attempt + 1 \in Nat
    BY DEF CallJob, Creates, Same
  <2>2. Failing(j) = [g EXCEPT !.attempt = j.attempt + 1]
    BY <1>1 DEF Failing
  <2> HIDE DEF g
  <2> QED BY <2>1, <2>2 DEF CallJob, Same
<1>2. CASE ~ (j.attempt < MaxRetries)
  BY <1>2 DEF Failing, Idle
<1> QED
  BY <1>1, <1>2

LEMMA FailingFits ==
  ASSUME NEW j \in CallJob, Offered(j.request, j.qty, j.price), NEW un
  PROVE  Fits(Failing(j), un)
BY FailingEffect DEF Fits, Same, Normalizes, Creates

LEMMA SendingFits ==
  ASSUME WellFormed(rules), NEW un \in BOOLEAN, NEW f, ClientKnows(f, un),
         NEW j \in CallJob, Offered(j.request, j.qty, j.price)
  PROVE  Fits(Sending(j, f), un)
<1> DEFINE qty   == ClientQty(f, j.qty, j.request.type)
           price == ClientPrice(f, j.price)
           g     == [j EXCEPT !.at = "sent"]
           h     == [g EXCEPT !.sentQty = qty]
           k     == [h EXCEPT !.sentPrice = price]
<1>1. /\ j.qty \in Int /\ j.price \in Int
      /\ j.request \in Requests /\ j.request.type \in Types /\ f \in Filters
  BY LiveOrdersAssumption, DefaultsTyped, ClientReadsTyped
     DEF CallJob, ClientKnows, WellFormed
<1>2. qty \in Int /\ price \in Int
  BY <1>1, FiltersTyped
<1>3. g \in CallJob /\ g.at = "sent" /\ Same(g, j)
  BY DEF CallJob, Creates, Same
<1>4. CASE ClientAccepts(f, qty, price) /\ Sending(j, f) = k
  <2>1. SentFits(j.request, qty, price, un)
    BY <1>1, <1>4, ClientSends
  <2> HIDE DEF g, qty, price
  <2>2. h \in CallJob /\ h.at = "sent" /\ Same(h, j) /\ h.sentQty = qty
    BY <1>2, <1>3 DEF CallJob, Same
  <2> HIDE DEF h
  <2>3. /\ k.at = "sent" /\ Same(k, j) /\ k.sentQty = qty /\ k.sentPrice = price
    BY <1>2, <2>2 DEF CallJob, Same
  <2> QED
    BY <1>4, <2>1, <2>3 DEF Fits, Same, Normalizes, Creates
<1>5. CASE Sending(j, f) = Failing(j)
  BY <1>5, FailingFits
<1>6. (ClientAccepts(f, qty, price) /\ Sending(j, f) = k) \/ Sending(j, f) = Failing(j)
  BY DEF Sending, k, h, g, qty, price
<1> QED
  BY <1>4, <1>5, <1>6

LEMMA CreatingFits ==
  ASSUME WithinInv, NEW j \in CallJob, Offered(j.request, j.qty, j.price)
  PROVE  Fits(Creating(j), unfetched)
<1>1. CASE clientRules = None
  <2> DEFINE g == [j EXCEPT !.at = "rules"]
  <2>1. g.at = "rules" /\ Same(g, j) /\ Creating(j) = g
    BY <1>1 DEF CallJob, Creates, Same, Creating
  <2> HIDE DEF g
  <2> QED BY <2>1 DEF Fits, Same, Normalizes, Creates
<1>2. CASE clientRules # None
  BY <1>2, SendingFits DEF Creating, WithinInv
<1> QED
  BY <1>1, <1>2

LEMMA OfferingFits ==
  ASSUME WithinInv, NEW j \in CallJob, Offered(j.request, j.qty, j.price)
  PROVE  Fits(Offering(j), unfetched)
<1>1. Fits(Idle, unfetched)
  BY DEF Fits, Idle, Normalizes, Creates
<1> QED
  BY <1>1, CreatingFits DEF Offering

(* The normaliser moves the price in its first turn and the quantity in    *)
(* its second, and goes on with both as they are.                          *)
LEMMA AdjustingFits ==
  ASSUME NEW j \in CallJob, Wanted(j), NEW refusal, NEW un
  PROVE  Fits(Adjusting(j, refusal), un)
<1> DEFINE adjusts == j.adjusts + 1
           price == IF j.adjusts = 0 /\ j.price # NoPrice
                    THEN AdjustPrice(j.price, refusal, j.request.side) ELSE j.price
           qty   == IF j.adjusts = 1 THEN AdjustQty(j.qty, refusal) ELSE j.qty
           g     == [j EXCEPT !.at = "adjust"]
           h     == [g EXCEPT !.adjusts = adjusts]
           k     == [h EXCEPT !.price = price]
           l     == [k EXCEPT !.qty = qty]
           r     == j.request
<1>1. j.qty \in Int /\ j.price \in Int /\ j.adjusts \in Nat /\ adjusts \in Nat
  BY DEF CallJob
<1>2. price \in Int /\ qty \in Int
  BY <1>1, AdjustTyped
<1>3. price \in {r.price, Up(r.price), Down(r.price)}
  BY DEF Wanted, AdjustPrice
<1>4. /\ qty \in {r.qty, Up(r.qty), Down(r.qty)}
      /\ adjusts < 2 => qty = r.qty
  BY <1>1 DEF Wanted, AdjustQty
<1>5. adjusts # 0 /\ r.normalized
  BY <1>1 DEF Wanted
<1>6. g \in CallJob /\ g.at = "adjust" /\ g.request = r
  BY DEF CallJob, Normalizes
<1> HIDE DEF g, qty, price, adjusts
<1>7. h \in CallJob /\ h.at = "adjust" /\ h.request = r /\ h.adjusts = adjusts
  BY <1>1, <1>6 DEF CallJob
<1> HIDE DEF h
<1>8. /\ k \in CallJob /\ k.at = "adjust" /\ k.request = r /\ k.adjusts = adjusts
      /\ k.price = price
  BY <1>2, <1>7 DEF CallJob
<1> HIDE DEF k
<1>9. /\ l.at = "adjust" /\ l.request = r /\ l.adjusts = adjusts
      /\ l.price = price /\ l.qty = qty
  BY <1>2, <1>8 DEF CallJob
<1>10. Adjusting(j, refusal) = l \/ Adjusting(j, refusal) = Idle
  BY DEF Adjusting, l, k, h, g, qty, price, adjusts
<1> HIDE DEF l
<1>11. Wanted(l)
  BY <1>3, <1>4, <1>5, <1>9 DEF Wanted
<1> QED
  BY <1>9, <1>10, <1>11 DEF Fits, Idle, Normalizes, Creates

LEMMA NormalizingFits ==
  ASSUME WithinInv, NEW j \in CallJob, Wanted(j), NEW f, EngineKnows(f)
  PROVE  Fits(Normalizing(j, f), unfetched)
<1> DEFINE qty   == EngineQty(f, j.qty, j.request.type)
           price == EnginePrice(f, j.price)
           g     == [j EXCEPT !.qty = qty]
           h     == [g EXCEPT !.price = price]
<1>1. j.request \in Requests /\ f \in Filters
  BY PrintedTyped, DefaultsTyped DEF CallJob, EngineKnows, WithinInv, WellFormed
<1>2. Offered(j.request, qty, price)
  BY <1>1, EngineOffers DEF WithinInv, Wanted
<1>3. qty \in Int /\ price \in Int
  BY <1>2 DEF Offered
<1> HIDE DEF qty, price
<1>4. g \in CallJob /\ g.request = j.request /\ g.qty = qty
  BY <1>3 DEF CallJob
<1> HIDE DEF g
<1>5. h \in CallJob /\ h.request = j.request /\ h.qty = qty /\ h.price = price
  BY <1>3, <1>4 DEF CallJob
<1>6. Normalized(j, f) = h
  BY DEF Normalized, h, g, qty, price
<1> HIDE DEF h
<1>7. Fits(Offering(Normalized(j, f)), unfetched)
  BY <1>2, <1>5, <1>6, OfferingFits
<1> QED
  BY <1>7, AdjustingFits DEF Normalizing
-----------------------------------------------------------------------------
(* A step in which one call goes on and the exchange takes nothing.        *)
LEMMA WithinQuiet ==
  ASSUME Inv, WithinInv, UNCHANGED <<rules, market, caches>>, NEW t \in Tasks, NEW next,
         job' = [job EXCEPT ![t] = next], Fits(next, unfetched)
  PROVE  WithinInv'
<1>1. \A u \in Tasks : job'[u] = IF u = t THEN next ELSE job[u]
  BY DEF Inv, JobsTyped
<1>2. /\ rules' = rules /\ market' = market /\ unfetched' = unfetched
      /\ clientRules' = clientRules /\ engineRules' = engineRules
  BY DEF caches
<1> QED
  BY <1>1, <1>2, WithinPrimed DEF WithinInv, WithinAfter

LEMMA JobTyped ==
  ASSUME Inv, NEW t \in Tasks, IsPlacing(job[t])
  PROVE  job[t] \in CallJob
BY DEF Inv, JobsTyped

LEMMA WithinPlace ==
  ASSUME Inv, WithinInv, NEW t \in Tasks, PlaceOrder(t) \/ PlaceWithRetry(t)
  PROVE  WithinInv'
<1>1. CASE PlaceOrder(t)
  <2>1. PICK r \in Requests : ~ r.normalized /\ Goes(t, Offering(Call(r)))
    BY <1>1 DEF PlaceOrder
  <2>2. /\ Call(r) \in CallJob /\ Call(r).request = r
        /\ Call(r).qty = r.qty /\ Call(r).price = r.price
    BY CallTyped DEF Call
  <2>3. Offered(r, r.qty, r.price)
    BY <2>1, RequestTyped, FilterAssumption DEF Offered
  <2>4. Fits(Offering(Call(r)), unfetched)
    BY <2>2, <2>3, OfferingFits
  <2> QED BY <1>1, <2>1, <2>4, WithinQuiet DEF PlaceOrder, Goes
<1>2. CASE PlaceWithRetry(t)
  <2>1. PICK r \in Requests : r.normalized /\ Goes(t, Call(r))
    BY <1>2 DEF PlaceWithRetry
  <2>2. Fits(Call(r), unfetched)
    BY <2>1 DEF Call, Fits, Wanted, Normalizes, Creates
  <2> QED BY <1>2, <2>1, <2>2, WithinQuiet DEF PlaceWithRetry, Goes
<1> QED
  BY <1>1, <1>2

LEMMA WithinNormalize ==
  ASSUME Inv, WithinInv, NEW t \in Tasks, Normalize(t)
  PROVE  WithinInv'
<1>1. job[t] \in CallJob /\ job[t].at = "adjust"
  BY JobTyped DEF Normalize, At, IsPlacing, Normalizes
<1>2. Wanted(job[t])
  BY <1>1 DEF WithinInv, Fits, Normalizes
<1>3. UNCHANGED <<rules, market, caches>>
  BY DEF Normalize
<1>4. CASE Goes(t, [job[t] EXCEPT !.at = "filters"])
  <2> DEFINE g == [job[t] EXCEPT !.at = "filters"]
  <2>1. g.at = "filters" /\ Same(g, job[t]) /\ g.adjusts = job[t].adjusts
    BY <1>1 DEF CallJob, Same
  <2>2. job' = [job EXCEPT ![t] = g]
    BY <1>4 DEF Goes
  <2> HIDE DEF g
  <2>3. Fits(g, unfetched)
    BY <1>2, <2>1 DEF Fits, Same, Wanted, Normalizes, Creates
  <2> QED BY <1>3, <2>2, <2>3, WithinQuiet
<1>5. ASSUME NEW f, EngineKnows(f), Goes(t, Normalizing(job[t], f))
      PROVE  WithinInv'
  <2>1. Fits(Normalizing(job[t], f), unfetched)
    BY <1>1, <1>2, <1>5, NormalizingFits
  <2> QED BY <1>3, <1>5, <2>1, WithinQuiet DEF Goes
<1>6. CASE engineRules # None /\ \E f \in Loaded(engineRules) : Goes(t, Normalizing(job[t], f))
  <2>1. \A f \in Loaded(engineRules) : EngineKnows(f)
    BY <1>6 DEF WithinInv, EngineKnows, Loaded
  <2> QED BY <1>5, <1>6, <2>1
<1> QED
  BY <1>4, <1>6 DEF Normalize

LEMMA WithinFilters ==
  ASSUME Inv, WithinInv, NEW t \in Tasks, FiltersArrive(t)
  PROVE  WithinInv'
<1>1. job[t] \in CallJob /\ job[t].at = "filters"
  BY JobTyped DEF FiltersArrive, At, IsPlacing, Normalizes
<1>2. Wanted(job[t])
  BY <1>1 DEF WithinInv, Fits, Normalizes
<1>3. PICK f \in {AsPrinted(rules), EngineDefaults} :
        /\ engineRules' = f
        /\ \E g \in Loaded(f) : Goes(t, Normalizing(job[t], g))
  BY DEF FiltersArrive
<1>4. PICK g \in Loaded(f) : Goes(t, Normalizing(job[t], g))
  BY <1>3
<1>5. EngineKnows(f) /\ EngineKnows(g)
  BY <1>3, <1>4 DEF EngineKnows, Loaded
<1>6. Fits(Normalizing(job[t], g), unfetched)
  BY <1>1, <1>2, <1>5, NormalizingFits
<1> DEFINE next == Normalizing(job[t], g)
<1>7. job' = [job EXCEPT ![t] = next]
  BY <1>4 DEF Goes
<1> HIDE DEF next
<1>8. \A u \in Tasks : job'[u] = IF u = t THEN next ELSE job[u]
  BY <1>7 DEF Inv, JobsTyped
<1>9. /\ rules' = rules /\ market' = market /\ unfetched' = unfetched
      /\ clientRules' = clientRules
  BY DEF FiltersArrive
<1>10. EngineKnows(engineRules')
  BY <1>3, <1>5
<1> QED
  BY <1>6, <1>8, <1>9, <1>10, WithinPrimed DEF WithinInv, WithinAfter, next

LEMMA StillFits ==
  ASSUME NEW un \in BOOLEAN, NEW j, Fits(j, un)
  PROVE  Fits(j, TRUE)
BY DEF Fits, SentFits

LEMMA WithinRules ==
  ASSUME Inv, WithinInv, NEW t \in Tasks, RulesArrive(t)
  PROVE  WithinInv'
<1>1. job[t] \in CallJob /\ job[t].at = "rules"
  BY JobTyped DEF RulesArrive, At, IsPlacing, Creates
<1>2. Offered(job[t].request, job[t].qty, job[t].price)
  BY <1>1 DEF WithinInv, Fits, Creates
<1>3. /\ unfetched' \in BOOLEAN /\ (unfetched' = unfetched \/ unfetched' = TRUE)
      /\ ClientKnows(clientRules', unfetched')
  BY DEF RulesArrive, WithinInv, ClientKnows
<1> DEFINE next == Sending(job[t], clientRules')
<1>4. Fits(next, unfetched')
  BY <1>1, <1>2, <1>3, SendingFits DEF WithinInv
<1>5. job' = [job EXCEPT ![t] = next]
  BY DEF RulesArrive, Goes
<1> HIDE DEF next
<1>6. \A u \in Tasks : job'[u] = IF u = t THEN next ELSE job[u]
  BY <1>5 DEF Inv, JobsTyped
<1>7. rules' = rules /\ market' = market /\ engineRules' = engineRules
  BY DEF RulesArrive
<1>8. \A u \in Tasks : Fits(job'[u], unfetched')
  BY <1>3, <1>4, <1>6, StillFits DEF WithinInv
<1>9. \A n \in DOMAIN market :
        SentFits(market[n].request, market[n].qty, market[n].price, unfetched')
  BY <1>3 DEF WithinInv, SentFits
<1>10. WellFormed(rules)
  BY DEF WithinInv
<1>11. engineRules = None \/ EngineKnows(engineRules)
  BY DEF WithinInv
<1> QED
  BY <1>3, <1>7, <1>8, <1>9, <1>10, <1>11, WithinPrimed DEF WithinInv, WithinAfter

LEMMA WithinRetry ==
  ASSUME Inv, WithinInv, NEW t \in Tasks, Retry(t) \/ Refuse(t) \/ AnswerLost(t)
  PROVE  WithinInv'
<1>1. job[t] \in CallJob /\ job[t].at \in {"pause", "sent", "placed"}
  BY JobTyped DEF Retry, Refuse, AnswerLost, At, IsPlacing, Creates
<1>2. Offered(job[t].request, job[t].qty, job[t].price)
  BY <1>1 DEF WithinInv, Fits, Creates
<1>3. UNCHANGED <<rules, market, caches>>
  BY DEF Retry, Refuse, AnswerLost
<1>4. CASE Retry(t)
  BY <1>1, <1>2, <1>3, <1>4, CreatingFits, WithinQuiet DEF Retry, Goes
<1>5. CASE Refuse(t)
  BY <1>1, <1>2, <1>3, <1>5, FailingFits, WithinQuiet DEF Refuse, Goes
<1>6. CASE AnswerLost(t)
  <2> DEFINE g == [job[t] EXCEPT !.number = 0]
             j == [g EXCEPT !.status = "NEW"]
  <2>1. g \in CallJob /\ Same(g, job[t])
    BY <1>1 DEF CallJob, Same
  <2>2. job' = [job EXCEPT ![t] = Failing(j)]
    BY <1>6 DEF AnswerLost, Goes
  <2> HIDE DEF g
  <2>3. j \in CallJob /\ Same(j, job[t])
    BY <2>1 DEF CallJob, Same
  <2> HIDE DEF j
  <2>4. Fits(Failing(j), unfetched)
    BY <1>2, <2>3, FailingFits DEF Same
  <2> QED BY <1>3, <2>2, <2>4, WithinQuiet
<1> QED
  BY <1>4, <1>5, <1>6

LEMMA WithinAccept ==
  ASSUME Inv, WithinInv, NEW t \in Tasks, Accept(t)
  PROVE  WithinInv'
<1> DEFINE n == Len(market) + 1
<1>1. job[t] \in CallJob /\ job[t].at = "sent"
  BY JobTyped DEF Accept, At, IsPlacing, Creates
<1>2. PICK status \in {"NEW", "FILLED"} :
        /\ market' = Append(market, [request |-> job[t].request, status |-> status,
                                     qty |-> job[t].sentQty, price |-> job[t].sentPrice])
        /\ Goes(t, [job[t] EXCEPT !.at = "placed", !.number = n, !.status = status])
  BY DEF Accept
<1>3. market \in Seq(MarketOrder) /\ n \in Nat
  BY DEF Inv, TablesTyped
<1> DEFINE order == [request |-> job[t].request, status |-> status,
                     qty |-> job[t].sentQty, price |-> job[t].sentPrice]
<1>4. /\ order.request = job[t].request /\ order.qty = job[t].sentQty
      /\ order.price = job[t].sentPrice /\ market' = Append(market, order)
  BY <1>2
<1> HIDE DEF order
<1>5. /\ DOMAIN market' = DOMAIN market \union {n} /\ market'[n] = order
      /\ \A m \in DOMAIN market : market'[m] = market[m]
  BY <1>3, <1>4
<1>6. SentFits(job[t].request, job[t].sentQty, job[t].sentPrice, unfetched)
  BY <1>1 DEF WithinInv, Fits
<1>7. \A m \in DOMAIN market' :
        SentFits(market'[m].request, market'[m].qty, market'[m].price, unfetched)
  BY <1>4, <1>5, <1>6 DEF WithinInv
<1> DEFINE next == [job[t] EXCEPT !.at = "placed", !.number = n, !.status = status]
<1>8. /\ next.at = "placed" /\ Same(next, job[t])
      /\ next.sentQty = job[t].sentQty /\ next.sentPrice = job[t].sentPrice
  <2> DEFINE g == [job[t] EXCEPT !.at = "placed"]
             h == [g EXCEPT !.number = n]
             k == [h EXCEPT !.status = status]
             Sent(x) == x.sentQty = job[t].sentQty /\ x.sentPrice = job[t].sentPrice
  <2>1. g \in CallJob /\ g.at = "placed" /\ Same(g, job[t]) /\ Sent(g)
    BY <1>1 DEF CallJob, Creates, Same
  <2> HIDE DEF g
  <2>2. h \in CallJob /\ h.at = "placed" /\ Same(h, job[t]) /\ Sent(h)
    BY <1>3, <2>1 DEF CallJob, Same
  <2> HIDE DEF h
  <2>3. k.at = "placed" /\ Same(k, job[t]) /\ Sent(k)
    BY <2>2 DEF CallJob, Same
  <2>4. next = k
    BY DEF k, h, g
  <2> HIDE DEF next, k
  <2> QED BY <2>3, <2>4
<1>9. job' = [job EXCEPT ![t] = next]
  BY <1>2 DEF Goes
<1> HIDE DEF next, n
<1>10. Fits(next, unfetched)
  BY <1>1, <1>6, <1>8 DEF WithinInv, Fits, Same, Normalizes, Creates
<1>11. \A u \in Tasks : job'[u] = IF u = t THEN next ELSE job[u]
  BY <1>9 DEF Inv, JobsTyped
<1>12. /\ rules' = rules /\ unfetched' = unfetched
       /\ clientRules' = clientRules /\ engineRules' = engineRules
  BY DEF Accept, caches
<1> QED
  BY <1>7, <1>10, <1>11, <1>12, WithinPrimed DEF WithinInv, WithinAfter

(* The calls that place nothing, and what the exchange does of itself.     *)
LEMMA WithinOthers ==
  ASSUME Inv, WithinInv, NEW t \in Tasks,
         \/ AnswerArrives(t) \/ CancelAnswered(t) \/ StatusArrives(t) \/ RequestFails(t)
         \/ BeginCancel(t) \/ BeginStatus(t) \/ StatusAtExchange(t)
  PROVE  WithinInv'
<1> DEFINE Other(j) == j.at \in {"idle", "cancel", "canceled", "ask", "told"}
<1>1. ASSUME NEW next, Other(next) PROVE Fits(next, unfetched)
  BY <1>1 DEF Fits, Normalizes, Creates
<1>2. UNCHANGED <<rules, market, caches>>
  BY DEF AnswerArrives, CancelAnswered, StatusArrives, RequestFails, BeginCancel, BeginStatus,
         StatusAtExchange
<1>3. ASSUME NEW next, Other(next), Goes(t, next) PROVE WithinInv'
  <2>1. Fits(next, unfetched)
    BY <1>1, <1>3
  <2>2. job' = [job EXCEPT ![t] = next]
    BY <1>3 DEF Goes
  <2> QED BY <1>2, <2>1, <2>2, WithinQuiet
<1>4. CASE AnswerArrives(t) \/ CancelAnswered(t) \/ StatusArrives(t) \/ RequestFails(t)
  BY <1>3, <1>4 DEF AnswerArrives, CancelAnswered, StatusArrives, RequestFails, Idle
<1>5. CASE BeginCancel(t)
  <2>1. PICK key \in DOMAIN orders : Goes(t, [at |-> "cancel", object |-> orders[key]])
    BY <1>5 DEF BeginCancel
  <2> QED BY <1>3, <2>1
<1>6. CASE BeginStatus(t)
  <2>1. PICK key \in DOMAIN orders :
          Goes(t, [at |-> "ask", key |-> key, object |-> orders[key], status |-> "NEW"])
    BY <1>6 DEF BeginStatus
  <2> QED BY <1>3, <2>1
<1>7. CASE StatusAtExchange(t)
  <2> DEFINE g    == [job[t] EXCEPT !.at = "told"]
             st   == market[objects[job[t].object].number].status
             next == [g EXCEPT !.status = st]
  <2>1. job[t] \in AskJob
    BY <1>7 DEF StatusAtExchange, At, Inv, RefreshesKnown
  <2>2. g \in AskJob /\ g.at = "told"
    BY <2>1 DEF AskJob
  <2>3. Goes(t, next)
    BY <1>7 DEF StatusAtExchange
  <2> HIDE DEF g
  <2>4. next.at = "told"
    BY <2>2 DEF AskJob
  <2> HIDE DEF next
  <2> QED BY <1>3, <2>3, <2>4
<1> QED
  BY <1>4, <1>5, <1>6, <1>7

LEMMA OnlyStatus ==
  ASSUME market \in Seq(MarketOrder), NEW n \in DOMAIN market,
         NEW status \in {"FILLED", "CANCELED"},
         market' = [market EXCEPT ![n].status = status]
  PROVE  /\ DOMAIN market' = DOMAIN market
         /\ \A m \in DOMAIN market :
              /\ market'[m].request = market[m].request
              /\ market'[m].qty = market[m].qty /\ market'[m].price = market[m].price
<1> DEFINE o == [market[n] EXCEPT !.status = status]
<1>1. market[n] \in MarketOrder
  OBVIOUS
<1>2. o.request = market[n].request /\ o.qty = market[n].qty /\ o.price = market[n].price
  BY <1>1 DEF MarketOrder
<1>3. market' = [market EXCEPT ![n] = o]
  OBVIOUS
<1> HIDE DEF o
<1> QED
  BY <1>2, <1>3

LEMMA WithinMarket ==
  ASSUME Inv, WithinInv, UNCHANGED <<rules, caches>>, NEW n \in DOMAIN market,
         NEW status \in {"FILLED", "CANCELED"},
         market' = [market EXCEPT ![n].status = status],
         \A u \in Tasks : Fits(job'[u], unfetched)
  PROVE  WithinInv'
<1>1. /\ DOMAIN market' = DOMAIN market
      /\ \A m \in DOMAIN market :
           /\ market'[m].request = market[m].request
           /\ market'[m].qty = market[m].qty /\ market'[m].price = market[m].price
  BY OnlyStatus DEF Inv, TablesTyped
<1>2. \A m \in DOMAIN market' :
        SentFits(market'[m].request, market'[m].qty, market'[m].price, unfetched)
  BY <1>1 DEF WithinInv
<1>3. /\ rules' = rules /\ unfetched' = unfetched
      /\ clientRules' = clientRules /\ engineRules' = engineRules
  BY DEF caches
<1> QED
  BY <1>2, <1>3, WithinPrimed DEF WithinInv, WithinAfter

LEMMA WithinExchange ==
  ASSUME Inv, WithinInv, Fill \/ \E t \in Tasks : CancelAtExchange(t)
  PROVE  WithinInv'
<1>1. CASE Fill
  <2>1. PICK n \in DOMAIN market : market' = [market EXCEPT ![n].status = "FILLED"]
    BY <1>1 DEF Fill
  <2>2. UNCHANGED <<rules, caches, job>>
    BY <1>1 DEF Fill
  <2>3. \A u \in Tasks : Fits(job'[u], unfetched)
    BY <2>2 DEF WithinInv
  <2> QED BY <2>1, <2>2, <2>3, WithinMarket
<1>2. ASSUME NEW t \in Tasks, CancelAtExchange(t) PROVE WithinInv'
  <2> DEFINE n    == objects[job[t].object].number
             next == [job[t] EXCEPT !.at = "canceled"]
  <2>1. job[t] \in CancelJob /\ job[t].object \in DOMAIN objects
    BY <1>2 DEF CancelAtExchange, At, Inv, RefreshesKnown, CancelJob
  <2>2. n \in DOMAIN market
    BY <2>1 DEF Inv, RefreshesKnown, TablesTyped
  <2>3. /\ UNCHANGED <<rules, caches>> /\ job' = [job EXCEPT ![t] = next]
        /\ market' = [market EXCEPT ![n].status = "CANCELED"]
    BY <1>2 DEF CancelAtExchange, Goes
  <2>4. next.at = "canceled"
    BY <2>1 DEF CancelJob
  <2> HIDE DEF next, n
  <2>5. Fits(next, unfetched)
    BY <2>4 DEF Fits, Normalizes, Creates
  <2>6. \A u \in Tasks : Fits(job'[u], unfetched)
    BY <2>3, <2>5 DEF WithinInv, Inv, JobsTyped
  <2> QED BY <2>2, <2>3, <2>6, WithinMarket
<1> QED
  BY <1>1, <1>2

LEMMA WithinInitial == Init => WithinInv
<1> SUFFICES ASSUME Init PROVE WithinInv
  OBVIOUS
<1>1. /\ DOMAIN market = {} /\ clientRules = None /\ engineRules = None
      /\ unfetched = FALSE /\ \A t \in Tasks : job[t].at = "idle"
  BY DEF Init, Idle
<1>2. WellFormed(rules)
  BY LiveOrdersAssumption DEF Init
<1> QED
  BY <1>1, <1>2 DEF WithinInv, Fits, Normalizes, Creates

LEMMA WithinNext == Inv /\ WithinInv /\ [Next]_vars => WithinInv'
<1> SUFFICES ASSUME Inv, WithinInv, [Next]_vars PROVE WithinInv'
  OBVIOUS
<1>1. ASSUME NEW t \in Tasks, PlaceOrder(t) \/ PlaceWithRetry(t) PROVE WithinInv'
  BY <1>1, WithinPlace
<1>2. ASSUME NEW t \in Tasks, Normalize(t) \/ FiltersArrive(t) \/ RulesArrive(t)
      PROVE  WithinInv'
  BY <1>2, WithinNormalize, WithinFilters, WithinRules
<1>3. ASSUME NEW t \in Tasks, Retry(t) \/ Refuse(t) \/ AnswerLost(t) PROVE WithinInv'
  BY <1>3, WithinRetry
<1>4. ASSUME NEW t \in Tasks, Accept(t) PROVE WithinInv'
  BY <1>4, WithinAccept
<1>5. ASSUME NEW t \in Tasks,
             \/ AnswerArrives(t) \/ CancelAnswered(t) \/ StatusArrives(t) \/ RequestFails(t)
             \/ BeginCancel(t) \/ BeginStatus(t) \/ StatusAtExchange(t)
      PROVE  WithinInv'
  BY <1>5, WithinOthers
<1>6. CASE Fill \/ \E t \in Tasks : CancelAtExchange(t)
  BY <1>6, WithinExchange
<1>7. CASE UNCHANGED vars
  BY <1>7, WithinPrimed DEF vars, WithinInv, WithinAfter
<1> QED
  BY <1>1, <1>2, <1>3, <1>4, <1>5, <1>6, <1>7 DEF Next

(* For all rules of an exchange and all requests, through every failure to *)
(* fetch the rules, every adjustment and retry: what stands at the         *)
(* exchange is what was asked for, up to the rounding.                     *)
THEOREM OrdersStayWithinTheRequest == Spec => []WithinTheRequest
<1>1. Inv /\ WithinInv => WithinTheRequest
  BY DEF WithinInv, SentFits, QtyOf, WithinTheRequest
<1> QED
  BY <1>1, InvInit, InvNext, WithinInitial, WithinNext, PTL DEF Spec
=============================================================================
