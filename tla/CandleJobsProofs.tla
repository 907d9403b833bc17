-------------------------- MODULE CandleJobsProofs --------------------------
(***************************************************************************)
(* Proofs about CandleJobs: no row is made of what came later, a vector    *)
(* takes its own second first, and the jobs reach the rows they are to     *)
(* reach, beside the pipeline that goes on.                                *)
(***************************************************************************)
EXTENDS CandleJobs, FiniteSetTheorems, WellFoundedInduction, TLAPS

Even == {n \in Nat : n % 2 = 0}

WindowOK(w, o) == DOMAIN w \subseteq Nat /\ \A t \in DOMAIN w : w[t] \in Int /\ (w[t] <= t \/ t \in o)

TakenOK(v, t) ==
  \A s \in Symbols : /\ v[s].close \in Int /\ v[s].close <= t
                     /\ v[s].values \in Int /\ v[s].values <= t

VectorsOK(v) == DOMAIN v \subseteq Nat /\ \A t \in DOMAIN v : TakenOK(v[t], t)

TablesOK(c, w, o, v) ==
  /\ c \in [Symbols -> SUBSET Seconds]
  /\ w = [s \in Symbols |-> w[s]] /\ \A s \in Symbols : WindowOK(w[s], o[s])
  /\ o = [s \in Symbols |-> o[s]]
  /\ VectorsOK(v)

ClockOK(n) == n \in Even /\ n >= 2 /\ (n = 2 \/ n <= MaxTime)

Pipeline(at, time, of, held, newest, buffers, known) ==
  [at |-> at, time |-> time, of |-> of, held |-> held, newest |-> newest, buffers |-> buffers,
   known |-> known]

(* What the pipeline knows is not younger than the second it is at.        *)
PipelineOK(l, n) ==
  /\ l = Pipeline(l.at, l.time, l.of, l.held, l.newest, l.buffers, l.known)
  /\ l.at \in {"down", "waiting", "tickets"} /\ l.of \subseteq Symbols
  /\ l.held \in [Symbols -> SUBSET Seconds]
  /\ l.newest \in [Symbols -> Int] /\ l.buffers \in [Symbols -> Int]
  /\ l.at # "down" => /\ l.time \in Even /\ l.time < n
                      /\ \A s \in Symbols : l.buffers[s] <= l.newest[s] /\ l.newest[s] <= l.time
                      /\ TakenOK(l.known, l.time)
  /\ l.at = "tickets" => l.time \in Seconds
-----------------------------------------------------------------------------
GapJob(at, found, left, inserted, clean, known) ==
  [kind |-> "gaps", at |-> at, found |-> found, left |-> left, inserted |-> inserted,
   clean |-> clean, known |-> known]

(* A gap that was filled without an error.                                 *)
Closed(gap, c) ==
  LET first == gap[2] + Second
      last  == gap[3] - Second
  IN  \A t \in Seconds : first <= t /\ t <= last =>
        \/ t \in c[gap[1]]
        \/ t = last /\ ((last - first) \div Second) % Limit = 0

GapsOK(j, c) ==
  /\ j.kind = "gaps"
  /\ j = GapJob(j.at, j.found, j.left, j.inserted, j.clean, j.known)
  /\ j.at \in {"fill", "indicators", "vectors", "done"} /\ j.clean \in BOOLEAN
  /\ j.found \subseteq Symbols \X Seconds \X Seconds
  /\ j.at = "fill" => j.left \subseteq j.found
  /\ j.at = "indicators" => j.left \subseteq Symbols
  /\ j.at = "vectors" => j.left \subseteq Seconds /\ \A t \in j.left : TakenOK(j.known, t)
  /\ j.at # "vectors" => j.known = [s \in Symbols |-> Nothing]
  /\ j.clean => \A gap \in j.found : (j.at = "fill" /\ gap \in j.left) \/ Closed(gap, c)

Recalculation(kind, from, to, existing, cursor, chunk, ready, buffers, batch, cut, clean) ==
  [kind |-> kind, from |-> from, to |-> to, existing |-> existing, cursor |-> cursor,
   chunk |-> chunk, ready |-> ready, buffers |-> buffers, batch |-> batch, cut |-> cut,
   clean |-> clean]

(* A candle of the range that was passed has indicators, will have them    *)
(* with the batch, or is known to be left out.                             *)
DealtWith(j, s, t, w) ==
  t \in DOMAIN w[s] \/ <<s, t>> \in j.cut \/ \E b \in j.batch : b[1] = s /\ b[2] = t

Behind(j, s, t) ==
  (t < j.cursor \/ \E r \in j.chunk : t <= r[2]) /\ <<s, t>> \notin j.chunk

RecalculationOK(j, c, w) ==
  /\ j.kind \in {"indicators", "recalculated"}
  /\ j = Recalculation(j.kind, j.from, j.to, j.existing, j.cursor, j.chunk, j.ready,
                       j.buffers, j.batch, j.cut, j.clean)
  /\ j.from \in Nat /\ j.to \in Nat /\ j.cursor \in Int
  /\ j.chunk \subseteq Symbols \X Seconds
  /\ \A r \in j.chunk : r[2] >= j.cursor
  /\ \A r \in j.existing : r[1] \in Symbols /\ r[2] \in DOMAIN w[r[1]]
  /\ j.buffers \in [Symbols -> Int]
  /\ \A s \in Symbols : \A t \in Seconds : t >= j.cursor => j.buffers[s] <= t
  /\ \A b \in j.batch : b \in Symbols \X Seconds \X Int /\ b[3] <= b[2]
  /\ \A s \in Symbols : \A t \in c[s] :
       j.from <= t /\ t < j.to /\ (j.kind = "recalculated" \/ Behind(j, s, t))
         => DealtWith(j, s, t, w)
  /\ j.kind = "recalculated" => j.batch = {}

VectorJob(from, to, cursor, made, clean) ==
  [kind |-> "vectors", from |-> from, to |-> to, cursor |-> cursor, made |-> made,
   clean |-> clean]

VectorJobOK(j, w, v) ==
  /\ j.kind = "vectors"
  /\ j = VectorJob(j.from, j.to, j.cursor, j.made, j.clean)
  /\ j.from \in Nat /\ j.to \in Nat /\ j.cursor \in Nat /\ j.clean \in BOOLEAN
  /\ VectorsOK(j.made)
  /\ j.clean => \A s \in Symbols : \A t \in DOMAIN w[s] :
       /\ j.from <= t /\ t < j.cursor /\ t < j.to => t \in DOMAIN v
       /\ j.made # <<>> /\ j.from <= t /\ j.cursor <= t /\ t < j.cursor + Hour /\ t < j.to
            => t \in DOMAIN j.made

JobOK(j, c, w, v) ==
  \/ j = NoJob
  \/ GapsOK(j, c)
  \/ RecalculationOK(j, c, w)
  \/ VectorJobOK(j, w, v)

IInv ==
  /\ ClockOK(now)
  /\ TablesOK(candles, windows, overtaken, vectors)
  /\ PipelineOK(live, now)
  /\ JobOK(job, candles, windows, vectors)
-----------------------------------------------------------------------------
LEMMA Facts ==
  /\ Period \in Nat /\ Period >= 1 /\ Limit \in Nat /\ Limit >= 1
  /\ Chunk \in Nat /\ Batch \in Nat /\ Hour \in Nat /\ Hour >= 1
  /\ Starts \subseteq Nat /\ MaxClock \in Nat
BY JobsAssumption

LEMMA TwoKinds ==
  \A n \in Int : n % 2 = 0 <=> \E k \in Int : n = 2 * k
<1>. TAKE n \in Int
<1>1. ASSUME n % 2 = 0 PROVE \E k \in Int : n = 2 * k
  <2>1. n = 2 * (n \div 2) /\ n \div 2 \in Int
    BY <1>1
  <2>. QED
    BY <2>1
<1>2. ASSUME NEW k \in Int, n = 2 * k PROVE n % 2 = 0
  BY <1>2
<1>. QED
  BY <1>1, <1>2

LEMMA SecondsAre ==
  /\ \A n : n \in Seconds <=> n \in Even /\ n >= 2 /\ n <= MaxTime
  /\ \A n \in Seconds : n \in Nat /\ n >= 2 /\ n \in Even
  /\ \A n, m \in Even : n < m => n + 2 <= m
  /\ \A n \in Even : n \in Nat /\ n + 2 \in Even
  /\ \A n \in Even : n >= 2 => n - 2 \in Even
<1>1. ASSUME NEW n, n \in Seconds PROVE n \in Even /\ n >= 2 /\ n <= MaxTime /\ n \in Nat
  <2>1. PICK k \in 1 .. MaxClock : n = 2 * k
    BY <1>1 DEF Seconds, Second
  <2>2. n \in Nat /\ n >= 2 /\ n <= 2 * MaxClock
    BY <2>1, Facts
  <2>3. n % 2 = 0
    BY <2>1, <2>2, TwoKinds
  <2>. QED
    BY <2>2, <2>3 DEF Even, MaxTime, Second
<1>2. ASSUME NEW n \in Even, n >= 2, n <= MaxTime PROVE n \in Seconds
  <2>1. PICK k \in Int : n = 2 * k
    BY TwoKinds DEF Even
  <2>2. k \in 1 .. MaxClock
    BY <1>2, <2>1, Facts DEF MaxTime, Second
  <2>. QED
    BY <2>1, <2>2 DEF Seconds, Second
<1>3. \A n, m \in Even : n < m => n + 2 <= m
  BY DEF Even
<1>4. \A n \in Even : n \in Nat /\ n + 2 \in Even /\ (n >= 2 => n - 2 \in Even)
  BY DEF Even
<1>. QED
  BY <1>1, <1>2, <1>3, <1>4

LEMMA MinOfTwo ==
  ASSUME NEW a \in Int, NEW b \in Int
  PROVE  Min({a, b}) = IF a <= b THEN a ELSE b
<1>1. CASE a <= b
  BY <1>1 DEF Min
<1>2. CASE b < a
  BY <1>2 DEF Min
<1>. QED
  BY <1>1, <1>2

LEMMA MaxOfTwo ==
  ASSUME NEW a \in Int, NEW b \in Int
  PROVE  Max({a, b}) = IF a <= b THEN b ELSE a
<1>1. CASE a <= b
  BY <1>1 DEF Max
<1>2. CASE b < a
  BY <1>2 DEF Max
<1>. QED
  BY <1>1, <1>2

LEMMA LessIn ==
  ASSUME NEW x \in Nat, NEW y \in Nat, y < x
  PROVE  <<y, x>> \in OpToRel(<, Nat)
BY DEF OpToRel

LEMMA LeastOf ==
  ASSUME NEW X \in SUBSET Nat, X # {}
  PROVE  \E x \in X : \A y \in X : x <= y
<1>1. PICK x \in X : \A y \in X : ~(<<y, x>> \in OpToRel(<, Nat))
  BY NatLessThanWellFounded, WFMin
<1>2. \A y \in X : ~(y < x)
  BY <1>1, LessIn
<1>. QED
  BY <1>2

(* A set of integers between two of them has its least and its greatest.   *)
LEMMA Ends ==
  ASSUME NEW X, X # {}, NEW a \in Int, NEW b \in Int, X \subseteq a .. b
  PROVE  /\ Max(X) \in X /\ \A x \in X : x <= Max(X)
         /\ Min(X) \in X /\ \A x \in X : Min(X) <= x
         /\ IsFiniteSet(X)
<1>1. IsFiniteSet(X)
  BY FS_Interval, FS_Subset
<1>2. \A x \in X : x \in Int /\ a <= x /\ x <= b
  OBVIOUS
<1>3. \E x \in X : \A y \in X : x >= y
  <2>. DEFINE Y == {b - x : x \in X}
  <2>1. Y \in SUBSET Nat /\ Y # {}
    <3>1. \A x \in X : b - x \in Nat
      BY <1>2
    <3>2. PICK x \in X : TRUE
      OBVIOUS
    <3>3. b - x \in Y
      OBVIOUS
    <3>. QED
      BY <3>1, <3>3
  <2>2. PICK u \in Y : \A v \in Y : u <= v
    BY <2>1, LeastOf, Zenon
  <2>3. PICK x \in X : u = b - x
    BY <2>2
  <2>4. ASSUME NEW y \in X PROVE x >= y
    <3>1. b - x <= b - y
      BY <2>2, <2>3
    <3>. QED
      BY <1>2, <3>1
  <2>. QED
    BY <2>4
<1>4. \E x \in X : \A y \in X : x <= y
  <2>. DEFINE Y == {x - a : x \in X}
  <2>1. Y \in SUBSET Nat /\ Y # {}
    <3>1. \A x \in X : x - a \in Nat
      BY <1>2
    <3>2. PICK x \in X : TRUE
      OBVIOUS
    <3>3. x - a \in Y
      OBVIOUS
    <3>. QED
      BY <3>1, <3>3
  <2>2. PICK u \in Y : \A v \in Y : u <= v
    BY <2>1, LeastOf, Zenon
  <2>3. PICK x \in X : u = x - a
    BY <2>2
  <2>4. ASSUME NEW y \in X PROVE x <= y
    <3>1. x - a <= y - a
      BY <2>2, <2>3
    <3>. QED
      BY <1>2, <3>1
  <2>. QED
    BY <2>4
<1>5. Max(X) \in X /\ \A y \in X : Max(X) >= y
  BY <1>3 DEF Max
<1>6. Min(X) \in X /\ \A y \in X : Min(X) <= y
  BY <1>4 DEF Min
<1>7. \A y \in X : y <= Max(X)
  BY <1>2, <1>5
<1>. QED
  BY <1>1, <1>5, <1>6, <1>7
-----------------------------------------------------------------------------
(* What is read of the tables is not younger than what it is read for.     *)
LEMMA LatestIs ==
  ASSUME NEW X, NEW t \in Nat, \A x \in X : x \in Nat /\ x <= t
  PROVE  Latest(X) \in Int /\ Latest(X) <= t /\ (X # {} => Latest(X) \in X)
<1>1. CASE X = {}
  BY <1>1 DEF Latest, Never
<1>2. CASE X # {}
  <2>1. X \subseteq 0 .. t /\ 0 \in Int /\ t \in Int
    OBVIOUS
  <2>2. Max(X) \in X
    BY <1>2, <2>1, Ends, Zenon
  <2>. QED
    BY <1>2, <2>2 DEF Latest
<1>. QED
  BY <1>1, <1>2

LEMMA LatestBeforeIs ==
  ASSUME NEW X, X \subseteq Nat, NEW t \in Nat
  PROVE  LatestBefore(X, t) \in Int /\ LatestBefore(X, t) <= t
<1>1. \A x \in {u \in X : u < t} : x \in Nat /\ x <= t
  OBVIOUS
<1>. QED
  BY <1>1, LatestIs DEF LatestBefore

LEMMA InitializationsAre ==
  ASSUME NEW stored \in SUBSET Seconds, NEW t \in Nat, NEW pad \in Int, pad <= t,
         pad \in Nat \/ pad = ZeroRow,
         NEW b \in Initializations(stored, t, pad)
  PROVE  b \in Int /\ b <= t
<1>. DEFINE start == t - Second * Period
            rows  == {u \in stored : start <= u /\ u <= t}
<1>. PICK first : first = start
  OBVIOUS
<1>1. first \in Int /\ first = t - 2 * Period /\ 2 * Period \in Nat
  BY Facts DEF Second
<1>2. \A u \in rows : u \in Nat /\ u <= t
  BY SecondsAre
<1>3. rows # {} => Max(rows) \in rows
  <2>1. rows \subseteq 0 .. t
    BY <1>2
  <2>. QED
    BY <2>1, Ends
<1>4. Cardinality(rows) >= Period => rows # {}
  BY FS_EmptySet, Facts
<1>5. (start + (start % Second) + Second * (Period - 1)) \in Int
      /\ (start + (start % Second) + Second * (Period - 1)) <= t
  <2>1. first % 2 \in 0 .. 1
    BY <1>1
  <2>2. first + (first % 2) + 2 * (Period - 1) \in Int /\ first + (first % 2) + 2 * (Period - 1) <= t
    BY <1>1, <2>1, Facts
  <2>. QED
    BY <2>2 DEF Second
<1>6. Latest(rows \union {pad}) \in Int /\ Latest(rows \union {pad}) <= t
  <2>1. rows \union {pad} \subseteq ZeroRow .. t /\ ZeroRow \in Int /\ t \in Int
    BY <1>2 DEF ZeroRow
  <2>2. Max(rows \union {pad}) \in rows \union {pad}
    <3>1. rows \union {pad} # {}
      OBVIOUS
    <3>. QED
      BY <2>1, <3>1, Ends, Zenon
  <2>. QED
    BY <1>2, <2>2 DEF Latest
<1>7. (b = Max(rows) /\ rows # {}) \/ b = start + (start % Second) + Second * (Period - 1) \/ b = Latest(rows \union {pad})
  <2>. HIDE DEF rows
  <2>1. Initializations(stored, t, pad) =
          IF Cardinality(rows) >= Period THEN {Max(rows)}
          ELSE {start + (start % Second) + Second * (Period - 1), Latest(rows \union {pad})}
    BY DEF Initializations, rows
  <2>. QED
    BY <1>4, <2>1
<1>. HIDE DEF start, rows
<1>. QED
  <2>1. CASE b = Max(rows) /\ rows # {}
    BY <1>2, <1>3, <2>1
  <2>2. CASE b # Max(rows) \/ rows = {}
    BY <1>5, <1>6, <1>7, <2>2
  <2>. QED
    BY <2>1, <2>2

LEMMA GenerateIs ==
  ASSUME candles \in [Symbols -> SUBSET Seconds], \A s \in Symbols : Indicated(s) \subseteq Nat,
         NEW t \in Nat, NEW known, TakenOK(known, t)
  PROVE  /\ TakenOK(Generate(t, known), t)
         /\ \A s \in Symbols : t \in candles[s] => Generate(t, known)[s].close = t
<1>. SUFFICES ASSUME NEW s \in Symbols
              PROVE  /\ Taken(s, t, known).close \in Int /\ Taken(s, t, known).close <= t
                     /\ Taken(s, t, known).values \in Int /\ Taken(s, t, known).values <= t
                     /\ t \in candles[s] => Taken(s, t, known).close = t
  BY DEF Generate, TakenOK
<1>1. candles[s] \subseteq Nat
  BY SecondsAre
<1>2. /\ LatestBefore(candles[s], t) \in Int /\ LatestBefore(candles[s], t) <= t
      /\ LatestBefore(Indicated(s), t) \in Int /\ LatestBefore(Indicated(s), t) <= t
  BY <1>1, LatestBeforeIs
<1>3. /\ known[s].close \in Int /\ known[s].close <= t
      /\ known[s].values \in Int /\ known[s].values <= t
  BY DEF TakenOK
<1>. QED
  BY <1>2, <1>3 DEF Taken
-----------------------------------------------------------------------------
(* The steps of the pipeline, by what they do to its state.                *)
IsPipeline(l) == l = Pipeline(l.at, l.time, l.of, l.held, l.newest, l.buffers, l.known)

LEMMA PipelineFields ==
  \A at, time, of, held, newest, buffers, known :
    /\ Pipeline(at, time, of, held, newest, buffers, known).at = at
    /\ Pipeline(at, time, of, held, newest, buffers, known).time = time
    /\ Pipeline(at, time, of, held, newest, buffers, known).of = of
    /\ Pipeline(at, time, of, held, newest, buffers, known).held = held
    /\ Pipeline(at, time, of, held, newest, buffers, known).newest = newest
    /\ Pipeline(at, time, of, held, newest, buffers, known).buffers = buffers
    /\ Pipeline(at, time, of, held, newest, buffers, known).known = known
BY DEF Pipeline

LEMMA DownIs == Down = Pipeline("down", Never, Symbols, [s \in Symbols |-> {}], [s \in Symbols |-> Never],
                          [s \in Symbols |-> Empty],
                                [s \in Symbols |-> Nothing])
BY DEF Down, Pipeline

LEMMA StartIs ==
  ASSUME Start
  PROVE  live' = Pipeline("waiting", now - Second, Symbols, [s \in Symbols |-> {}], [s \in Symbols |-> Never],
                          [s \in Symbols |-> Empty], [s \in Symbols |-> Nothing])
BY DEF Start, Down, Pipeline

LEMMA EndedIs ==
  Ended = Pipeline("down", 0, Symbols, [s \in Symbols |-> {}], [s \in Symbols |-> Never],
                          [s \in Symbols |-> Empty],
                   [s \in Symbols |-> Nothing])
<1>. PICK d : d = Down
  OBVIOUS
<1>1. Ended = [d EXCEPT !.time = 0]
  BY DEF Ended
<1>2. Ended = Pipeline(d.at, 0, d.of, d.held, d.newest, d.buffers, d.known)
  BY <1>1, DownIs DEF Pipeline
<1>3. /\ d.at = "down" /\ d.of = Symbols /\ d.held = [s \in Symbols |-> {}]
      /\ d.newest = [s \in Symbols |-> Never] /\ d.buffers = [s \in Symbols |-> Empty]
      /\ d.known = [s \in Symbols |-> Nothing]
  BY DEF Down
<1>. QED
  BY <1>2, <1>3

LEMMA TickIs ==
  ASSUME IsPipeline(live), Tick
  PROVE  live' = Pipeline("tickets", now - Second, Symbols, live.held, live.newest, live.buffers, live.known)
BY DEF Tick, IsPipeline, Pipeline

LEMMA NothingEmittedIs ==
  ASSUME IsPipeline(live), NothingEmitted
  PROVE  live' = Pipeline(live.at, live.time, {}, live.held, live.newest, live.buffers, live.known)
BY DEF NothingEmitted, IsPipeline, Pipeline

LEMMA GenerateVectorIs ==
  ASSUME IsPipeline(live), GenerateVector
  PROVE  \/ /\ live' = Pipeline("waiting", live.time, live.of, live.held, live.newest, live.buffers, Generate(live.time, live.known))
            /\ vectors' = Put(vectors, live.time, Generate(live.time, live.known))
         \/ /\ live' = Pipeline("waiting", live.time, live.of, live.held, live.newest, live.buffers, live.known)
            /\ vectors' = vectors
BY DEF GenerateVector, IsPipeline, Pipeline

TicketTo(s, t, written, computed, filled) ==
  LET due    == live.held[s] \union {t}
      stored == candles[s] \union (IF written THEN due ELSE {})
      value  == AddCandle(filled, t)
  IN  /\ filled \in IF live.buffers[s] = Empty THEN Initializations(stored, t, t)
                    ELSE {live.buffers[s]}
      /\ live' = Pipeline("tickets", live.time, live.of \ {s},
                          [live.held EXCEPT ![s] = IF written THEN {} ELSE due],
                          [live.newest EXCEPT ![s] = Max({@, t})],
                          [live.buffers EXCEPT ![s] = value], live.known)
      /\ candles' = [candles EXCEPT ![s] = stored]
      /\ windows' = IF computed THEN [windows EXCEPT ![s] = Put(@, t, value)] ELSE windows
      /\ overtaken' = IF computed
                      THEN [overtaken EXCEPT ![s] = IF t < live.newest[s] THEN @ \union {t} ELSE @ \ {t}]
                      ELSE overtaken
      /\ job' = Disturbed(Unseen({s} \X (stored \ candles[s])), t)

LEMMA TicketIs ==
  ASSUME IsPipeline(live), NEW s \in Symbols, NEW t, NEW written, NEW computed, Ticket(s, t, written, computed)
  PROVE  \E filled : TicketTo(s, t, written, computed, filled)
<1>. PICK due, stored : due = live.held[s] \union {t} /\ stored = candles[s] \union (IF written THEN due ELSE {})
  OBVIOUS
<1>1. PICK filled \in Filled(s, t, stored) :
        /\ live' = [live EXCEPT !.of = @ \ {s}, !.held[s] = IF written THEN {} ELSE due,
                                !.newest[s] = Max({@, t}), !.buffers[s] = AddCandle(filled, t)]
        /\ windows' = IF computed THEN [windows EXCEPT ![s] = Put(@, t, AddCandle(filled, t))] ELSE windows
  BY DEF Ticket
<1>2. /\ candles' = [candles EXCEPT ![s] = stored] /\ live.at = "tickets"
      /\ job' = Disturbed(Unseen({s} \X (stored \ candles[s])), t)
      /\ overtaken' = IF computed
                      THEN [overtaken EXCEPT ![s] = IF t < live.newest[s] THEN @ \union {t} ELSE @ \ {t}]
                      ELSE overtaken
  BY DEF Ticket, Late
<1>3. live' = Pipeline("tickets", live.time, live.of \ {s}, [live.held EXCEPT ![s] = IF written THEN {} ELSE due],
                       [live.newest EXCEPT ![s] = Max({@, t})], [live.buffers EXCEPT ![s] = AddCandle(filled, t)],
                       live.known)
  <2>. PICK held, new, value : /\ held = IF written THEN {} ELSE due
                              /\ new = Max({live.newest[s], t}) /\ value = AddCandle(filled, t)
    OBVIOUS
  <2>1. live' = [live EXCEPT !.of = @ \ {s}, !.held[s] = held, !.newest[s] = new, !.buffers[s] = value]
    BY <1>1, Zenon
  <2>2. live' = Pipeline("tickets", live.time, live.of \ {s}, [live.held EXCEPT ![s] = held],
                         [live.newest EXCEPT ![s] = new], [live.buffers EXCEPT ![s] = value], live.known)
    BY <1>2, <2>1 DEF IsPipeline, Pipeline
  <2>. QED
    BY <2>2, Zenon
<1>4. TicketTo(s, t, written, computed, filled)
  BY <1>1, <1>2, <1>3, Zenon DEF TicketTo, Filled
<1>. QED
  BY <1>4
-----------------------------------------------------------------------------
(* What the pipeline knows stays old, and what it stores is.               *)
LEMMA PipelineIntro ==
  ASSUME NEW at \in {"down", "waiting", "tickets"}, NEW time, NEW of \in SUBSET Symbols,
         NEW held \in [Symbols -> SUBSET Seconds], NEW newest \in [Symbols -> Int],
         NEW buffers \in [Symbols -> Int], NEW known, NEW n,
         at # "down" => /\ time \in Even /\ time < n
                        /\ \A s \in Symbols : buffers[s] <= newest[s] /\ newest[s] <= time
                        /\ TakenOK(known, time),
         at = "tickets" => time \in Seconds
  PROVE  PipelineOK(Pipeline(at, time, of, held, newest, buffers, known), n)
<1>. PICK l : l = Pipeline(at, time, of, held, newest, buffers, known)
  OBVIOUS
<1>1. /\ l.at = at /\ l.time = time /\ l.of = of /\ l.held = held /\ l.newest = newest
      /\ l.buffers = buffers /\ l.known = known
  BY PipelineFields
<1>2. PipelineOK(l, n)
  BY <1>1 DEF PipelineOK
<1>. QED
  BY <1>2

LEMMA TicketsIntro ==
  ASSUME NEW time \in Seconds, time \in Even, NEW n, time < n, NEW of \in SUBSET Symbols,
         NEW held \in [Symbols -> SUBSET Seconds], NEW newest \in [Symbols -> Int],
         NEW buffers \in [Symbols -> Int], NEW known, TakenOK(known, time),
         \A s \in Symbols : buffers[s] <= newest[s] /\ newest[s] <= time
  PROVE  PipelineOK(Pipeline("tickets", time, of, held, newest, buffers, known), n)
BY PipelineIntro

LEMMA IsOK ==
  ASSUME NEW l, NEW n, PipelineOK(l, n) PROVE IsPipeline(l)
BY DEF PipelineOK, IsPipeline

LEMMA NothingKnown ==
  ASSUME NEW t \in Nat
  PROVE  /\ TakenOK([s \in Symbols |-> Nothing], t)
         /\ [s \in Symbols |-> Empty] \in [Symbols -> Int] /\ [s \in Symbols |-> Never] \in [Symbols -> Int]
         /\ \A s \in Symbols : /\ [r \in Symbols |-> Empty][s] <= [r \in Symbols |-> Never][s]
                               /\ [r \in Symbols |-> Never][s] <= t
         /\ [s \in Symbols |-> {}] \in [Symbols -> SUBSET Seconds]
BY DEF TakenOK, Nothing, Never, Empty

LEMMA DownOK == \A n : PipelineOK(Down, n) /\ PipelineOK(Ended, n)
BY DownIs, EndedIs, PipelineIntro, NothingKnown

LEMMA TakenLater ==
  ASSUME NEW k, NEW t \in Nat, NEW u \in Nat, t <= u, TakenOK(k, t)
  PROVE  TakenOK(k, u)
BY DEF TakenOK

LEMMA PipelineLater ==
  ASSUME NEW l, NEW n \in Nat, NEW m \in Nat, n <= m, PipelineOK(l, n)
  PROVE  PipelineOK(l, m)
<1>1. l.at # "down" => l.time \in Nat
  BY DEF PipelineOK, Even
<1>2. l.at # "down" => l.time < m
  BY <1>1 DEF PipelineOK
<1>. QED
  BY <1>2 DEF PipelineOK

LEMMA ClockIs ==
  ASSUME ClockOK(now)
  PROVE  now \in Nat /\ now \in Even /\ now - 2 \in Even /\ now - 2 < now /\ now - 2 \in Nat /\ now + 1 \in Nat
         /\ (now > 2 => now - 2 \in Seconds)
<1>1. now \in Nat /\ now \in Even /\ now >= 2 /\ (now = 2 \/ now <= MaxTime)
  BY SecondsAre DEF ClockOK
<1>2. now - 2 \in Even /\ now - 2 < now /\ now - 2 \in Nat
  BY <1>1, SecondsAre
<1>3. ASSUME now > 2 PROVE now - 2 \in Seconds
  <2>1. 2 \in Even /\ MaxTime \in Nat
    BY Facts DEF Even, MaxTime, Second
  <2>2. 2 + 2 <= now
    BY <1>1, <1>3, <2>1, SecondsAre
  <2>3. now - 2 >= 2 /\ now - 2 <= MaxTime
    BY <1>1, <1>3, <2>1, <2>2
  <2>. QED
    BY <1>2, <2>3, SecondsAre
<1>. QED
  BY <1>1, <1>2, <1>3

LEMMA StartOK ==
  ASSUME ClockOK(now), Start PROVE PipelineOK(live', now)
<1>1. now - Second \in Even /\ now - Second < now /\ now - Second \in Nat
  BY ClockIs DEF Second
<1>2. PipelineOK(Pipeline("waiting", now - Second, Symbols, [s \in Symbols |-> {}], [s \in Symbols |-> Never],
                          [s \in Symbols |-> Empty], [s \in Symbols |-> Nothing]), now)
  BY <1>1, PipelineIntro, NothingKnown
<1>. QED
  BY <1>2, StartIs

LEMMA TickOK ==
  ASSUME ClockOK(now), PipelineOK(live, now), Tick PROVE PipelineOK(live', now)
<1>1. live.at = "waiting" /\ live.time < now - Second
  BY DEF Tick
<1>2. /\ live.time \in Nat /\ live.held \in [Symbols -> SUBSET Seconds]
      /\ live.newest \in [Symbols -> Int] /\ live.buffers \in [Symbols -> Int]
      /\ \A s \in Symbols : live.buffers[s] <= live.newest[s] /\ live.newest[s] <= live.time
      /\ TakenOK(live.known, live.time)
  BY <1>1 DEF PipelineOK, Even
<1>. PICK t : t = now - Second
  OBVIOUS
<1>3. t \in Even /\ t < now /\ t \in Nat /\ t \in Seconds /\ live.time < t
  <2>1. now > 2
    BY <1>1, <1>2, ClockIs DEF Second
  <2>. QED
    BY <1>1, <2>1, ClockIs DEF Second
<1>4. TakenOK(live.known, t)
  BY <1>2, <1>3, TakenLater
<1>5. \A s \in Symbols : live.buffers[s] <= live.newest[s] /\ live.newest[s] <= t
  BY <1>2, <1>3
<1>6. PipelineOK(Pipeline("tickets", t, Symbols, live.held, live.newest, live.buffers, live.known), now)
  BY <1>2, <1>3, <1>4, <1>5, PipelineIntro
<1>. QED
  BY <1>6, IsOK, TickIs

LEMMA NothingEmittedOK ==
  ASSUME PipelineOK(live, now), NothingEmitted PROVE PipelineOK(live', now)
<1>1. live.at = "tickets"
  BY DEF NothingEmitted
<1>2. /\ live.time \in Even /\ live.time < now /\ live.time \in Seconds
      /\ live.held \in [Symbols -> SUBSET Seconds]
      /\ live.newest \in [Symbols -> Int] /\ live.buffers \in [Symbols -> Int]
      /\ \A s \in Symbols : live.buffers[s] <= live.newest[s] /\ live.newest[s] <= live.time
      /\ TakenOK(live.known, live.time)
  BY <1>1 DEF PipelineOK
<1>3. PipelineOK(Pipeline("tickets", live.time, {}, live.held, live.newest, live.buffers, live.known), now)
  BY <1>2, PipelineIntro
<1>. QED
  BY <1>1, <1>3, IsOK, NothingEmittedIs

LEMMA TablesAre ==
  ASSUME TablesOK(candles, windows, overtaken, vectors)
  PROVE  /\ candles \in [Symbols -> SUBSET Seconds]
         /\ \A s \in Symbols : Indicated(s) \subseteq Nat /\ candles[s] \in SUBSET Seconds /\ WindowOK(windows[s], overtaken[s])
BY DEF TablesOK, WindowOK, Indicated

LEMMA PutVectorOK ==
  ASSUME VectorsOK(vectors), NEW t \in Nat, NEW made, TakenOK(made, t)
  PROVE  VectorsOK(Put(vectors, t, made))
<1>. PICK v : v = Put(vectors, t, made)
  OBVIOUS
<1>1. DOMAIN v = DOMAIN vectors \union {t} /\ v[t] = made /\ \A z \in DOMAIN vectors : z # t => v[z] = vectors[z]
  BY DEF Put
<1>2. \A z \in DOMAIN v : TakenOK(v[z], z)
  BY <1>1 DEF VectorsOK
<1>3. DOMAIN v \subseteq Nat
  BY <1>1 DEF VectorsOK
<1>. QED
  BY <1>2, <1>3 DEF VectorsOK

LEMMA GenerateVectorOK ==
  ASSUME TablesOK(candles, windows, overtaken, vectors), PipelineOK(live, now), GenerateVector
  PROVE  PipelineOK(live', now) /\ VectorsOK(vectors')
<1>1. live.at = "tickets" /\ UNCHANGED <<candles, windows, overtaken>>
  BY DEF GenerateVector
<1>2. /\ live.time \in Even /\ live.time < now /\ live.time \in Nat /\ live.of \in SUBSET Symbols
      /\ live.held \in [Symbols -> SUBSET Seconds]
      /\ live.newest \in [Symbols -> Int] /\ live.buffers \in [Symbols -> Int]
      /\ \A s \in Symbols : live.buffers[s] <= live.newest[s] /\ live.newest[s] <= live.time
      /\ TakenOK(live.known, live.time)
  BY <1>1 DEF PipelineOK, Even
<1>3. TakenOK(Generate(live.time, live.known), live.time)
  BY <1>2, GenerateIs, TablesAre
<1>4. ASSUME NEW k, TakenOK(k, live.time)
      PROVE  PipelineOK(Pipeline("waiting", live.time, live.of, live.held, live.newest, live.buffers, k), now)
  BY <1>2, <1>4, PipelineIntro
<1>5. VectorsOK(vectors) /\ VectorsOK(Put(vectors, live.time, Generate(live.time, live.known)))
  BY <1>2, <1>3, PutVectorOK DEF TablesOK
<1>. QED
  BY <1>2, <1>3, <1>4, <1>5, IsOK, GenerateVectorIs

LEMMA WindowPut ==
  ASSUME NEW w, NEW o, WindowOK(w, o), NEW t \in Nat, NEW v \in Int, NEW p, v <= t \/ t \in p, o \ {t} \subseteq p
  PROVE  WindowOK(Put(w, t, v), p) /\ DOMAIN Put(w, t, v) = DOMAIN w \union {t}
<1>. PICK q : q = Put(w, t, v)
  OBVIOUS
<1>1. DOMAIN q = DOMAIN w \union {t} /\ q[t] = v /\ \A z \in DOMAIN w : z # t => q[z] = w[z]
  BY DEF Put
<1>2. \A z \in DOMAIN q : q[z] \in Int /\ (q[z] <= z \/ z \in p)
  BY <1>1 DEF WindowOK
<1>. QED
  BY <1>1, <1>2 DEF WindowOK

LEMMA WindowsPut ==
  ASSUME windows = [r \in Symbols |-> windows[r]], \A r \in Symbols : WindowOK(windows[r], overtaken[r]),
         NEW s \in Symbols, NEW t \in Nat, NEW v \in Int, NEW o, v <= t \/ t \in o[s], overtaken[s] \ {t} \subseteq o[s],
         \A r \in Symbols : r # s => o[r] = overtaken[r],
         NEW w, w = [windows EXCEPT ![s] = Put(@, t, v)]
  PROVE  /\ w = [r \in Symbols |-> w[r]] /\ \A r \in Symbols : WindowOK(w[r], o[r])
         /\ \A r \in Symbols : DOMAIN w[r] = Indicated(r) \union (IF r = s THEN {t} ELSE {})
<1>1. \A r \in Symbols : w[r] = IF r = s THEN Put(windows[s], t, v) ELSE windows[r]
  OBVIOUS
<1>2. w = [r \in Symbols |-> w[r]]
  OBVIOUS
<1>3. WindowOK(Put(windows[s], t, v), o[s]) /\ DOMAIN Put(windows[s], t, v) = Indicated(s) \union {t}
  <2>. PICK w_, before, after : w_ = windows[s] /\ before = overtaken[s] /\ after = o[s]
    OBVIOUS
  <2>1. WindowOK(w_, before) /\ before \ {t} \subseteq after /\ (v <= t \/ t \in after)
    OBVIOUS
  <2>2. WindowOK(Put(w_, t, v), after) /\ DOMAIN Put(w_, t, v) = DOMAIN w_ \union {t}
    BY <2>1, WindowPut
  <2>. QED
    BY <2>2 DEF Indicated
<1>. QED
  BY <1>1, <1>2, <1>3 DEF Indicated

LEMMA AddCandleIs ==
  ASSUME NEW b \in Int, NEW t \in Int
  PROVE  AddCandle(b, t) \in Int /\ (b <= t => AddCandle(b, t) = t) /\ (t <= b => AddCandle(b, t) = b)
BY MaxOfTwo DEF AddCandle

(* What a ticket does to the tables: it stores candles that are due, and   *)
(* indicators of its second only.                                          *)
Stores(s, t, c, w, o) ==
  /\ c = [candles EXCEPT ![s] = c[s]] /\ candles[s] \subseteq c[s] /\ c[s] \subseteq Seconds
  /\ w = [r \in Symbols |-> w[r]] /\ \A r \in Symbols : WindowOK(w[r], o[r])
  /\ \A r \in Symbols : DOMAIN w[r] = Indicated(r) \/ (r = s /\ DOMAIN w[r] = Indicated(r) \union {t})

(* The candle that comes after a later one is the only whose row may hold  *)
(* a later one.                                                            *)
LEMMA TicketOK ==
  ASSUME TablesOK(candles, windows, overtaken, vectors), PipelineOK(live, now), NEW s \in Symbols, NEW t \in Seconds,
         NEW written \in BOOLEAN, NEW computed \in BOOLEAN, Ticket(s, t, written, computed)
  PROVE  /\ PipelineOK(live', now)
         /\ Stores(s, t, candles', windows', overtaken')
         /\ job' = Disturbed(Unseen({s} \X (candles'[s] \ candles[s])), t)
<1>1. live.at = "tickets" /\ t <= live.time
  BY DEF Ticket
<1>. PICK time : time = live.time
  OBVIOUS
<1>2. /\ time \in Even /\ time < now /\ time \in Seconds /\ time \in Nat /\ t \in Nat /\ t <= time
      /\ live.of \in SUBSET Symbols /\ live.held \in [Symbols -> SUBSET Seconds]
      /\ live.newest \in [Symbols -> Int] /\ live.buffers \in [Symbols -> Int]
      /\ \A r \in Symbols : live.buffers[r] <= live.newest[r] /\ live.newest[r] <= time
      /\ TakenOK(live.known, time)
  BY <1>1, SecondsAre DEF PipelineOK, Even
<1>. DEFINE due    == live.held[s] \union {t}
            stored == candles[s] \union (IF written THEN due ELSE {})
<1>3. due \in SUBSET Seconds /\ stored \in SUBSET Seconds /\ candles[s] \subseteq stored
  BY <1>2, TablesAre
<1>. PICK filled : TicketTo(s, t, written, computed, filled)
  BY IsOK, TicketIs
<1>. PICK value, newest : value = AddCandle(filled, t) /\ newest = Max({live.newest[s], t})
  OBVIOUS
<1>4. /\ filled \in IF live.buffers[s] = Empty THEN Initializations(stored, t, t) ELSE {live.buffers[s]}
      /\ live' = Pipeline("tickets", time, live.of \ {s}, [live.held EXCEPT ![s] = IF written THEN {} ELSE due],
                          [live.newest EXCEPT ![s] = newest], [live.buffers EXCEPT ![s] = value], live.known)
      /\ candles' = [candles EXCEPT ![s] = stored]
      /\ windows' = IF computed THEN [windows EXCEPT ![s] = Put(@, t, value)] ELSE windows
      /\ overtaken' = IF computed
                      THEN [overtaken EXCEPT ![s] = IF t < live.newest[s] THEN @ \union {t} ELSE @ \ {t}]
                      ELSE overtaken
      /\ job' = Disturbed(Unseen({s} \X (stored \ candles[s])), t)
  BY Zenon DEF TicketTo
<1>5. filled \in Int /\ (filled <= t \/ filled <= live.newest[s])
  <2>1. CASE live.buffers[s] = Empty
    BY <1>2, <1>3, <1>4, <2>1, InitializationsAre
  <2>2. CASE live.buffers[s] # Empty
    BY <1>2, <1>4, <2>2
  <2>. QED
    BY <2>1, <2>2
<1>6. newest \in Int /\ newest = IF live.newest[s] <= t THEN t ELSE live.newest[s]
  BY <1>2, MaxOfTwo
<1>7. /\ value \in Int /\ value <= newest /\ newest <= time
      /\ (value <= t \/ t < live.newest[s])
  <2>. PICK late : late = live.newest[s]
    OBVIOUS
  <2>1. late \in Int /\ late <= time /\ filled \in Int /\ (filled <= t \/ filled <= late) /\ t \in Int
    BY <1>2, <1>5
  <2>2. value \in Int /\ (filled <= t => value = t) /\ (t <= filled => value = filled)
    BY <2>1, AddCandleIs
  <2>3. newest = IF late <= t THEN t ELSE late
    BY <1>6
  <2>4. t \in Nat /\ time \in Nat /\ t <= time
    BY <1>2
  <2>5. value \in Int /\ value <= newest /\ newest <= time
    BY <2>1, <2>2, <2>3, <2>4
  <2>6. value <= t \/ t < late
    BY <2>1, <2>2, <2>4
  <2>. QED
    BY <2>5, <2>6
<1>. HIDE DEF due, stored
<1>8. PipelineOK(live', now)
  <2>1. [live.held EXCEPT ![s] = IF written THEN {} ELSE due] \in [Symbols -> SUBSET Seconds]
    BY <1>2, <1>3
  <2>. PICK buffers : buffers = [live.buffers EXCEPT ![s] = value]
    OBVIOUS
  <2>. PICK newests : newests = [live.newest EXCEPT ![s] = newest]
    OBVIOUS
  <2>2. /\ buffers \in [Symbols -> Int] /\ newests \in [Symbols -> Int]
        /\ \A r \in Symbols : buffers[r] <= newests[r] /\ newests[r] <= time
    BY <1>2, <1>6, <1>7
  <2>3. PipelineOK(Pipeline("tickets", time, live.of \ {s}, [live.held EXCEPT ![s] = IF written THEN {} ELSE due],
                            newests, buffers, live.known), now)
    <3>. PICK of, held, known : /\ of = live.of \ {s} /\ known = live.known
                                /\ held = [live.held EXCEPT ![s] = IF written THEN {} ELSE due]
      OBVIOUS
    <3>1. /\ of \in SUBSET Symbols /\ "tickets" \in {"down", "waiting", "tickets"}
          /\ held \in [Symbols -> SUBSET Seconds]
          /\ time \in Even /\ time < now /\ time \in Seconds /\ TakenOK(known, time)
      BY <1>2, <2>1
    <3>2. PipelineOK(Pipeline("tickets", time, of, held, newests, buffers, known), now)
      BY <2>2, <3>1, TicketsIntro, Zenon
    <3>. QED
      BY <3>2
  <2>. QED
    BY <1>4, <2>3
<1>9. candles'[s] = stored /\ candles' = [candles EXCEPT ![s] = candles'[s]]
  BY <1>4, TablesAre
<1>10. /\ windows' = [r \in Symbols |-> windows'[r]] /\ \A r \in Symbols : WindowOK(windows'[r], overtaken'[r])
       /\ \A r \in Symbols : DOMAIN windows'[r] = Indicated(r) \/ (r = s /\ DOMAIN windows'[r] = Indicated(r) \union {t})
  <2>1. /\ windows = [r \in Symbols |-> windows[r]] /\ \A r \in Symbols : WindowOK(windows[r], overtaken[r])
        /\ overtaken = [r \in Symbols |-> overtaken[r]]
    BY DEF TablesOK
  <2>2. CASE computed
    <3>. PICK w, o : w = windows' /\ o = overtaken'
      OBVIOUS
    <3>1. /\ w = [windows EXCEPT ![s] = Put(@, t, value)]
          /\ o = [overtaken EXCEPT ![s] = IF t < live.newest[s] THEN @ \union {t} ELSE @ \ {t}]
      BY <1>4, <2>2
    <3>2. /\ value <= t \/ t \in o[s]
          /\ overtaken[s] \ {t} \subseteq o[s]
          /\ \A r \in Symbols : r # s => o[r] = overtaken[r]
      BY <1>7, <2>1, <3>1
    <3>3. /\ w = [r \in Symbols |-> w[r]] /\ \A r \in Symbols : WindowOK(w[r], o[r])
          /\ \A r \in Symbols : DOMAIN w[r] = Indicated(r) \union (IF r = s THEN {t} ELSE {})
      <4>1. t \in Nat /\ value \in Int
        BY <1>2, <1>7
      <4>2. /\ windows = [r \in Symbols |-> windows[r]]
            /\ \A r \in Symbols : WindowOK(windows[r], overtaken[r])
            /\ w = [windows EXCEPT ![s] = Put(@, t, value)]
        BY <2>1, <3>1
      <4>. QED
        BY <3>2, <4>1, <4>2, WindowsPut, SMTT(30)
    <3>4. \A r \in Symbols : DOMAIN w[r] = Indicated(r) \/ (r = s /\ DOMAIN w[r] = Indicated(r) \union {t})
      BY <3>3
    <3>. QED
      BY <3>3, <3>4
  <2>3. CASE ~computed
    BY <1>4, <2>1, <2>3 DEF Indicated
  <2>. QED
    BY <2>2, <2>3
<1>. QED
  BY <1>2, <1>3, <1>4, <1>8, <1>9, <1>10 DEF Stores
-----------------------------------------------------------------------------
(* The job, when the pipeline goes on beside it.                           *)
LEMMA Kinds ==
  ASSUME NEW j, NEW c, NEW w, NEW v, JobOK(j, c, w, v)
  PROVE  /\ j.kind \in {"none", "gaps", "indicators", "recalculated", "vectors"}
         /\ j.kind = "none" => j = NoJob
         /\ j.kind = "gaps" <=> GapsOK(j, c)
         /\ j.kind \in {"indicators", "recalculated"} <=> RecalculationOK(j, c, w)
         /\ j.kind = "vectors" <=> VectorJobOK(j, w, v)
<1>1. j = NoJob => j.kind = "none"
  BY DEF NoJob
<1>2. GapsOK(j, c) => j.kind = "gaps"
  BY DEF GapsOK
<1>3. RecalculationOK(j, c, w) => j.kind \in {"indicators", "recalculated"}
  BY DEF RecalculationOK
<1>4. VectorJobOK(j, w, v) => j.kind = "vectors"
  BY DEF VectorJobOK
<1>. QED
  BY <1>1, <1>2, <1>3, <1>4 DEF JobOK

Grows(c) == c \in [Symbols -> SUBSET Seconds] /\ \A s \in Symbols : candles[s] \subseteq c[s]

LEMMA ClosedStays ==
  ASSUME NEW gap, NEW b, NEW c, gap[1] \in Symbols, \A s \in Symbols : b[s] \subseteq c[s], Closed(gap, b)
  PROVE  Closed(gap, c)
BY DEF Closed

LEMMA GapsStay ==
  ASSUME NEW j, NEW c, GapsOK(j, candles), Grows(c)
  PROVE  GapsOK(j, c)
<1>1. ASSUME NEW gap \in j.found, Closed(gap, candles) PROVE Closed(gap, c)
  <2>1. gap[1] \in Symbols
    BY DEF GapsOK
  <2>. QED
    BY <1>1, <2>1, ClosedStays DEF Grows
<1>. QED
  BY <1>1 DEF GapsOK

LEMMA UnseenOK ==
  ASSUME JobOK(job, candles, windows, vectors), NEW c, Grows(c), NEW added,
         \A s \in Symbols : \A t \in c[s] \ candles[s] : <<s, t>> \in added
  PROVE  JobOK(Unseen(added), c, windows, vectors)
<1>1. CASE job = NoJob
  BY <1>1 DEF Unseen, NoJob, JobOK
<1>2. CASE GapsOK(job, candles)
  <2>1. Unseen(added) = job
    BY <1>2 DEF Unseen, GapsOK
  <2>. QED
    BY <1>2, <2>1, GapsStay DEF JobOK
<1>3. CASE VectorJobOK(job, windows, vectors)
  <2>1. Unseen(added) = job
    BY <1>3 DEF Unseen, VectorJobOK
  <2>. QED
    BY <1>3, <2>1 DEF JobOK
<1>4. CASE RecalculationOK(job, candles, windows)
  <2>. DEFINE cut   == job.cut \union {r \in added : Passed(r[2])}
              clean == job.clean /\ added = {}
  <2>. PICK j : j = Unseen(added)
    OBVIOUS
  <2>1. j = Recalculation(job.kind, job.from, job.to, job.existing, job.cursor, job.chunk, job.ready,
                          job.buffers, job.batch, cut, clean)
    BY <1>4 DEF Unseen, RecalculationOK, Recalculation
  <2>2. /\ j.kind = job.kind /\ j.from = job.from /\ j.to = job.to /\ j.existing = job.existing
        /\ j.cursor = job.cursor /\ j.chunk = job.chunk /\ j.ready = job.ready /\ j.buffers = job.buffers
        /\ j.batch = job.batch /\ j.cut = cut /\ j.clean = clean
    BY <2>1 DEF Recalculation
  <2>3. ASSUME NEW s \in Symbols, NEW t \in c[s], j.from <= t, t < j.to,
               j.kind = "recalculated" \/ Behind(j, s, t)
        PROVE  DealtWith(j, s, t, windows)
    <3>1. CASE t \in candles[s]
      <4>1. job.kind = "recalculated" \/ Behind(job, s, t)
        BY <2>2, <2>3 DEF Behind
      <4>2. DealtWith(job, s, t, windows)
        BY <1>4, <2>2, <2>3, <3>1, <4>1 DEF RecalculationOK
      <4>. QED
        BY <2>2, <4>2 DEF DealtWith
    <3>2. CASE t \notin candles[s]
      <4>1. <<s, t>> \in added
        BY <3>2
      <4>2. Passed(t)
        BY <2>2, <2>3 DEF Passed, Behind
      <4>3. <<s, t>> \in cut
        BY <4>1, <4>2
      <4>. QED
        BY <2>2, <4>3 DEF DealtWith
    <3>. QED
      BY <3>1, <3>2
  <2>. HIDE DEF cut, clean
  <2>4. RecalculationOK(j, c, windows)
    BY <1>4, <2>1, <2>2, <2>3 DEF RecalculationOK
  <2>. QED
    BY <2>4 DEF JobOK
<1>. QED
  BY <1>1, <1>2, <1>3, <1>4 DEF JobOK

LEMMA DisturbedOK ==
  ASSUME NEW j, NEW c, NEW t \in Nat, NEW w, NEW b, NEW v, JobOK(j, c, b, v),
         \A r \in Symbols : DOMAIN w[r] = DOMAIN b[r] \/ DOMAIN w[r] = DOMAIN b[r] \union {t}
  PROVE  JobOK(Disturbed(j, t), c, w, v)
<1>1. CASE j = NoJob
  BY <1>1 DEF Disturbed, NoJob, JobOK
<1>2. CASE GapsOK(j, c)
  BY <1>2 DEF Disturbed, GapsOK, JobOK
<1>3. CASE RecalculationOK(j, c, b)
  <2>1. Disturbed(j, t) = j
    BY <1>3 DEF Disturbed, RecalculationOK
  <2>2. \A s \in Symbols : \A u : DealtWith(j, s, u, b) => DealtWith(j, s, u, w)
    BY DEF DealtWith
  <2>3. RecalculationOK(j, c, w)
    BY <1>3, <2>2 DEF RecalculationOK
  <2>. QED
    BY <2>1, <2>3 DEF JobOK
<1>4. CASE VectorJobOK(j, b, v)
  <2>1. CASE j.from <= t /\ t < j.to
    <3>. PICK k : k = Disturbed(j, t)
      OBVIOUS
    <3>1. k = VectorJob(j.from, j.to, j.cursor, j.made, FALSE)
      BY <1>4, <2>1 DEF Disturbed, VectorJobOK, VectorJob
    <3>2. /\ k.kind = "vectors" /\ k.from = j.from /\ k.to = j.to /\ k.cursor = j.cursor
          /\ k.made = j.made /\ k.clean = FALSE
      BY <3>1 DEF VectorJob
    <3>3. VectorJobOK(k, w, v)
      BY <1>4, <3>1, <3>2 DEF VectorJobOK
    <3>. QED
      BY <3>3 DEF JobOK
  <2>2. CASE ~(j.from <= t /\ t < j.to)
    <3>1. Disturbed(j, t) = j
      BY <2>2 DEF Disturbed
    <3>2. ASSUME j.clean, NEW s \in Symbols, NEW u \in DOMAIN w[s], j.from <= u, u < j.to
          PROVE  u \in DOMAIN b[s]
      BY <2>2, <3>2
    <3>3. VectorJobOK(j, w, v)
      <4>1. ASSUME j.clean, NEW s \in Symbols, NEW u \in DOMAIN w[s]
            PROVE  /\ j.from <= u /\ u < j.cursor /\ u < j.to => u \in DOMAIN v
                   /\ j.made # <<>> /\ j.from <= u /\ j.cursor <= u /\ u < j.cursor + Hour /\ u < j.to
                        => u \in DOMAIN j.made
        BY <1>4, <3>2, <4>1 DEF VectorJobOK
      <4>. QED
        BY <1>4, <4>1 DEF VectorJobOK
    <3>. QED
      BY <3>1, <3>3 DEF JobOK
  <2>. QED
    BY <2>1, <2>2
<1>. QED
  BY <1>1, <1>2, <1>3, <1>4 DEF JobOK

LEMMA VectorsGrow ==
  ASSUME NEW j, NEW c, NEW w, NEW v, JobOK(j, c, w, v), NEW u, DOMAIN v \subseteq DOMAIN u
  PROVE  JobOK(j, c, w, u)
BY DEF JobOK, VectorJobOK
-----------------------------------------------------------------------------
(* The gap fill.                                                           *)
LEMMA GapsIntro ==
  ASSUME NEW c, NEW at \in {"fill", "indicators", "vectors", "done"}, NEW left, NEW inserted, NEW clean \in BOOLEAN,
         NEW known, NEW found \in SUBSET (Symbols \X Seconds \X Seconds),
         at = "fill" => left \subseteq found,
         at = "indicators" => left \subseteq Symbols,
         at = "vectors" => left \subseteq Seconds /\ \A t \in left : TakenOK(known, t),
         at # "vectors" => known = [s \in Symbols |-> Nothing],
         clean => \A gap \in found : (at = "fill" /\ gap \in left) \/ Closed(gap, c)
  PROVE  GapsOK(GapJob(at, found, left, inserted, clean, known), c)
<1>. PICK j : j = GapJob(at, found, left, inserted, clean, known)
  OBVIOUS
<1>1. /\ j.kind = "gaps" /\ j.at = at /\ j.found = found /\ j.left = left /\ j.inserted = inserted
      /\ j.clean = clean /\ j.known = known
  BY DEF GapJob
<1>2. GapsOK(j, c)
  BY <1>1 DEF GapsOK
<1>. QED
  BY <1>2

LEMMA GapsFilling ==
  ASSUME NEW c, NEW left, NEW inserted, NEW clean \in BOOLEAN, NEW known, NEW found,
         found \in SUBSET (Symbols \X Seconds \X Seconds), left \subseteq found,
         known = [s \in Symbols |-> Nothing],
         clean => \A gap \in found : gap \in left \/ Closed(gap, c)
  PROVE  GapsOK(GapJob("fill", found, left, inserted, clean, known), c)
BY GapsIntro

LEMMA BeginGapFillOK ==
  ASSUME TablesOK(candles, windows, overtaken, vectors), BeginGapFill
  PROVE  GapsOK(job', candles)
<1>. DEFINE gaps == UNION {GapsOf(s) : s \in Symbols}
<1>1. gaps \in SUBSET (Symbols \X Seconds \X Seconds)
  <2>1. ASSUME NEW s \in Symbols, NEW gap \in GapsOf(s) PROVE gap \in Symbols \X Seconds \X Seconds
    <3>1. gap \in {s} \X candles[s] \X candles[s]
      BY DEF GapsOf
    <3>. QED
      BY <3>1, TablesAre
  <2>. QED
    BY <2>1
<1>2. job' = GapJob("fill", gaps, gaps, FALSE, TRUE, [s \in Symbols |-> Nothing])
  BY DEF BeginGapFill, Begins, GapJob
<1>. HIDE DEF gaps
<1>. QED
  BY <1>1, <1>2, GapsIntro

LEMMA Multiple ==
  ASSUME NEW a \in Nat, a >= 1, NEW n \in Nat PROVE (a * n) % a = 0
OBVIOUS

(* When the answers reach all but the last second of a gap, they were full *)
(* each.                                                                   *)
LEMMA GapIsClosed ==
  ASSUME NEW gap \in Symbols \X Seconds \X Seconds, NEW n \in Nat, NEW c,
         LET first == gap[2] + Second
             last  == gap[3] - Second
         IN  /\ n # 0 /\ ~(Reached(first, last, n) + Second < last)
             /\ Answered(first, last, n) \subseteq c[gap[1]]
  PROVE  Closed(gap, c)
<1>. PICK first, last, p : first = gap[2] + Second /\ last = gap[3] - Second /\ p = Limit * n
  OBVIOUS
<1>1. gap[2] \in Seconds /\ gap[3] \in Seconds
  OBVIOUS
<1>2. first \in Even /\ last \in Even /\ first \in Nat /\ last \in Nat
  BY <1>1, SecondsAre DEF Second
<1>3. p \in Nat /\ p >= 1
  BY Facts
<1>. PICK r : r = Reached(first, last, n)
  OBVIOUS
<1>4. r = IF last <= first + 2 * (p - 1) THEN last ELSE first + 2 * (p - 1)
  <2>1. first + 2 * (p - 1) \in Int /\ last \in Int
    BY <1>2, <1>3
  <2>2. r = Min({last, first + 2 * (p - 1)})
    BY DEF Reached, Second
  <2>. QED
    BY <2>1, <2>2, MinOfTwo
<1>5. ~(r + 2 < last) /\ Answered(first, last, n) \subseteq c[gap[1]]
  BY DEF Second
<1>6. ASSUME NEW t \in Seconds, first <= t, t <= last, t \notin c[gap[1]]
      PROVE  t = last /\ ((last - first) \div 2) % Limit = 0
  <2>1. ~(t <= r)
    BY <1>5, <1>6 DEF Answered
  <2>2. t \in Even /\ t \in Nat
    BY SecondsAre
  <2>3. r = first + 2 * (p - 1) /\ r \in Int /\ ~(last <= r)
    BY <1>2, <1>3, <1>4, <1>6, <2>1, <2>2
  <2>4. r + 2 = first + 2 * p /\ r + 2 >= last
    BY <1>2, <1>3, <1>5, <2>3
  <2>5. t = last
    <3>1. t > r /\ r + 2 >= last /\ r \in Int /\ r % 2 = 0 /\ t % 2 = 0 /\ last % 2 = 0
      BY <1>2, <1>3, <2>1, <2>2, <2>3, <2>4 DEF Even
    <3>. QED
      BY <1>2, <1>6, <2>2, <3>1
  <2>6. r + 2 = last
    <3>1. r \in Int /\ r % 2 = 0 /\ last % 2 = 0 /\ r < last /\ r + 2 >= last
      BY <1>2, <1>3, <2>3, <2>4 DEF Even
    <3>. QED
      BY <1>2, <3>1
  <2>7. last - first = 2 * p
    BY <1>2, <1>3, <2>4, <2>6
  <2>8. (2 * p) \div 2 = p
    BY <1>3
  <2>9. p % Limit = 0
    BY Facts, Multiple
  <2>. QED
    BY <2>5, <2>7, <2>8, <2>9
<1>. QED
  BY <1>6 DEF Closed, Second

LEMMA FillGapOK ==
  ASSUME TablesOK(candles, windows, overtaken, vectors), GapsOK(job, candles), NEW gap, FillGap(gap)
  PROVE  Grows(candles') /\ GapsOK(job', candles')
<1>. DEFINE first == gap[2] + Second
            last  == gap[3] - Second
            More(n) == n = 0 \/ Reached(first, last, n) + Second < last
            Got(n, inserted) == IF inserted THEN Answered(first, last, n) ELSE {}
<1>1. job.kind = "gaps" /\ job.at = "fill" /\ gap \in job.left
  BY DEF FillGap
<1>2. PICK n \in 0 .. MaxClock, inserted \in BOOLEAN :
        /\ candles' = [candles EXCEPT ![gap[1]] = @ \union Got(n, inserted)]
        /\ job' = [job EXCEPT !.left = @ \ {gap}, !.clean = @ /\ inserted /\ ~More(n),
                              !.inserted = @ \/ Got(n, inserted) # {}]
  BY Zenon DEF FillGap
<1>3. job' = GapJob("fill", job.found, job.left \ {gap}, job.inserted \/ Got(n, inserted) # {},
                    job.clean /\ inserted /\ ~More(n), job.known)
  <2>. HIDE DEF More, Got
  <2>. QED
    BY <1>1, <1>2 DEF GapsOK, GapJob
<1>4. /\ gap \in Symbols \X Seconds \X Seconds /\ job.left \subseteq job.found
      /\ job.found \in SUBSET (Symbols \X Seconds \X Seconds) /\ job.known = [s \in Symbols |-> Nothing]
      /\ job.clean \in BOOLEAN /\ (job.clean => \A g \in job.found : g \in job.left \/ Closed(g, candles))
  BY <1>1 DEF GapsOK
<1>5. n \in Nat /\ gap[1] \in Symbols
  BY <1>4
<1>6. Got(n, inserted) \subseteq Seconds
  BY DEF Answered
<1>7. Grows(candles') /\ Got(n, inserted) \subseteq candles'[gap[1]]
  <2>. HIDE DEF Got
  <2>1. candles \in [Symbols -> SUBSET Seconds]
    BY TablesAre
  <2>. QED
    BY <1>2, <1>5, <1>6, <2>1 DEF Grows
<1>8. inserted /\ ~More(n) => Closed(gap, candles')
  BY <1>4, <1>5, <1>7, GapIsClosed
<1>9. (job.clean /\ inserted /\ ~More(n)) \in BOOLEAN
  OBVIOUS
<1>10. job.clean /\ inserted /\ ~More(n) => \A g \in job.found : g \in job.left \ {gap} \/ Closed(g, candles')
  <2>. HIDE DEF More
  <2>1. ASSUME job.clean, NEW g \in job.found, g \notin job.left PROVE Closed(g, candles')
    <3>1. Closed(g, candles) /\ g[1] \in Symbols
      BY <1>4, <2>1
    <3>. QED
      BY <1>7, <3>1, ClosedStays DEF Grows
  <2>. QED
    BY <1>8, <2>1
<1>. HIDE DEF More, Got
<1>11. job.left \ {gap} \subseteq job.found
  BY <1>4
<1>12. GapsOK(GapJob("fill", job.found, job.left \ {gap}, job.inserted \/ Got(n, inserted) # {},
                     job.clean /\ inserted /\ ~More(n), job.known), candles')
  <2>. HIDE DEF More, Got
  <2>. PICK c : c = candles'
    OBVIOUS
  <2>. PICK left, found, known : left = job.left \ {gap} /\ found = job.found /\ known = job.known
    OBVIOUS
  <2>1. /\ found \in SUBSET (Symbols \X Seconds \X Seconds) /\ left \subseteq found
        /\ known = [s \in Symbols |-> Nothing]
    BY <1>4, <1>11
  <2>2. \A got, clean :
          clean \in BOOLEAN /\ (clean => \A g \in found : g \in left \/ Closed(g, c))
            => GapsOK(GapJob("fill", found, left, got, clean, known), c)
    BY <2>1, GapsFilling, Zenon
  <2>. QED
    BY <1>9, <1>10, <2>2
<1>. QED
  BY <1>3, <1>7, <1>12

LEMMA GapsDoneOK ==
  ASSUME GapsOK(job, candles), GapsDone PROVE GapsOK(job', candles)
<1>1. job.at = "fill" /\ job.left = {}
  BY DEF GapsDone
<1>2. /\ job.found \in SUBSET (Symbols \X Seconds \X Seconds) /\ job.known = [s \in Symbols |-> Nothing]
      /\ job.clean \in BOOLEAN /\ (job.clean => \A g \in job.found : Closed(g, candles))
  BY <1>1 DEF GapsOK
<1>3. job' = GapJob("indicators", job.found, Symbols, job.inserted, job.clean, job.known)
      \/ job' = GapJob("done", job.found, job.left, job.inserted, job.clean, job.known)
  BY DEF GapsDone, GapsOK, GapJob
<1>4. GapsOK(GapJob("indicators", job.found, Symbols, job.inserted, job.clean, job.known), candles)
  BY <1>2, GapsIntro
<1>5. GapsOK(GapJob("done", job.found, job.left, job.inserted, job.clean, job.known), candles)
  BY <1>2, GapsIntro
<1>. QED
  BY <1>3, <1>4, <1>5

LEMMA CalculateNowOK ==
  ASSUME ClockOK(now), TablesOK(candles, windows, overtaken, vectors), GapsOK(job, candles), NEW s \in Symbols, CalculateNow(s)
  PROVE  TablesOK(candles, windows', overtaken, vectors) /\ GapsOK(job', candles)
<1>1. job.at = "indicators"
  BY DEF CalculateNow
<1>2. /\ job.found \in SUBSET (Symbols \X Seconds \X Seconds) /\ job.known = [r \in Symbols |-> Nothing]
      /\ job.left \subseteq Symbols
      /\ job.clean \in BOOLEAN /\ (job.clean => \A g \in job.found : Closed(g, candles))
  BY <1>1 DEF GapsOK
<1>3. job' = GapJob("indicators", job.found, job.left \ {s}, job.inserted, job.clean, job.known)
  BY <1>1 DEF CalculateNow, GapsOK, GapJob
<1>4. GapsOK(GapJob("indicators", job.found, job.left \ {s}, job.inserted, job.clean, job.known), candles)
  <2>1. job.left \ {s} \subseteq Symbols
    BY <1>2
  <2>. QED
    BY <1>2, <2>1, GapsIntro
<1>5. windows = [r \in Symbols |-> windows[r]] /\ \A r \in Symbols : WindowOK(windows[r], overtaken[r])
  BY DEF TablesOK
<1>6. CASE windows' = windows
  BY <1>3, <1>4, <1>6
<1>7. CASE windows' # windows
  <2>1. PICK buffer \in Initializations(candles[s], Instant, ZeroRow) :
          windows' = [windows EXCEPT ![s] = Put(@, Instant, buffer)]
    BY <1>7 DEF CalculateNow
  <2>2. Instant \in Nat /\ ZeroRow \in Int /\ ZeroRow <= Instant
    BY ClockIs DEF Instant, ZeroRow
  <2>3. buffer \in Int /\ buffer <= Instant
    BY <2>2, TablesAre, InitializationsAre
  <2>. PICK w : w = windows'
    OBVIOUS
  <2>4. w = [r \in Symbols |-> w[r]] /\ \A r \in Symbols : WindowOK(w[r], overtaken[r])
    BY <1>5, <2>1, <2>2, <2>3, WindowsPut
  <2>5. TablesOK(candles, w, overtaken, vectors)
    BY <2>4 DEF TablesOK
  <2>. QED
    BY <1>3, <1>4, <2>5
<1>. QED
  BY <1>6, <1>7

LEMMA FindVectorsOK ==
  ASSUME TablesOK(candles, windows, overtaken, vectors), GapsOK(job, candles), FindVectors
  PROVE  GapsOK(job', candles)
<1>1. job.at = "indicators"
  BY DEF FindVectors
<1>2. /\ job.found \in SUBSET (Symbols \X Seconds \X Seconds) /\ job.known = [r \in Symbols |-> Nothing]
      /\ job.clean \in BOOLEAN /\ (job.clean => \A g \in job.found : Closed(g, candles))
  BY <1>1 DEF GapsOK
<1>. DEFINE left == UNION {candles[s] : s \in Symbols} \ DOMAIN vectors
<1>3. job' = GapJob("vectors", job.found, left, job.inserted, job.clean, job.known)
  BY <1>1 DEF FindVectors, GapsOK, GapJob
<1>4. left \subseteq Seconds /\ \A t \in left : TakenOK(job.known, t)
  <2>1. \A s \in Symbols : candles[s] \subseteq Seconds
    BY TablesAre
  <2>2. left \subseteq Seconds
    BY <2>1
  <2>3. \A t \in left : t \in Nat
    BY <2>2, SecondsAre
  <2>. QED
    BY <1>2, <2>2, <2>3, NothingKnown
<1>. HIDE DEF left
<1>5. GapsOK(GapJob("vectors", job.found, left, job.inserted, job.clean, job.known), candles)
  BY <1>2, <1>4, GapsIntro
<1>. QED
  BY <1>3, <1>5

LEMMA FillVectorOK ==
  ASSUME TablesOK(candles, windows, overtaken, vectors), GapsOK(job, candles), FillVector
  PROVE  /\ VectorsOK(vectors') /\ GapsOK(job', candles)
         /\ \/ vectors' = vectors
            \/ \E t \in Nat : \E known : TakenOK(known, t) /\ vectors' = Put(vectors, t, Generate(t, known))
<1>1. job.at = "vectors" /\ job.left # {}
  BY DEF FillVector
<1>2. /\ job.found \in SUBSET (Symbols \X Seconds \X Seconds) /\ job.left \subseteq Seconds
      /\ \A t \in job.left : TakenOK(job.known, t)
      /\ job.clean \in BOOLEAN /\ (job.clean => \A g \in job.found : Closed(g, candles))
  BY <1>1 DEF GapsOK
<1>. PICK t : t = Min(job.left)
  OBVIOUS
<1>3. t \in job.left /\ (\A u \in job.left : t <= u) /\ \A u \in job.left : u \in Nat
  <2>1. job.left \subseteq 0 .. MaxTime /\ 0 \in Int /\ MaxTime \in Int
    BY <1>2, SecondsAre, Facts DEF MaxTime, Second
  <2>2. Min(job.left) \in job.left /\ \A u \in job.left : Min(job.left) <= u
    BY <1>1, <2>1, Ends, Zenon
  <2>. QED
    BY <1>2, <2>2, SecondsAre
<1>. PICK made : made = Generate(t, job.known)
  OBVIOUS
<1>4. TakenOK(job.known, t) /\ TakenOK(made, t)
  BY <1>2, <1>3, GenerateIs, TablesAre
<1>5. \/ /\ vectors' = Put(vectors, t, made)
         /\ job' = GapJob("vectors", job.found, job.left \ {t}, job.inserted, job.clean, made)
      \/ /\ vectors' = vectors
         /\ job' = GapJob("vectors", job.found, job.left \ {t}, job.inserted, job.clean, job.known)
  BY <1>1 DEF FillVector, GapsOK, GapJob
<1>6. ASSUME NEW known, TakenOK(known, t)
      PROVE  GapsOK(GapJob("vectors", job.found, job.left \ {t}, job.inserted, job.clean, known), candles)
  <2>1. job.left \ {t} \subseteq Seconds
    BY <1>2
  <2>2. \A u \in job.left \ {t} : TakenOK(known, u)
    BY <1>3, <1>6, TakenLater
  <2>. QED
    BY <1>2, <2>1, <2>2, GapsIntro
<1>7. VectorsOK(vectors) /\ VectorsOK(Put(vectors, t, made))
  BY <1>3, <1>4, PutVectorOK DEF TablesOK
<1>. QED
  BY <1>3, <1>4, <1>5, <1>6, <1>7
-----------------------------------------------------------------------------
(* The recalculation of indicators.                                        *)
LEMMA BeginRecalculationOK ==
  ASSUME ClockOK(now), TablesOK(candles, windows, overtaken, vectors), BeginRecalculation
  PROVE  RecalculationOK(job', candles, windows)
<1>1. PICK from \in Starts :
        Begins([kind |-> "indicators", from |-> from, to |-> Instant,
                existing |-> {r \in Symbols \X Seconds : from <= r[2] /\ r[2] \in Indicated(r[1])},
                cursor |-> from - Second * Period, chunk |-> {}, ready |-> {},
                buffers |-> [s \in Symbols |-> Empty], batch |-> {}, cut |-> {}, clean |-> TRUE])
  BY DEF BeginRecalculation
<1>. PICK existing : existing = {r \in Symbols \X Seconds : from <= r[2] /\ r[2] \in Indicated(r[1])}
  OBVIOUS
<1>. PICK cursor : cursor = from - Second * Period
  OBVIOUS
<1>. PICK j : j = job'
  OBVIOUS
<1>2. j = Recalculation("indicators", from, Instant, existing, cursor, {}, {}, [s \in Symbols |-> Empty], {}, {}, TRUE)
  BY <1>1 DEF Begins, Recalculation
<1>3. /\ j.kind = "indicators" /\ j.from = from /\ j.to = Instant /\ j.existing = existing /\ j.cursor = cursor
      /\ j.chunk = {} /\ j.ready = {} /\ j.buffers = [s \in Symbols |-> Empty] /\ j.batch = {} /\ j.cut = {}
      /\ j.clean = TRUE
  BY <1>2 DEF Recalculation
<1>4. from \in Nat /\ Instant \in Nat /\ cursor \in Int /\ cursor <= from
  BY ClockIs, Facts DEF Instant, Second
<1>5. \A s \in Symbols : \A t \in Seconds : j.buffers[s] <= t
  BY <1>3, SecondsAre DEF Empty, Never
<1>6. j.buffers \in [Symbols -> Int]
  BY <1>3 DEF Empty, Never
<1>7. \A r \in j.existing : r[1] \in Symbols /\ r[2] \in DOMAIN windows[r[1]]
  BY <1>3 DEF Indicated
<1>8. ASSUME NEW s \in Symbols, NEW t \in candles[s], j.from <= t, Behind(j, s, t) PROVE DealtWith(j, s, t, windows)
  <2>1. t < cursor /\ from <= t
    BY <1>3, <1>8 DEF Behind
  <2>2. t \in Nat
    BY TablesAre, SecondsAre
  <2>. QED
    BY <1>4, <2>1, <2>2
<1>9. RecalculationOK(j, candles, windows)
  BY <1>2, <1>3, <1>4, <1>5, <1>6, <1>7, <1>8 DEF RecalculationOK
<1>. QED
  BY <1>9

LEMMA FetchChunkOK ==
  ASSUME TablesOK(candles, windows, overtaken, vectors), RecalculationOK(job, candles, windows), FetchChunk
  PROVE  RecalculationOK(job', candles, windows)
<1>1. PICK chunk \in kSubset(Min({Chunk, Cardinality(Rows)}), Rows) :
        /\ InTimeOrder(chunk)
        /\ job' = [job EXCEPT !.chunk = chunk,
                     !.cut = @ \union {r \in Rows \ chunk : \E q \in chunk : r[2] = q[2]}]
  BY DEF FetchChunk
<1>2. chunk \subseteq Rows
  BY DEF kSubset
<1>3. job.kind = "indicators" /\ job.chunk = {}
  BY DEF FetchChunk
<1>. PICK cut : cut = job.cut \union {r \in Rows \ chunk : \E q \in chunk : r[2] = q[2]}
  OBVIOUS
<1>. PICK j : j = job'
  OBVIOUS
<1>4. j = Recalculation(job.kind, job.from, job.to, job.existing, job.cursor, chunk, job.ready,
                        job.buffers, job.batch, cut, job.clean)
  BY <1>1 DEF RecalculationOK, Recalculation
<1>5. /\ j.kind = job.kind /\ j.from = job.from /\ j.to = job.to /\ j.existing = job.existing
      /\ j.cursor = job.cursor /\ j.chunk = chunk /\ j.ready = job.ready /\ j.buffers = job.buffers
      /\ j.batch = job.batch /\ j.cut = cut /\ j.clean = job.clean
  BY <1>4 DEF Recalculation
<1>6. \A r \in chunk : r \in Symbols \X Seconds /\ r[2] >= job.cursor /\ r[2] \in Nat
  <2>1. \A r \in Rows : r \in Symbols \X Seconds /\ job.cursor <= r[2] /\ r[2] \in Nat
    BY SecondsAre DEF Rows
  <2>2. job.cursor \in Int
    BY DEF RecalculationOK
  <2>. QED
    BY <1>2, <2>1, <2>2
<1>7. ASSUME NEW s \in Symbols, NEW t \in candles[s], job.from <= t, t < job.to, Behind(j, s, t)
      PROVE  DealtWith(j, s, t, windows)
  <2>1. t \in Seconds /\ t \in Nat /\ job.cursor \in Int
    BY TablesAre, SecondsAre DEF RecalculationOK
  <2>2. CASE t < job.cursor
    <3>1. Behind(job, s, t)
      BY <1>3, <2>2 DEF Behind
    <3>2. DealtWith(job, s, t, windows)
      BY <1>7, <3>1 DEF RecalculationOK
    <3>. QED
      BY <1>5, <3>2 DEF DealtWith
  <2>3. CASE ~(t < job.cursor)
    <3>1. job.cursor <= t
      BY <2>1, <2>3
    <3>2. <<s, t>> \in Rows /\ <<s, t>> \notin chunk
      BY <1>5, <1>7, <2>1, <3>1 DEF Rows, Behind
    <3>3. PICK r \in chunk : t <= r[2]
      BY <1>5, <1>7, <2>3 DEF Behind
    <3>4. r[2] <= t
      <4>1. r[2] <= <<s, t>>[2]
        BY <1>1, <3>2 DEF InTimeOrder
      <4>. QED
        BY <4>1
    <3>5. r[2] = t
      BY <1>6, <2>1, <3>3, <3>4
    <3>6. <<s, t>> \in cut
      BY <3>2, <3>5
    <3>. QED
      BY <1>5, <3>6 DEF DealtWith
  <2>. QED
    BY <2>2, <2>3
<1>8. RecalculationOK(j, candles, windows)
  <2>1. chunk \subseteq Symbols \X Seconds
    BY <1>6
  <2>. QED
    BY <1>3, <1>4, <1>5, <1>6, <1>7, <2>1 DEF RecalculationOK
<1>. QED
  BY <1>8

LEMMA WriteBatchIs ==
  ASSUME \A s \in Symbols : WindowOK(windows[s], overtaken[s]), NEW batch, WriteBatch(batch),
         \A b \in batch : b \in Symbols \X Seconds \X Int /\ b[3] <= b[2]
  PROVE  /\ windows' = [s \in Symbols |-> windows'[s]]
         /\ \A s \in Symbols : /\ WindowOK(windows'[s], overtaken[s])
                               /\ DOMAIN windows'[s] = Indicated(s) \union {b[2] : b \in {x \in batch : x[1] = s}}
<1>1. windows' = [s \in Symbols |-> windows'[s]]
  BY DEF WriteBatch
<1>2. ASSUME NEW s \in Symbols
      PROVE  /\ WindowOK(windows'[s], overtaken[s])
             /\ DOMAIN windows'[s] = Indicated(s) \union {b[2] : b \in {x \in batch : x[1] = s}}
  <2>. DEFINE results == {b \in batch : b[1] = s}
  <2>. PICK w : w = windows'[s]
    OBVIOUS
  <2>1. w = [t \in Indicated(s) \union {b[2] : b \in results} |->
               IF \E b \in results : b[2] = t
               THEN (CHOOSE b \in results : b[2] = t)[3] ELSE windows[s][t]]
    BY DEF WriteBatch
  <2>2. \A b \in results : b[2] \in Nat /\ b[3] \in Int /\ b[3] <= b[2]
    BY SecondsAre
  <2>. HIDE DEF results
  <2>3. DOMAIN w = Indicated(s) \union {b[2] : b \in results}
    BY <2>1
  <2>4. ASSUME NEW t \in DOMAIN w PROVE t \in Nat /\ w[t] \in Int /\ (w[t] <= t \/ t \in overtaken[s])
    <3>1. CASE \E b \in results : b[2] = t
      <4>1. PICK b \in results : b[2] = t /\ b = CHOOSE x \in results : x[2] = t
        BY <3>1
      <4>2. w[t] = b[3]
        BY <2>1, <2>3, <2>4, <3>1, <4>1
      <4>. QED
        BY <2>2, <4>1, <4>2
    <3>2. CASE ~\E b \in results : b[2] = t
      <4>1. t \in DOMAIN windows[s]
        BY <2>3, <2>4, <3>2 DEF Indicated
      <4>2. w[t] = windows[s][t]
        BY <2>1, <2>3, <2>4, <3>2
      <4>. QED
        BY <4>1, <4>2 DEF WindowOK
    <3>. QED
      BY <3>1, <3>2
  <2>5. WindowOK(w, overtaken[s])
    BY <2>4 DEF WindowOK
  <2>. QED
    BY <2>3, <2>5 DEF results
<1>. QED
  BY <1>1, <1>2

(* A step of the recalculation, with or without a batch written.           *)
RecalculatedSecond(t, at, filled, batch) ==
  LET buffers == OrElse(filled, job.buffers)
      full    == Cardinality(batch) >= Batch
  IN  /\ batch = job.batch \union
                   {<<s, t, buffers[s]>> : s \in {r \in at : t >= job.from /\ <<r, t>> \notin job.existing}}
      /\ IF full THEN WriteBatch(batch) ELSE UNCHANGED windows
      /\ job' = Recalculation("indicators", job.from, job.to, job.existing, NextCursor(t),
                              {r \in job.chunk : r[2] # t},
                              job.ready \union (IF t < job.from THEN {} ELSE at \ job.ready),
                              [s \in Symbols |-> IF s \in at THEN AddCandle(buffers[s], t) ELSE job.buffers[s]],
                              IF full THEN {} ELSE batch, job.cut, job.clean)

LEMMA RecalculateSecondIs ==
  ASSUME RecalculationOK(job, candles, windows), RecalculateSecond
  PROVE  LET t  == FirstOfChunk
             at == {r[1] : r \in {q \in job.chunk : q[2] = t}}
         IN  \E filled, batch :
               /\ DOMAIN filled \subseteq at
               /\ \A s \in DOMAIN filled : filled[s] \in Initializations(candles[s], t, t)
               /\ RecalculatedSecond(t, at, filled, batch)
<1>. DEFINE t  == FirstOfChunk
            at == {r[1] : r \in {q \in job.chunk : q[2] = t}}
<1>. DEFINE fresh   == IF t < job.from THEN {} ELSE at \ job.ready
            missing == {s \in at : t >= job.from /\ <<s, t>> \notin job.existing}
            B(f) == job.batch \union {<<s, t, OrElse(f, job.buffers)[s]>> : s \in missing}
<1>1. job.kind = "indicators"
  BY DEF RecalculateSecond
<1>2. PICK filled \in [fresh -> UNION {Initializations(candles[s], t, t) : s \in fresh}] :
        /\ \A s \in fresh : filled[s] \in Initializations(candles[s], t, t)
        /\ IF Cardinality(B(filled)) >= Batch THEN WriteBatch(B(filled)) ELSE UNCHANGED windows
        /\ job' = [job EXCEPT
             !.cursor = NextCursor(t),
             !.chunk = {r \in @ : r[2] # t},
             !.ready = @ \union fresh,
             !.batch = IF Cardinality(B(filled)) >= Batch THEN {} ELSE B(filled),
             !.buffers = [s \in Symbols |->
                IF s \in at THEN AddCandle(OrElse(filled, job.buffers)[s], t) ELSE @[s]]]
  BY Zenon DEF RecalculateSecond
<1>3. DOMAIN filled = fresh /\ fresh \subseteq at
  OBVIOUS
<1>4. job' = Recalculation("indicators", job.from, job.to, job.existing, NextCursor(t),
               {r \in job.chunk : r[2] # t}, job.ready \union fresh,
               [s \in Symbols |-> IF s \in at THEN AddCandle(OrElse(filled, job.buffers)[s], t) ELSE job.buffers[s]],
               IF Cardinality(B(filled)) >= Batch THEN {} ELSE B(filled), job.cut, job.clean)
  <2>. HIDE DEF fresh, missing, B
  <2>. QED
    BY <1>1, <1>2 DEF RecalculationOK, Recalculation
<1>5. RecalculatedSecond(t, at, filled, B(filled))
  BY <1>2, <1>4, Zenon DEF RecalculatedSecond
<1>. QED
  BY <1>2, <1>3, <1>5
LEMMA OrElseIs ==
  ASSUME NEW f, NEW g, NEW x, x \in DOMAIN f \union DOMAIN g
  PROVE  OrElse(f, g)[x] = IF x \in DOMAIN f THEN f[x] ELSE g[x]
BY DEF OrElse

(* What a written batch makes of the candles that waited for it.           *)
Among(batch, s, t) == \E b \in batch : b[1] = s /\ b[2] = t

LEMMA RecalculateSecondOK ==
  ASSUME TablesOK(candles, windows, overtaken, vectors), RecalculationOK(job, candles, windows), RecalculateSecond
  PROVE  TablesOK(candles, windows', overtaken, vectors) /\ RecalculationOK(job', candles, windows')
<1>. PICK t, at : t = FirstOfChunk /\ at = {r[1] : r \in {q \in job.chunk : q[2] = FirstOfChunk}}
  OBVIOUS
<1>1. /\ job.kind = "indicators" /\ job.chunk # {} /\ job.chunk \subseteq Symbols \X Seconds
      /\ \A r \in job.chunk : r[2] >= job.cursor
      /\ job.buffers \in [Symbols -> Int] /\ job.from \in Nat /\ job.to \in Nat /\ job.cursor \in Int
      /\ \A s \in Symbols : \A u \in Seconds : u >= job.cursor => job.buffers[s] <= u
      /\ \A b \in job.batch : b \in Symbols \X Seconds \X Int /\ b[3] <= b[2]
      /\ \A r \in job.existing : r[1] \in Symbols /\ r[2] \in Indicated(r[1])
  BY DEF RecalculateSecond, RecalculationOK, Indicated
<1>2. PICK filled, batch : /\ DOMAIN filled \subseteq at
                           /\ \A s \in DOMAIN filled : filled[s] \in Initializations(candles[s], t, t)
                           /\ RecalculatedSecond(t, at, filled, batch)
  BY RecalculateSecondIs
<1>3. /\ t \in Seconds /\ t \in Nat /\ t \in Even /\ t >= job.cursor
      /\ \A r \in job.chunk : t <= r[2] /\ r[2] \in Seconds
      /\ at \subseteq Symbols /\ \A s \in Symbols : s \in at <=> <<s, t>> \in job.chunk
  <2>. DEFINE times == {r[2] : r \in job.chunk}
  <2>1. \A r \in job.chunk : r[2] \in Seconds /\ r[2] \in Nat /\ r[2] <= MaxTime
    BY <1>1, SecondsAre
  <2>2. times \subseteq 0 .. MaxTime /\ times # {}
    BY <1>1, <2>1, Facts DEF MaxTime, Second
  <2>3. 0 \in Int /\ MaxTime \in Int
    BY Facts DEF MaxTime, Second
  <2>4. Min(times) \in times /\ \A u \in times : Min(times) <= u
    <3>. HIDE DEF times
    <3>. QED
      BY <2>2, <2>3, Ends, Zenon
  <2>5. t = Min(times)
    BY DEF FirstOfChunk
  <2>6. t \in times /\ \A r \in job.chunk : t <= r[2]
    BY <2>4, <2>5
  <2>7. t \in Seconds /\ t >= job.cursor
    BY <1>1, <2>1, <2>6
  <2>8. \A s \in Symbols : s \in at <=> <<s, t>> \in job.chunk
    BY <1>1
  <2>9. at \subseteq Symbols
    BY <1>1
  <2>. QED
    BY <2>1, <2>6, <2>7, <2>8, <2>9, SecondsAre
<1>. PICK buffers : buffers = OrElse(filled, job.buffers)
  OBVIOUS
<1>4. \A s \in at : buffers[s] \in Int /\ buffers[s] <= t
  <2>. TAKE s \in at
  <2>1. s \in Symbols /\ DOMAIN job.buffers = Symbols /\ candles[s] \in SUBSET Seconds
    BY <1>1, <1>3, TablesAre
  <2>2. buffers[s] = IF s \in DOMAIN filled THEN filled[s] ELSE job.buffers[s]
    BY <2>1, OrElseIs
  <2>3. CASE s \in DOMAIN filled
    <3>1. filled[s] \in Initializations(candles[s], t, t) /\ t \in Int /\ t <= t
      BY <1>2, <1>3, <2>3
    <3>. QED
      BY <1>3, <2>1, <2>2, <2>3, <3>1, InitializationsAre
  <2>4. CASE s \notin DOMAIN filled
    BY <1>1, <1>3, <2>1, <2>2, <2>4
  <2>. QED
    BY <2>3, <2>4
<1>. PICK missing : missing = {s \in at : t >= job.from /\ <<s, t>> \notin job.existing}
  OBVIOUS
<1>. PICK full : full = (Cardinality(batch) >= Batch)
  OBVIOUS
<1>. PICK now_ : now_ = [s \in Symbols |-> IF s \in at THEN AddCandle(buffers[s], t) ELSE job.buffers[s]]
  OBVIOUS
<1>. PICK ready : ready = job.ready \union (IF t < job.from THEN {} ELSE at \ job.ready)
  OBVIOUS
<1>. PICK chunk : chunk = {r \in job.chunk : r[2] # t}
  OBVIOUS
<1>. PICK rest : rest = IF full THEN {} ELSE batch
  OBVIOUS
<1>5. /\ batch = job.batch \union {<<s, t, buffers[s]>> : s \in missing}
      /\ (full => WriteBatch(batch)) /\ (~full => windows' = windows)
      /\ job' = Recalculation("indicators", job.from, job.to, job.existing, t + 2, chunk, ready, now_, rest,
                              job.cut, job.clean)
  <2>1. RecalculatedSecond(t, at, filled, batch)
    BY <1>2
  <2>. QED
    BY <2>1 DEF RecalculatedSecond, NextCursor, Second
<1>6. \A b \in batch : b \in Symbols \X Seconds \X Int /\ b[3] <= b[2]
  <2>1. ASSUME NEW s \in missing
        PROVE  <<s, t, buffers[s]>> \in Symbols \X Seconds \X Int /\ buffers[s] <= t
    BY <1>3, <1>4
  <2>2. \A b \in batch : b \in job.batch \/ \E s \in missing : b = <<s, t, buffers[s]>>
    BY <1>5
  <2>3. ASSUME NEW b \in batch PROVE b \in Symbols \X Seconds \X Int /\ b[3] <= b[2]
    <3>1. CASE b \in job.batch
      BY <1>1, <3>1
    <3>2. ASSUME NEW s \in missing, b = <<s, t, buffers[s]>>
          PROVE  b \in Symbols \X Seconds \X Int /\ b[3] <= b[2]
      BY <2>1, <3>2
    <3>. QED
      BY <2>2, <3>1, <3>2
  <2>. QED
    BY <2>3
<1>7. \A s \in missing : Among(batch, s, t)
  <2>. TAKE s \in missing
  <2>1. <<s, t, buffers[s]>> \in batch
    BY <1>5
  <2>. QED
    BY <2>1 DEF Among
<1>8. windows = [s \in Symbols |-> windows[s]] /\ \A s \in Symbols : WindowOK(windows[s], overtaken[s])
  BY DEF TablesOK
<1>9. /\ windows' = [s \in Symbols |-> windows'[s]]
      /\ \A s \in Symbols : /\ WindowOK(windows'[s], overtaken[s]) /\ Indicated(s) \subseteq DOMAIN windows'[s]
                            /\ \A u : Among(batch, s, u) => u \in DOMAIN windows'[s] \/ Among(rest, s, u)
  <2>1. CASE full
    <3>1. WriteBatch(batch)
      BY <1>5, <2>1
    <3>2. /\ windows' = [s \in Symbols |-> windows'[s]]
          /\ \A s \in Symbols : /\ WindowOK(windows'[s], overtaken[s])
                                /\ DOMAIN windows'[s] = Indicated(s) \union {b[2] : b \in {x \in batch : x[1] = s}}
      BY <1>6, <1>8, <3>1, WriteBatchIs
    <3>3. ASSUME NEW s \in Symbols, NEW u, Among(batch, s, u) PROVE u \in DOMAIN windows'[s]
      BY <3>2, <3>3 DEF Among
    <3>. QED
      BY <3>2, <3>3
  <2>2. CASE ~full
    <3>1. windows' = windows /\ rest = batch
      BY <1>5, <2>2
    <3>. QED
      BY <1>8, <3>1 DEF Indicated
  <2>. QED
    BY <2>1, <2>2
<1>10. TablesOK(candles, windows', overtaken, vectors)
  BY <1>9 DEF TablesOK
<1>. PICK j : j = job'
  OBVIOUS
<1>11. j = Recalculation("indicators", job.from, job.to, job.existing, t + 2, chunk, ready, now_, rest,
                         job.cut, job.clean)
  BY <1>5
<1>12. /\ j.kind = "indicators" /\ j.from = job.from /\ j.to = job.to /\ j.existing = job.existing
       /\ j.cursor = t + 2 /\ j.chunk = chunk /\ j.ready = ready /\ j.buffers = now_
       /\ j.batch = rest /\ j.cut = job.cut /\ j.clean = job.clean
  BY <1>11 DEF Recalculation
<1>13. now_ \in [Symbols -> Int] /\ \A s \in Symbols : \A u \in Seconds : u >= t + 2 => now_[s] <= u
  <2>1. ASSUME NEW s \in at PROVE AddCandle(buffers[s], t) = t
    <3>1. buffers[s] \in Int /\ t \in Int /\ buffers[s] <= t
      BY <1>3, <1>4
    <3>. QED
      BY <3>1, AddCandleIs
  <2>2. \A s \in Symbols : now_[s] = IF s \in at THEN t ELSE job.buffers[s]
    BY <2>1
  <2>3. now_ \in [Symbols -> Int]
    BY <1>1, <1>3, <2>1
  <2>4. ASSUME NEW s \in Symbols, NEW u \in Seconds, u >= t + 2 PROVE now_[s] <= u
    <3>1. u \in Nat /\ u >= t /\ u >= job.cursor
      BY <1>1, <1>3, <2>4, SecondsAre
    <3>. QED
      BY <1>1, <1>3, <2>2, <3>1
  <2>. QED
    BY <2>3, <2>4
<1>14. chunk \subseteq Symbols \X Seconds /\ \A r \in chunk : r[2] >= t + 2
  <2>1. ASSUME NEW r \in chunk PROVE r[2] >= t + 2
    <3>1. r[2] \in Even /\ r[2] \in Nat /\ t < r[2]
      BY <1>3, SecondsAre
    <3>. QED
      BY <1>3, <3>1, SecondsAre
  <2>. QED
    BY <1>1, <2>1
<1>15. ASSUME NEW s \in Symbols, NEW u \in candles[s], job.from <= u, u < job.to, Behind(j, s, u)
       PROVE  DealtWith(j, s, u, windows')
  <2>1. u \in Seconds /\ u \in Nat /\ u \in Even
    BY TablesAre, SecondsAre
  <2>2. CASE <<s, u>> \in job.chunk
    <3>1. u = t /\ s \in at
      BY <1>3, <1>12, <1>15, <2>2 DEF Behind
    <3>2. CASE s \in missing
      <4>1. Among(batch, s, u)
        BY <1>7, <3>1, <3>2
      <4>2. u \in DOMAIN windows'[s] \/ Among(rest, s, u)
        BY <1>9, <4>1
      <4>. QED
        BY <1>12, <4>2 DEF DealtWith, Among
    <3>3. CASE s \notin missing
      <4>1. <<s, t>> \in job.existing
        BY <1>1, <1>3, <1>15, <3>1, <3>3
      <4>2. t \in Indicated(s)
        BY <1>1, <4>1
      <4>. QED
        BY <1>9, <3>1, <4>2 DEF DealtWith
    <3>. QED
      BY <3>2, <3>3
  <2>3. CASE <<s, u>> \notin job.chunk
    <3>1. u < job.cursor \/ \E r \in job.chunk : u <= r[2]
      <4>1. CASE u < t + 2
        <5>1. u <= t
          BY <1>3, <2>1, <4>1, SecondsAre
        <5>2. PICK r \in job.chunk : TRUE
          BY <1>1
        <5>3. r[2] \in Nat /\ t <= r[2]
          BY <1>3, <5>2, SecondsAre
        <5>4. u <= r[2]
          BY <1>3, <2>1, <5>1, <5>3
        <5>. QED
          BY <5>4
      <4>2. CASE ~(u < t + 2)
        BY <1>12, <1>15, <4>2 DEF Behind
      <4>. QED
        BY <4>1, <4>2
    <3>2. DealtWith(job, s, u, windows)
      BY <1>15, <2>3, <3>1 DEF RecalculationOK, Behind
    <3>3. u \in Indicated(s) \/ <<s, u>> \in job.cut \/ Among(batch, s, u)
      BY <1>5, <3>2 DEF DealtWith, Among, Indicated
    <3>4. u \in DOMAIN windows'[s] \/ <<s, u>> \in job.cut \/ Among(rest, s, u)
      BY <1>9, <3>3
    <3>. QED
      BY <1>12, <3>4 DEF DealtWith, Among
  <2>. QED
    BY <2>2, <2>3
<1>16. \A b \in rest : b \in Symbols \X Seconds \X Int /\ b[3] <= b[2]
  BY <1>6
<1>17. \A r \in j.existing : r[1] \in Symbols /\ r[2] \in DOMAIN windows'[r[1]]
  BY <1>1, <1>9, <1>12
<1>18. RecalculationOK(j, candles, windows')
  <2>1. t + 2 \in Int
    BY <1>3
  <2>2. j = Recalculation(j.kind, j.from, j.to, j.existing, j.cursor, j.chunk, j.ready, j.buffers,
                          j.batch, j.cut, j.clean)
    BY <1>11, <1>12
  <2>3. /\ j.kind \in {"indicators", "recalculated"} /\ j.kind # "recalculated"
        /\ j.from \in Nat /\ j.to \in Nat /\ j.cursor \in Int
        /\ j.chunk \subseteq Symbols \X Seconds /\ \A r \in j.chunk : r[2] >= j.cursor
    BY <1>1, <1>12, <1>14, <2>1
  <2>4. /\ j.buffers \in [Symbols -> Int]
        /\ \A s \in Symbols : \A u \in Seconds : u >= j.cursor => j.buffers[s] <= u
        /\ \A b \in j.batch : b \in Symbols \X Seconds \X Int /\ b[3] <= b[2]
    BY <1>12, <1>13, <1>16
  <2>5. \A s \in Symbols : \A u \in candles[s] :
          j.from <= u /\ u < j.to /\ (j.kind = "recalculated" \/ Behind(j, s, u)) => DealtWith(j, s, u, windows')
    BY <1>12, <1>15, <2>3
  <2>6. \A r \in j.existing : r[1] \in Symbols /\ r[2] \in DOMAIN windows'[r[1]]
    BY <1>17
  <2>. QED
    BY <2>2, <2>3, <2>4, <2>5, <2>6, Zenon DEF RecalculationOK
<1>. QED
  BY <1>10, <1>18

LEMMA FinishRecalculationOK ==
  ASSUME TablesOK(candles, windows, overtaken, vectors), RecalculationOK(job, candles, windows), FinishRecalculation
  PROVE  TablesOK(candles, windows', overtaken, vectors) /\ RecalculationOK(job', candles, windows')
<1>1. /\ job.kind = "indicators" /\ job.chunk = {} /\ (job.cursor >= job.to \/ Rows = {})
      /\ WriteBatch(job.batch)
      /\ job' = [job EXCEPT !.kind = "recalculated", !.batch = {}]
  BY DEF FinishRecalculation
<1>2. /\ \A b \in job.batch : b \in Symbols \X Seconds \X Int /\ b[3] <= b[2]
      /\ job.to \in Nat /\ job.cursor \in Int
  BY DEF RecalculationOK
<1>3. windows = [s \in Symbols |-> windows[s]] /\ \A s \in Symbols : WindowOK(windows[s], overtaken[s])
  BY DEF TablesOK
<1>4. /\ windows' = [s \in Symbols |-> windows'[s]]
      /\ \A s \in Symbols : /\ WindowOK(windows'[s], overtaken[s])
                            /\ DOMAIN windows'[s] = Indicated(s) \union {b[2] : b \in {x \in job.batch : x[1] = s}}
  BY <1>1, <1>2, <1>3, WriteBatchIs
<1>5. TablesOK(candles, windows', overtaken, vectors)
  BY <1>4 DEF TablesOK
<1>. PICK j : j = job'
  OBVIOUS
<1>6. j = Recalculation("recalculated", job.from, job.to, job.existing, job.cursor, job.chunk, job.ready,
                        job.buffers, {}, job.cut, job.clean)
  BY <1>1 DEF RecalculationOK, Recalculation
<1>7. /\ j.kind = "recalculated" /\ j.from = job.from /\ j.to = job.to /\ j.existing = job.existing
      /\ j.cursor = job.cursor /\ j.chunk = job.chunk /\ j.ready = job.ready /\ j.buffers = job.buffers
      /\ j.batch = {} /\ j.cut = job.cut /\ j.clean = job.clean
  BY <1>6 DEF Recalculation
<1>8. ASSUME NEW s \in Symbols, NEW t \in candles[s], job.from <= t, t < job.to
      PROVE  DealtWith(j, s, t, windows')
  <2>1. t \in Seconds /\ t \in Nat
    BY TablesAre, SecondsAre
  <2>2. t < job.cursor
    <3>1. CASE job.cursor >= job.to
      BY <1>2, <1>8, <2>1, <3>1
    <3>2. CASE Rows = {}
      <4>1. <<s, t>> \notin Rows
        BY <3>2
      <4>2. ~(job.cursor <= t)
        BY <1>8, <2>1, <4>1 DEF Rows
      <4>. QED
        BY <1>2, <2>1, <4>2
    <3>. QED
      BY <1>1, <3>1, <3>2
  <2>3. Behind(job, s, t)
    BY <1>1, <2>2 DEF Behind
  <2>4. DealtWith(job, s, t, windows)
    BY <1>8, <2>3 DEF RecalculationOK
  <2>5. t \in DOMAIN windows'[s] \/ <<s, t>> \in job.cut
    BY <1>4, <2>4 DEF DealtWith, Indicated
  <2>. QED
    BY <1>7, <2>5 DEF DealtWith
<1>9. \A r \in j.existing : r[1] \in Symbols /\ r[2] \in DOMAIN windows'[r[1]]
  BY <1>4, <1>7 DEF RecalculationOK, Indicated
<1>10. RecalculationOK(j, candles, windows')
  <2>1. /\ job.from \in Nat /\ job.chunk \subseteq Symbols \X Seconds /\ \A r \in job.chunk : r[2] >= job.cursor
        /\ job.buffers \in [Symbols -> Int]
        /\ \A s \in Symbols : \A u \in Seconds : u >= job.cursor => job.buffers[s] <= u
    BY DEF RecalculationOK
  <2>. QED
    BY <1>2, <1>6, <1>7, <1>8, <1>9, <2>1 DEF RecalculationOK
<1>. QED
  BY <1>5, <1>10
-----------------------------------------------------------------------------
(* The recalculation of vectors.                                           *)
LEMMA VectorsOfIs ==
  ASSUME candles \in [Symbols -> SUBSET Seconds], \A s \in Symbols : Indicated(s) \subseteq Nat,
         NEW start \in Nat, NEW end \in Nat
  PROVE  /\ VectorsOK(VectorsOf(start, end))
         /\ \A s \in Symbols : \A t \in Indicated(s) :
              start <= t /\ t < end => t \in DOMAIN VectorsOf(start, end)
<1>. DEFINE In(times)  == {t \in times : start <= t /\ t < end}
            C(s)       == In(candles[s])
            I(s)       == In(Indicated(s))
            all        == UNION {C(s) \union I(s) : s \in Symbols}
            Absent(s, t) == t \notin C(s) \union I(s)
            Ind(s, t)  == IF t \in I(s) THEN t
                          ELSE IF Absent(s, t) THEN LatestBefore(Indicated(s), start) ELSE Never
            Close(s, t) == IF t \in C(s) THEN t
                           ELSE IF Absent(s, t) THEN LatestBefore(candles[s], start) ELSE Never
            made == [t \in {u \in all : \E s \in Symbols : Ind(s, u) # Never} |->
                       [s \in Symbols |-> [close |-> Close(s, t), values |-> Ind(s, t)]]]
<1>1. VectorsOf(start, end) = IF \A s \in Symbols : I(s) = {} THEN <<>> ELSE made
  BY DEF VectorsOf
<1>2. \A s \in Symbols : candles[s] \subseteq Nat /\ Indicated(s) \subseteq Nat
  BY SecondsAre
<1>3. \A s \in Symbols : /\ LatestBefore(candles[s], start) \in Int /\ LatestBefore(candles[s], start) <= start
                         /\ LatestBefore(Indicated(s), start) \in Int /\ LatestBefore(Indicated(s), start) <= start
  BY <1>2, LatestBeforeIs
<1>4. \A t \in all : t \in Nat /\ start <= t /\ t < end
  BY <1>2
<1>5. Never \in Int /\ Never < 0
  BY DEF Never
<1>6. ASSUME NEW s \in Symbols, NEW t \in all
      PROVE  Ind(s, t) \in Int /\ Ind(s, t) <= t /\ Close(s, t) \in Int /\ Close(s, t) <= t
  <2>1. t \in Nat /\ start <= t
    BY <1>4
  <2>. QED
    BY <1>3, <1>5, <2>1
<1>7. \A s \in Symbols : \A t \in I(s) : t \in all /\ Ind(s, t) = t /\ t # Never
  <2>. TAKE s \in Symbols
  <2>. TAKE t \in I(s)
  <2>1. t \in Nat
    BY <1>2
  <2>2. t \in all
    OBVIOUS
  <2>. QED
    BY <1>5, <2>1, <2>2
<1>8. DOMAIN made = {u \in all : \E s \in Symbols : Ind(s, u) # Never}
  OBVIOUS
<1>9. \A t \in DOMAIN made : made[t] = [s \in Symbols |-> [close |-> Close(s, t), values |-> Ind(s, t)]]
  OBVIOUS
<1>10. ASSUME NEW s \in Symbols, NEW t \in Indicated(s), start <= t, t < end PROVE t \in I(s)
  BY <1>10
<1>11. VectorsOK(made)
  <2>. HIDE DEF made, Close, Ind, all
  <2>1. \A t \in DOMAIN made : t \in all
    BY <1>8
  <2>2. ASSUME NEW t \in DOMAIN made PROVE TakenOK(made[t], t)
    <3>. SUFFICES ASSUME NEW s \in Symbols
                  PROVE  /\ made[t][s].close \in Int /\ made[t][s].close <= t
                         /\ made[t][s].values \in Int /\ made[t][s].values <= t
      BY DEF TakenOK
    <3>1. made[t][s].close = Close(s, t) /\ made[t][s].values = Ind(s, t)
      BY <1>9
    <3>2. Ind(s, t) \in Int /\ Ind(s, t) <= t /\ Close(s, t) \in Int /\ Close(s, t) <= t
      BY <1>6, <2>1
    <3>. QED
      BY <3>1, <3>2
  <2>. QED
    BY <1>4, <2>1, <2>2 DEF VectorsOK
<1>12. \A s \in Symbols : \A t \in I(s) : t \in DOMAIN made
  <2>. HIDE DEF made, Ind, all
  <2>. QED
    BY <1>7, <1>8
<1>13. VectorsOK(<<>>)
  BY DEF VectorsOK
<1>. HIDE DEF I, made
<1>. QED
  BY <1>1, <1>10, <1>11, <1>12, <1>13

LEMMA VectorJobIntro ==
  ASSUME NEW from \in Nat, NEW to \in Nat, NEW cursor \in Nat, NEW made, VectorsOK(made),
         NEW clean \in BOOLEAN, NEW w, NEW v,
         clean => \A s \in Symbols : \A t \in DOMAIN w[s] :
           /\ from <= t /\ t < cursor /\ t < to => t \in DOMAIN v
           /\ made # <<>> /\ from <= t /\ cursor <= t /\ t < cursor + Hour /\ t < to => t \in DOMAIN made
  PROVE  VectorJobOK(VectorJob(from, to, cursor, made, clean), w, v)
<1>. PICK j : j = VectorJob(from, to, cursor, made, clean)
  OBVIOUS
<1>1. /\ j.kind = "vectors" /\ j.from = from /\ j.to = to /\ j.cursor = cursor /\ j.made = made
      /\ j.clean = clean
  BY DEF VectorJob
<1>2. j = VectorJob(j.from, j.to, j.cursor, j.made, j.clean)
  BY <1>1
<1>. QED
  BY <1>1, <1>2 DEF VectorJobOK

LEMMA BeginVectorsOK ==
  ASSUME ClockOK(now), TablesOK(candles, windows, overtaken, vectors), JobOK(job, candles, windows, vectors), BeginVectors
  PROVE  VectorJobOK(job', windows, vectors)
<1>1. \E from, to \in Nat : job' = VectorJob(from, to, from, <<>>, TRUE)
  <2>1. CASE \E from \in Starts : job' = Vectors(from, Instant)
    BY <2>1, Facts, ClockIs DEF Vectors, VectorJob, Instant
  <2>2. CASE job.kind = "recalculated" /\ job' = Vectors(job.from, job.to)
    <3>1. RecalculationOK(job, candles, windows)
      BY <2>2, Kinds
    <3>2. job.from \in Nat /\ job.to \in Nat
      BY <3>1 DEF RecalculationOK
    <3>. QED
      BY <2>2, <3>2 DEF Vectors, VectorJob
  <2>. QED
    BY <2>1, <2>2 DEF BeginVectors, Begins
<1>2. PICK from \in Nat, to \in Nat : job' = VectorJob(from, to, from, <<>>, TRUE)
  BY <1>1
<1>3. VectorsOK(<<>>)
  BY DEF VectorsOK
<1>4. \A s \in Symbols : \A t \in DOMAIN windows[s] : t \in Nat
  BY TablesAre DEF Indicated
<1>5. VectorJobOK(VectorJob(from, to, from, <<>>, TRUE), windows, vectors)
  <2>1. \A s \in Symbols : \A t \in DOMAIN windows[s] : ~(from <= t /\ t < from)
    BY <1>4
  <2>. QED
    BY <1>3, <2>1, VectorJobIntro
<1>. QED
  BY <1>2, <1>5

LEMMA LoadVectorsOK ==
  ASSUME TablesOK(candles, windows, overtaken, vectors), VectorJobOK(job, windows, vectors), LoadVectors
  PROVE  VectorJobOK(job', windows, vectors)
<1>1. /\ job = VectorJob(job.from, job.to, job.cursor, job.made, job.clean)
      /\ job.from \in Nat /\ job.to \in Nat /\ job.cursor \in Nat /\ job.clean \in BOOLEAN
      /\ job.made = <<>> /\ job.cursor < job.to
  BY DEF VectorJobOK, LoadVectors
<1>. PICK end : end = EndOfBatch
  OBVIOUS
<1>2. end \in Nat /\ end = IF job.cursor + Hour <= job.to THEN job.cursor + Hour ELSE job.to
  BY <1>1, Facts, MinOfTwo DEF EndOfBatch
<1>. PICK made : made = VectorsOf(job.cursor, end)
  OBVIOUS
<1>3. /\ VectorsOK(made)
      /\ \A s \in Symbols : \A t \in DOMAIN windows[s] : job.cursor <= t /\ t < end => t \in DOMAIN made
  BY <1>1, <1>2, VectorsOfIs, TablesAre DEF Indicated
<1>4. \/ made = <<>> /\ job' = VectorJob(job.from, job.to, end, <<>>, job.clean)
      \/ made # <<>> /\ job' = VectorJob(job.from, job.to, job.cursor, made, job.clean)
  <2>1. job' = IF made = <<>> THEN [job EXCEPT !.cursor = end] ELSE [job EXCEPT !.made = made]
    BY DEF LoadVectors, NextBatch
  <2>. QED
    BY <1>1, <2>1 DEF VectorJob
<1>5. \A s \in Symbols : \A t \in DOMAIN windows[s] : t \in Nat
  BY TablesAre DEF Indicated
<1>6. job.clean => \A s \in Symbols : \A t \in DOMAIN windows[s] :
                     job.from <= t /\ t < job.cursor /\ t < job.to => t \in DOMAIN vectors
  BY DEF VectorJobOK
<1>7. CASE made = <<>> /\ job' = VectorJob(job.from, job.to, end, <<>>, job.clean)
  <2>1. \A s \in Symbols : \A t \in DOMAIN windows[s] : ~(job.cursor <= t /\ t < end)
    BY <1>3, <1>7
  <2>2. job.clean => \A s \in Symbols : \A t \in DOMAIN windows[s] :
                       job.from <= t /\ t < end /\ t < job.to => t \in DOMAIN vectors
    BY <1>1, <1>2, <1>5, <1>6, <2>1
  <2>3. VectorsOK(<<>>)
    BY <1>3, <1>7
  <2>4. VectorJobOK(VectorJob(job.from, job.to, end, <<>>, job.clean), windows, vectors)
    BY <1>1, <1>2, <2>2, <2>3, VectorJobIntro
  <2>. QED
    BY <1>7, <2>4
<1>8. CASE job' = VectorJob(job.from, job.to, job.cursor, made, job.clean)
  <2>1. \A s \in Symbols : \A t \in DOMAIN windows[s] :
          job.cursor <= t /\ t < job.cursor + Hour /\ t < job.to => t \in DOMAIN made
    BY <1>1, <1>2, <1>3, <1>5, Facts
  <2>2. VectorJobOK(VectorJob(job.from, job.to, job.cursor, made, job.clean), windows, vectors)
    BY <1>1, <1>3, <1>6, <2>1, VectorJobIntro
  <2>. QED
    BY <1>8, <2>2
<1>. QED
  BY <1>4, <1>7, <1>8

LEMMA OrElseDomain ==
  ASSUME NEW f, NEW g PROVE DOMAIN OrElse(f, g) = DOMAIN f \union DOMAIN g
BY DEF OrElse

LEMMA InsertVectorsOK ==
  ASSUME TablesOK(candles, windows, overtaken, vectors), VectorJobOK(job, windows, vectors), InsertVectors
  PROVE  VectorsOK(vectors') /\ VectorJobOK(job', windows, vectors')
<1>1. /\ job = VectorJob(job.from, job.to, job.cursor, job.made, job.clean)
      /\ job.from \in Nat /\ job.to \in Nat /\ job.cursor \in Nat /\ job.clean \in BOOLEAN
      /\ job.made # <<>> /\ VectorsOK(job.made) /\ VectorsOK(vectors)
      /\ vectors' = OrElse(vectors, job.made)
  BY DEF VectorJobOK, InsertVectors, TablesOK
<1>. PICK end : end = EndOfBatch
  OBVIOUS
<1>2. end \in Nat /\ end = IF job.cursor + Hour <= job.to THEN job.cursor + Hour ELSE job.to
  BY <1>1, Facts, MinOfTwo DEF EndOfBatch
<1>3. job' = VectorJob(job.from, job.to, end, <<>>, job.clean)
  <2>1. job' = [job EXCEPT !.made = <<>>, !.cursor = end]
    BY DEF InsertVectors, NextBatch
  <2>2. job = VectorJob(job.from, job.to, job.cursor, job.made, job.clean)
    BY <1>1
  <2>3. [job EXCEPT !.made = <<>>] = VectorJob(job.from, job.to, job.cursor, <<>>, job.clean)
    BY <2>2 DEF VectorJob
  <2>4. [VectorJob(job.from, job.to, job.cursor, <<>>, job.clean) EXCEPT !.cursor = end]
          = VectorJob(job.from, job.to, end, <<>>, job.clean)
    BY DEF VectorJob
  <2>5. [job EXCEPT !.made = <<>>, !.cursor = end] = [[job EXCEPT !.made = <<>>] EXCEPT !.cursor = end]
    OBVIOUS
  <2>. QED
    BY <2>1, <2>3, <2>4, <2>5
<1>4. DOMAIN vectors' = DOMAIN vectors \union DOMAIN job.made
  BY <1>1, OrElseDomain
<1>5. VectorsOK(vectors')
  <2>1. \A t \in DOMAIN vectors' : vectors'[t] = IF t \in DOMAIN vectors THEN vectors[t] ELSE job.made[t]
    BY <1>1, <1>4, OrElseIs
  <2>2. DOMAIN vectors' \subseteq Nat
    BY <1>1, <1>4 DEF VectorsOK
  <2>3. ASSUME NEW t \in DOMAIN vectors' PROVE TakenOK(vectors'[t], t)
    <3>1. CASE t \in DOMAIN vectors
      BY <1>1, <2>1, <3>1 DEF VectorsOK
    <3>2. CASE t \notin DOMAIN vectors
      <4>1. t \in DOMAIN job.made
        BY <1>4, <3>2
      <4>. QED
        BY <1>1, <2>1, <3>2, <4>1 DEF VectorsOK
    <3>. QED
      BY <3>1, <3>2
  <2>. QED
    BY <2>2, <2>3 DEF VectorsOK
<1>6. \A s \in Symbols : \A t \in DOMAIN windows[s] : t \in Nat
  BY TablesAre DEF Indicated
<1>7. job.clean => \A s \in Symbols : \A t \in DOMAIN windows[s] :
        /\ job.from <= t /\ t < job.cursor /\ t < job.to => t \in DOMAIN vectors
        /\ job.from <= t /\ job.cursor <= t /\ t < job.cursor + Hour /\ t < job.to => t \in DOMAIN job.made
  BY <1>1 DEF VectorJobOK
<1>8. job.clean => \A s \in Symbols : \A t \in DOMAIN windows[s] :
        job.from <= t /\ t < end /\ t < job.to => t \in DOMAIN vectors'
  <2>. SUFFICES ASSUME job.clean, NEW s \in Symbols, NEW t \in DOMAIN windows[s],
                       job.from <= t, t < end, t < job.to
                PROVE  t \in DOMAIN vectors'
    OBVIOUS
  <2>1. t \in Nat
    BY <1>6
  <2>2. CASE t < job.cursor
    BY <1>4, <1>7, <2>2
  <2>3. CASE ~(t < job.cursor)
    <3>1. job.cursor <= t /\ t < job.cursor + Hour
      BY <1>1, <1>2, <2>1, <2>3, Facts
    <3>. QED
      BY <1>4, <1>7, <3>1
  <2>. QED
    BY <2>2, <2>3
<1>9. VectorsOK(<<>>)
  BY DEF VectorsOK
<1>10. VectorJobOK(VectorJob(job.from, job.to, end, <<>>, job.clean), windows, vectors')
  BY <1>1, <1>2, <1>8, <1>9, VectorJobIntro
<1>. QED
  BY <1>3, <1>5, <1>10

-----------------------------------------------------------------------------
(* Every step keeps the invariant.                                         *)
Kept == /\ ClockOK(now') /\ TablesOK(candles', windows', overtaken', vectors')
        /\ PipelineOK(live', now') /\ JobOK(job', candles', windows', vectors')

LEMMA ClockAdvancesKept == ASSUME IInv, ClockAdvances PROVE Kept
<1>1. ClockOK(now) /\ PipelineOK(live, now) /\ now \in Nat /\ now \in Even /\ now' = now + 2 /\ now < MaxTime
  BY ClockIs DEF IInv, ClockAdvances, Second
<1>2. MaxTime \in Even
  <2>1. MaxTime \in Nat /\ MaxTime = 2 * MaxClock /\ MaxClock \in Int
    BY Facts DEF MaxTime, Second
  <2>. QED
    BY <2>1, TwoKinds DEF Even
<1>3. ClockOK(now')
  <2>1. now + 2 \in Even /\ now + 2 <= MaxTime
    BY <1>1, <1>2, SecondsAre
  <2>. QED
    BY <1>1, <2>1 DEF ClockOK
<1>4. PipelineOK(live, now')
  <2>1. now' \in Nat /\ now <= now'
    BY <1>1
  <2>. QED
    BY <1>1, <2>1, PipelineLater
<1>. QED
  BY <1>3, <1>4 DEF IInv, ClockAdvances, Kept, tables

LEMMA TablesIntro ==
  ASSUME NEW c \in [Symbols -> SUBSET Seconds], TablesOK(candles, windows, overtaken, vectors)
  PROVE  TablesOK(c, windows, overtaken, vectors)
BY DEF TablesOK

LEMMA GenerateVectorKept == ASSUME IInv, GenerateVector PROVE Kept
<1>1. PipelineOK(live', now) /\ VectorsOK(vectors') /\ TablesOK(candles, windows, overtaken, vectors)
  BY GenerateVectorOK DEF IInv
<1>2. DOMAIN vectors \subseteq DOMAIN vectors'
  <2>. PICK made : made = Generate(live.time, live.known)
    OBVIOUS
  <2>1. vectors' = Put(vectors, live.time, made) \/ vectors' = vectors
    BY GenerateVectorIs, IsOK DEF IInv
  <2>2. DOMAIN Put(vectors, live.time, made) = DOMAIN vectors \union {live.time}
    BY DEF Put
  <2>. QED
    BY <2>1, <2>2
<1>3. JobOK(job, candles, windows, vectors')
  <2>1. JobOK(job, candles, windows, vectors)
    BY DEF IInv
  <2>. QED
    BY <1>2, <2>1, VectorsGrow, Zenon
<1>4. now' = now /\ candles' = candles /\ windows' = windows /\ overtaken' = overtaken /\ job' = job
  BY DEF GenerateVector
<1>5. TablesOK(candles, windows, overtaken, vectors')
  BY <1>1 DEF TablesOK
<1>. QED
  BY <1>1, <1>3, <1>4, <1>5 DEF IInv, Kept

LEMMA StopKept == ASSUME IInv, Stop PROVE Kept
<1>1. /\ TablesOK(candles, windows, overtaken, vectors) /\ candles \in [Symbols -> SUBSET Seconds]
      /\ live.held \in [Symbols -> SUBSET Seconds] /\ JobOK(job, candles, windows, vectors)
  BY TablesAre DEF IInv, PipelineOK
<1>2. /\ candles' = [s \in Symbols |-> candles[s] \union live.held[s]] /\ live' = Ended
      /\ now' = now /\ windows' = windows /\ overtaken' = overtaken /\ vectors' = vectors
      /\ job' = Unseen(UNION {{s} \X (live.held[s] \ candles[s]) : s \in Symbols})
  BY DEF Stop
<1>3. Grows(candles')
  BY <1>1, <1>2 DEF Grows
<1>4. TablesOK(candles', windows, overtaken, vectors)
  BY <1>1, <1>3, TablesIntro DEF Grows
<1>5. JobOK(job', candles', windows, vectors)
  <2>. PICK added : added = UNION {{s} \X (live.held[s] \ candles[s]) : s \in Symbols}
    OBVIOUS
  <2>1. \A s \in Symbols : \A t \in candles'[s] \ candles[s] : <<s, t>> \in added
    <3>. TAKE s \in Symbols
    <3>. TAKE t \in candles'[s] \ candles[s]
    <3>1. t \in live.held[s] \ candles[s]
      BY <1>2
    <3>. QED
      BY <3>1
  <2>2. JobOK(Unseen(added), candles', windows, vectors)
    BY <1>1, <1>3, <2>1, UnseenOK
  <2>. QED
    BY <1>2, <2>2
<1>. QED
  BY <1>2, <1>4, <1>5, DownOK DEF IInv, Kept

LEMMA BackfillKept == ASSUME IInv, NEW s \in Symbols, Backfill(s) PROVE Kept
<1>1. TablesOK(candles, windows, overtaken, vectors) /\ candles \in [Symbols -> SUBSET Seconds]
  BY TablesAre DEF IInv
<1>2. /\ job' = NoJob /\ now' = now /\ windows' = windows /\ overtaken' = overtaken /\ vectors' = vectors
      /\ live' = live
      /\ \E got \in SUBSET Seconds : candles' = [candles EXCEPT ![s] = @ \union got]
  BY DEF Backfill, Begins
<1>3. candles' \in [Symbols -> SUBSET Seconds]
  BY <1>1, <1>2
<1>4. TablesOK(candles', windows, overtaken, vectors)
  BY <1>1, <1>3, TablesIntro
<1>. QED
  BY <1>2, <1>4 DEF IInv, Kept, JobOK

LEMMA TicketKept ==
  ASSUME IInv, NEW s \in Symbols, NEW t \in Seconds, NEW written \in BOOLEAN, NEW computed \in BOOLEAN,
         Ticket(s, t, written, computed)
  PROVE  Kept
<1>1. /\ TablesOK(candles, windows, overtaken, vectors) /\ PipelineOK(live, now)
      /\ JobOK(job, candles, windows, vectors) /\ candles \in [Symbols -> SUBSET Seconds]
  BY TablesAre DEF IInv
<1>2. /\ PipelineOK(live', now) /\ Stores(s, t, candles', windows', overtaken')
      /\ job' = Disturbed(Unseen({s} \X (candles'[s] \ candles[s])), t)
  BY <1>1, TicketOK
<1>3. now' = now /\ vectors' = vectors
  BY DEF Ticket
<1>4. /\ Grows(candles') /\ TablesOK(candles', windows', overtaken', vectors)
      /\ \A r \in Symbols : r # s => candles'[r] = candles[r]
      /\ \A r \in Symbols : \/ DOMAIN windows'[r] = DOMAIN windows[r]
                            \/ DOMAIN windows'[r] = DOMAIN windows[r] \union {t}
  <2>1. overtaken' = [r \in Symbols |-> overtaken'[r]]
    BY <1>1 DEF Ticket, TablesOK
  <2>. QED
    BY <1>1, <1>2, <2>1 DEF Stores, Grows, TablesOK, Indicated
<1>. PICK added : added = {s} \X (candles'[s] \ candles[s])
  OBVIOUS
<1>5. JobOK(Unseen(added), candles', windows, vectors)
  <2>1. \A r \in Symbols : \A u \in candles'[r] \ candles[r] : <<r, u>> \in added
    BY <1>4
  <2>. QED
    BY <1>1, <1>4, <2>1, UnseenOK
<1>6. JobOK(Disturbed(Unseen(added), t), candles', windows', vectors)
  <2>1. t \in Nat
    BY SecondsAre
  <2>. QED
    BY <1>4, <1>5, <2>1, DisturbedOK
<1>. QED
  BY <1>2, <1>3, <1>4, <1>6 DEF IInv, Kept

(* The steps of the pipeline that touch no table, and the ends of it.      *)
LEMMA PipelineKept == ASSUME IInv, Start \/ Tick \/ NothingEmitted \/ Crash PROVE Kept
<1>1. PipelineOK(live', now)
  BY StartOK, TickOK, NothingEmittedOK, DownOK DEF IInv, Crash
<1>2. now' = now /\ candles' = candles /\ windows' = windows /\ overtaken' = overtaken /\ vectors' = vectors /\ job' = job
  BY DEF Start, Tick, NothingEmitted, Crash, tables
<1>. QED
  BY <1>1, <1>2 DEF IInv, Kept

LEMMA GapFillKept ==
  ASSUME IInv, BeginGapFill \/ GapsDone \/ FindVectors \/ FillVector \/ (\E gap : FillGap(gap))
               \/ (\E s \in Symbols : CalculateNow(s))
  PROVE  Kept
<1>1. /\ ClockOK(now) /\ TablesOK(candles, windows, overtaken, vectors) /\ PipelineOK(live, now)
      /\ JobOK(job, candles, windows, vectors) /\ (job.kind = "gaps" => GapsOK(job, candles))
  BY Kinds DEF IInv
<1>2. CASE BeginGapFill
  <2>1. GapsOK(job', candles)
    BY <1>1, <1>2, BeginGapFillOK
  <2>. QED
    BY <1>1, <1>2, <2>1 DEF BeginGapFill, tables, Kept, JobOK
<1>3. CASE GapsDone
  <2>1. GapsOK(job', candles)
    BY <1>1, <1>3, GapsDoneOK DEF GapsDone
  <2>. QED
    BY <1>1, <1>3, <2>1 DEF GapsDone, tables, Kept, JobOK
<1>4. CASE FindVectors
  <2>1. GapsOK(job', candles)
    BY <1>1, <1>4, FindVectorsOK DEF FindVectors
  <2>. QED
    BY <1>1, <1>4, <2>1 DEF FindVectors, tables, Kept, JobOK
<1>5. CASE FillVector
  <2>1. VectorsOK(vectors') /\ GapsOK(job', candles)
    BY <1>1, <1>5, FillVectorOK DEF FillVector
  <2>2. now' = now /\ candles' = candles /\ windows' = windows /\ overtaken' = overtaken /\ live' = live
    BY <1>5 DEF FillVector
  <2>3. TablesOK(candles, windows, overtaken, vectors')
    BY <1>1, <2>1 DEF TablesOK
  <2>. QED
    BY <1>1, <2>1, <2>2, <2>3 DEF Kept, JobOK
<1>6. ASSUME NEW gap, FillGap(gap) PROVE Kept
  <2>1. Grows(candles') /\ GapsOK(job', candles')
    BY <1>1, <1>6, FillGapOK DEF FillGap
  <2>2. now' = now /\ vectors' = vectors /\ windows' = windows /\ overtaken' = overtaken /\ live' = live
    BY <1>6 DEF FillGap
  <2>3. TablesOK(candles', windows, overtaken, vectors)
    BY <1>1, <2>1, TablesIntro DEF Grows
  <2>. QED
    BY <1>1, <2>1, <2>2, <2>3 DEF Kept, JobOK
<1>7. ASSUME NEW s \in Symbols, CalculateNow(s) PROVE Kept
  <2>1. TablesOK(candles, windows', overtaken, vectors) /\ GapsOK(job', candles)
    BY <1>1, <1>7, CalculateNowOK DEF CalculateNow
  <2>2. now' = now /\ vectors' = vectors /\ candles' = candles /\ overtaken' = overtaken /\ live' = live
    BY <1>7 DEF CalculateNow
  <2>. QED
    BY <1>1, <2>1, <2>2 DEF Kept, JobOK
<1>. QED
  BY <1>2, <1>3, <1>4, <1>5, <1>6, <1>7

LEMMA RecalculationKept ==
  ASSUME IInv, BeginRecalculation \/ FetchChunk \/ RecalculateSecond \/ FinishRecalculation
  PROVE  Kept
<1>1. /\ ClockOK(now) /\ TablesOK(candles, windows, overtaken, vectors) /\ PipelineOK(live, now)
      /\ JobOK(job, candles, windows, vectors)
      /\ (job.kind = "indicators" => RecalculationOK(job, candles, windows))
  BY Kinds DEF IInv
<1>2. TablesOK(candles, windows', overtaken, vectors) /\ RecalculationOK(job', candles, windows')
  <2>1. CASE BeginRecalculation
    <3>1. windows' = windows
      BY <2>1 DEF BeginRecalculation, tables
    <3>. QED
      BY <1>1, <2>1, <3>1, BeginRecalculationOK
  <2>2. CASE FetchChunk
    <3>1. windows' = windows /\ job.kind = "indicators"
      BY <2>2 DEF FetchChunk, tables
    <3>. QED
      BY <1>1, <2>2, <3>1, FetchChunkOK
  <2>3. CASE RecalculateSecond
    <3>1. job.kind = "indicators"
      BY <2>3 DEF RecalculateSecond
    <3>. QED
      BY <1>1, <2>3, <3>1, RecalculateSecondOK
  <2>4. CASE FinishRecalculation
    <3>1. job.kind = "indicators"
      BY <2>4 DEF FinishRecalculation
    <3>. QED
      BY <1>1, <2>4, <3>1, FinishRecalculationOK
  <2>. QED
    BY <2>1, <2>2, <2>3, <2>4
<1>3. now' = now /\ candles' = candles /\ overtaken' = overtaken /\ vectors' = vectors /\ live' = live
  BY DEF BeginRecalculation, FetchChunk, RecalculateSecond, FinishRecalculation, tables
<1>. QED
  BY <1>1, <1>2, <1>3 DEF Kept, JobOK

LEMMA VectorsKept ==
  ASSUME IInv, BeginVectors \/ LoadVectors \/ InsertVectors
  PROVE  Kept
<1>1. /\ ClockOK(now) /\ TablesOK(candles, windows, overtaken, vectors) /\ PipelineOK(live, now)
      /\ JobOK(job, candles, windows, vectors)
      /\ (job.kind = "vectors" => VectorJobOK(job, windows, vectors))
  BY Kinds DEF IInv
<1>2. VectorsOK(vectors') /\ VectorJobOK(job', windows, vectors')
  <2>1. CASE BeginVectors
    <3>1. vectors' = vectors
      BY <2>1 DEF BeginVectors, tables
    <3>. QED
      BY <1>1, <2>1, <3>1, BeginVectorsOK DEF TablesOK
  <2>2. CASE LoadVectors
    <3>1. vectors' = vectors /\ job.kind = "vectors"
      BY <2>2 DEF LoadVectors, tables
    <3>. QED
      BY <1>1, <2>2, <3>1, LoadVectorsOK DEF TablesOK
  <2>3. CASE InsertVectors
    <3>1. job.kind = "vectors"
      BY <2>3 DEF InsertVectors
    <3>. QED
      BY <1>1, <2>3, <3>1, InsertVectorsOK
  <2>. QED
    BY <2>1, <2>2, <2>3
<1>3. now' = now /\ candles' = candles /\ windows' = windows /\ overtaken' = overtaken /\ live' = live
  BY DEF BeginVectors, LoadVectors, InsertVectors, tables
<1>4. TablesOK(candles, windows, overtaken, vectors')
  BY <1>1, <1>2 DEF TablesOK
<1>. QED
  BY <1>1, <1>2, <1>3, <1>4 DEF Kept, JobOK

LEMMA InitOK == ASSUME Init PROVE IInv
<1>1. ClockOK(now)
  BY DEF Init, ClockOK, Even, Second
<1>2. TablesOK(candles, windows, overtaken, vectors)
  BY DEF Init, TablesOK, WindowOK, VectorsOK
<1>. QED
  BY <1>1, <1>2, DownOK DEF Init, IInv, JobOK

LEMMA IInvKept == ASSUME IInv, [Next]_vars PROVE IInv'
<1>1. CASE UNCHANGED vars
  BY <1>1 DEF IInv, vars, tables
<1>2. ASSUME Next PROVE Kept
  <2>1. CASE JobEnds
    BY <2>1 DEF JobEnds, IInv, Kept, JobOK, tables
  <2>2. CASE Start \/ Tick \/ NothingEmitted \/ Crash
    BY <2>2, PipelineKept
  <2>3. CASE BeginGapFill \/ GapsDone \/ FindVectors \/ FillVector \/ (\E gap : FillGap(gap))
             \/ (\E s \in Symbols : CalculateNow(s))
    BY <2>3, GapFillKept
  <2>4. CASE BeginRecalculation \/ FetchChunk \/ RecalculateSecond \/ FinishRecalculation
    BY <2>4, RecalculationKept
  <2>5. CASE BeginVectors \/ LoadVectors \/ InsertVectors
    BY <2>5, VectorsKept
  <2>6. CASE \E s \in Symbols : Backfill(s) \/ \E t \in Seconds, written, computed \in BOOLEAN : Ticket(s, t, written, computed)
    BY <2>6, BackfillKept, TicketKept
  <2>. QED
    BY <1>2, <2>1, <2>2, <2>3, <2>4, <2>5, <2>6, ClockAdvancesKept, GenerateVectorKept, StopKept DEF Next
<1>. QED
  BY <1>1, <1>2 DEF Kept, IInv

-----------------------------------------------------------------------------
(* What the invariant says of the jobs and of the rows.                    *)
LEMMA IInvReaches == ASSUME IInv PROVE JobsReachTheirRows
<1>1. JobOK(job, candles, windows, vectors)
  BY DEF IInv
<1>2. GapsAreClosed
  <2>1. job.kind = "gaps" => GapsOK(job, candles)
    BY <1>1, Kinds
  <2>2. ASSUME job.kind = "gaps", job.at # "fill", job.clean, NEW gap \in job.found PROVE Closed(gap, candles)
    BY <2>1, <2>2 DEF GapsOK
  <2>. QED
    BY <2>2 DEF GapsAreClosed, Closed
<1>3. RecalculationReaches
  <2>. SUFFICES ASSUME job.kind = "recalculated", NEW s \in Symbols, NEW t \in candles[s],
                       job.from <= t, t < job.to
                PROVE  t \in Indicated(s) \/ <<s, t>> \in job.cut
    BY DEF RecalculationReaches
  <2>1. RecalculationOK(job, candles, windows)
    BY <1>1, Kinds
  <2>2. DealtWith(job, s, t, windows) /\ job.batch = {}
    BY <2>1 DEF RecalculationOK
  <2>. QED
    BY <2>2 DEF DealtWith, Indicated
<1>4. VectorsReach
  <2>. SUFFICES ASSUME job.kind = "vectors", job.cursor >= job.to, job.clean,
                       NEW s \in Symbols, NEW t \in Indicated(s), job.from <= t, t < job.to
                PROVE  t \in DOMAIN vectors
    BY DEF VectorsReach
  <2>1. VectorJobOK(job, windows, vectors)
    BY <1>1, Kinds
  <2>2. t \in Nat
    BY TablesAre DEF IInv
  <2>3. t < job.cursor
    BY <2>1, <2>2 DEF VectorJobOK
  <2>. QED
    BY <2>1, <2>3 DEF VectorJobOK, Indicated
<1>. QED
  BY <1>2, <1>3, <1>4 DEF JobsReachTheirRows

LEMMA IInvLooksBack == ASSUME IInv PROVE NoLookAhead
BY DEF IInv, TablesOK, WindowOK, VectorsOK, TakenOK, NoLookAhead, Indicated

(* A vector that is new, or another, outside the recalculation is one that *)
(* generate() made of what is stored then.                                 *)
OwnSecond ==
  \A t \in DOMAIN vectors' :
    /\ job.kind # "vectors" \/ live # live'
    /\ t \notin DOMAIN vectors \/ vectors'[t] # vectors[t]
    => \A s \in Symbols : t \in candles[s] => vectors'[t][s].close = t

LEMMA PutOwnSecond ==
  ASSUME IInv, NEW t \in Nat, NEW known, TakenOK(known, t), vectors' = Put(vectors, t, Generate(t, known))
  PROVE  OwnSecond
<1>. PICK made : made = Generate(t, known)
  OBVIOUS
<1>1. \A s \in Symbols : t \in candles[s] => made[s].close = t
  BY GenerateIs, TablesAre DEF IInv
<1>2. /\ DOMAIN vectors' = DOMAIN vectors \union {t} /\ vectors'[t] = made
      /\ \A u \in DOMAIN vectors : u # t => vectors'[u] = vectors[u]
  <2>1. vectors' = Put(vectors, t, made)
    OBVIOUS
  <2>. QED
    BY <2>1 DEF Put
<1>. QED
  BY <1>1, <1>2 DEF OwnSecond

LEMMA OwnSecondKept == ASSUME IInv, [Next]_vars PROVE OwnSecond
<1>1. ASSUME vectors' = vectors PROVE OwnSecond
  BY <1>1 DEF OwnSecond
<1>2. CASE GenerateVector
  <2>1. /\ PipelineOK(live, now) /\ live.at # "down" /\ IsPipeline(live)
    BY <1>2, IsOK DEF IInv, GenerateVector
  <2>2. live.time \in Nat /\ TakenOK(live.known, live.time)
    BY <2>1, SecondsAre DEF PipelineOK
  <2>3. vectors' = Put(vectors, live.time, Generate(live.time, live.known)) \/ vectors' = vectors
    BY <1>2, <2>1, GenerateVectorIs
  <2>. QED
    BY <1>1, <2>2, <2>3, PutOwnSecond
<1>3. CASE FillVector
  <2>1. GapsOK(job, candles) /\ TablesOK(candles, windows, overtaken, vectors)
    BY <1>3, Kinds DEF IInv, FillVector
  <2>2. \/ vectors' = vectors
        \/ \E t \in Nat : \E known : TakenOK(known, t) /\ vectors' = Put(vectors, t, Generate(t, known))
    BY <1>3, <2>1, FillVectorOK
  <2>. QED
    BY <1>1, <2>2, PutOwnSecond
<1>4. CASE InsertVectors
  <2>1. job.kind = "vectors" /\ live' = live
    BY <1>4 DEF InsertVectors
  <2>. QED
    BY <2>1 DEF OwnSecond
<1>5. ASSUME Next, ~GenerateVector, ~FillVector, ~InsertVectors PROVE vectors' = vectors
  <2>1. ASSUME NEW s \in Symbols, Backfill(s) \/ CalculateNow(s) PROVE vectors' = vectors
    BY <2>1 DEF Backfill, CalculateNow
  <2>2. ASSUME NEW s \in Symbols, NEW t, NEW written, NEW computed, Ticket(s, t, written, computed) PROVE vectors' = vectors
    BY <2>2 DEF Ticket
  <2>3. ASSUME NEW gap, FillGap(gap) PROVE vectors' = vectors
    BY <2>3 DEF FillGap
  <2>4. CASE \/ Start \/ ClockAdvances \/ Tick \/ NothingEmitted \/ Stop \/ Crash \/ JobEnds
             \/ BeginGapFill \/ GapsDone \/ FindVectors
    BY <2>4 DEF Start, ClockAdvances, Tick, NothingEmitted, Stop, Crash, JobEnds, BeginGapFill, GapsDone,
                FindVectors, tables
  <2>5. CASE \/ BeginRecalculation \/ FetchChunk \/ RecalculateSecond \/ FinishRecalculation
             \/ BeginVectors \/ LoadVectors
    BY <2>5 DEF BeginRecalculation, FetchChunk, RecalculateSecond, FinishRecalculation, BeginVectors,
                LoadVectors, tables
  <2>. QED
    BY <1>5, <2>1, <2>2, <2>3, <2>4, <2>5 DEF Next
<1>. QED
  BY <1>1, <1>2, <1>3, <1>4, <1>5 DEF vars, tables
-----------------------------------------------------------------------------
LEMMA IInvAlways == Spec => []IInv
<1>1. Init => IInv
  BY InitOK
<1>2. IInv /\ [Next]_vars => IInv'
  BY IInvKept
<1>. QED
  BY <1>1, <1>2, PTL DEF Spec

(* The gap fill leaves no second of the gaps it found but those its last   *)
(* answer could not reach, a recalculation no candle of its range but those*)
(* it is known to leave out, and a recalculation of vectors no time that   *)
(* has indicators, whatever the pipeline stores meanwhile (cli/gap_fill.py,*)
(* cli/recalculate.py).                                                    *)
THEOREM JobsAlwaysReachTheirRows == Spec => []JobsReachTheirRows
<1>1. IInv => JobsReachTheirRows
  BY IInvReaches
<1>. QED
  BY <1>1, IInvAlways, PTL

(* No indicator and no vector is made of a candle that came later, but the *)
(* indicators of a second whose candle the pipeline was handed after a     *)
(* later one, and a vector takes of each symbol the candle of its own      *)
(* second when there is one (indicators_buffer.py, wide_vector_service.py).*)
THEOREM RowsAlwaysOfTheirTime == Spec => RowsAreOfTheirTime
<1>1. IInv => NoLookAhead
  BY IInvLooksBack
<1>2. IInv /\ [Next]_vars => OwnSecond
  BY OwnSecondKept
<1>3. Spec => [][OwnSecond]_vars
  BY <1>2, IInvAlways, PTL DEF Spec
<1>4. Spec => OwnSecondFirst
  BY <1>3 DEF OwnSecondFirst, OwnSecond
<1>. QED
  BY <1>1, <1>4, IInvAlways, PTL DEF RowsAreOfTheirTime
=============================================================================
