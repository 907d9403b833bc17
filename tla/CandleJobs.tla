------------------------------ MODULE CandleJobs ------------------------------
(***************************************************************************)
(* The tables candles_1s, candle_indicators and wide_vectors, the live     *)
(* pipeline that fills them second by second (pipeline/service.py,         *)
(* indicator_calculator.py, indicators_buffer.py, wide_vector_service.py)  *)
(* and the jobs an operator runs beside it: cli/backfill.py,               *)
(* cli/gap_fill.py and cli/recalculate.py.                                 *)
(*                                                                         *)
(* Of a row only its time is kept, of indicator values the times of the    *)
(* candles they were computed from, of a wide vector the times of the      *)
(* candle and the indicators it took of each symbol.  Time runs in half    *)
(* seconds: candles have even times, now() is odd.                         *)
(***************************************************************************)
EXTENDS Integers, FiniteSets, FiniteSetsExt

CONSTANTS
  Symbols,     \* the active symbols
  Period,      \* _max_indicator_period: candles of a buffer
  Limit,       \* klines in one answer of the exchange (1000)
  Chunk,       \* rows recalculate_indicators fetches at a time (5000)
  Batch,       \* results it stores at a time (5000)
  Hour,        \* half seconds of a batch of recalculate_wide_vectors
  MaxClock,    \* bound: the last second
  Starts,      \* bound: the seconds a recalculation may start from
  MaxJobs,     \* bound: jobs
  MaxFailures  \* bound: failures and restarts of the pipeline, and late candles

ASSUME JobsAssumption ==
  /\ {Period, Limit, Chunk, Batch, Hour} \subseteq Nat \ {0}
  /\ Starts \subseteq Nat
  /\ {MaxClock, MaxJobs, MaxFailures} \subseteq Nat

VARIABLES
  now,      \* the second that runs; those before are over
  candles,  \* candles_1s: the seconds stored of each symbol
  windows,  \* candle_indicators: by symbol and time, the latest candle in it
  overtaken, \* by symbol, the times whose row was computed after a later one's
  vectors,  \* wide_vectors: by time, the times taken of each symbol
  live,     \* the pipeline
  job,      \* the job that runs
  bounds    \* jobs, and failures and restarts, so far

tables == <<candles, windows, overtaken, vectors>>
vars == <<now, tables, live, job, bounds>>

Never    == -99      \* before all times: nothing taken
ZeroRow  == -98      \* the candle of zeros calculate() pads with
Second   == 2
MaxTime  == Second * MaxClock
Seconds  == {Second * t : t \in 1 .. MaxClock}
Instant  == now + 1  \* now()

Indicated(s) == DOMAIN windows[s]

Latest(times) == IF times = {} THEN Never ELSE Max(times)

Put(f, x, y) == [z \in DOMAIN f \union {x} |-> IF z = x THEN y ELSE f[z]]

(* f, and g where f is not defined.                                        *)
OrElse(f, g) == [z \in DOMAIN f \union DOMAIN g |-> IF z \in DOMAIN f THEN f[z] ELSE g[z]]
-----------------------------------------------------------------------------
(* initialization of an IndicatorsBuffer with the candles up to t: from    *)
(* the table, else from the exchange, which answers with Period klines     *)
(* from the start on, else from what the table has and the current candle, *)
(* again and again.  Of a buffer its latest candle is kept.                *)
Empty == Never

Initializations(stored, t, pad) ==
  LET start == t - Second * Period
      rows  == {u \in stored : start <= u /\ u <= t}
  IN  IF Cardinality(rows) >= Period THEN {Max(rows)}
      ELSE {start + (start % Second) + Second * (Period - 1), Latest(rows \union {pad})}

AddCandle(buffer, t) == Max({buffer, t})
-----------------------------------------------------------------------------
(* WideVectorService.generate(t) with the cache known: what is stored at t *)
(* comes first, then the cache, then the last rows before t.               *)
Nothing == [close |-> Never, values |-> Never]

LatestBefore(times, t) == Latest({u \in times : u < t})

CachedFirst(s, t, known) ==
  IF known[s] # Nothing THEN known[s]
  ELSE [close  |-> IF t \in candles[s] THEN t ELSE LatestBefore(candles[s], t),
        values |-> LatestBefore(Indicated(s), t)]

Taken(s, t, known) ==
  LET fill  == t \notin candles[s] /\ known[s] = Nothing
      older == LatestBefore(Indicated(s), t)
  IN  [close  |-> IF t \in candles[s] THEN t
                  ELSE IF fill THEN LatestBefore(candles[s], t) ELSE known[s].close,
       values |-> IF fill /\ older # Never THEN older
                  ELSE IF t \in Indicated(s) THEN t ELSE known[s].values]

Generate(t, known) == [s \in Symbols |-> Taken(s, t, known)]
-----------------------------------------------------------------------------
(* The pipeline.  Every second it handles the candles its aggregators      *)
(* emit, one ticket after the other, then the vector.                      *)
Down ==
  [at |-> "down", time |-> Never, of |-> Symbols, held |-> [s \in Symbols |-> {}],
   newest |-> [s \in Symbols |-> Never], buffers |-> [s \in Symbols |-> Empty],
   known |-> [s \in Symbols |-> Nothing]]

Ended == [Down EXCEPT !.time = 0]

Counted(what) == bounds' = [bounds EXCEPT ![what] = @ + 1]

Fails == bounds.failures < MaxFailures /\ Counted("failures")

Start ==
  /\ live.at = "down"
  /\ IF live.time = Never THEN UNCHANGED bounds ELSE Fails
  /\ live' = [Down EXCEPT !.at = "waiting", !.time = now - Second]
  /\ UNCHANGED <<now, tables, job>>

(* The next second boundary is awaited: a loop that is late skips seconds. *)
ClockAdvances ==
  /\ now < MaxTime
  /\ CASE live.at = "down"                                   -> UNCHANGED bounds
       [] live.at = "waiting" /\ live.time = now - Second    -> UNCHANGED bounds
       [] live.at = "waiting" /\ live.time < now - Second    -> Fails
       [] OTHER                                              -> FALSE
  /\ now' = now + Second
  /\ UNCHANGED <<tables, live, job>>

Tick ==
  /\ live.at = "waiting" /\ live.time < now - Second
  /\ live' = [live EXCEPT !.at = "tickets", !.time = now - Second, !.of = Symbols]
  /\ UNCHANGED <<now, tables, job, bounds>>

(* What a recalculation has fetched or passed, it does not look at again.  *)
Passed(t) ==
  /\ job.from <= t /\ t < job.to
  /\ \/ job.kind = "recalculated" \/ t < job.cursor
     \/ \E r \in job.chunk : t <= r[2]

Unseen(added) ==
  IF job.kind \notin {"indicators", "recalculated"} THEN job
  ELSE [job EXCEPT !.cut = @ \union {r \in added : Passed(r[2])}, !.clean = @ /\ added = {}]

(* A recalculation of vectors is disturbed by new indicators in its range. *)
Disturbed(j, t) ==
  IF j.kind = "vectors" /\ j.from <= t /\ t < j.to THEN [j EXCEPT !.clean = FALSE] ELSE j

(* A buffer before the candle of t comes into it: filled by the first of a *)
(* life.  (It is a ring: a later candle leaves it again behind Period      *)
(* others.  The model keeps it as the latest that may be in the buffer.)   *)
Filled(s, t, stored) ==
  IF live.buffers[s] = Empty THEN Initializations(stored, t, t) ELSE {live.buffers[s]}

Late(s, t) == t < live.newest[s]

(* The ticket of a candle, which is of the second that is over, or of one  *)
(* before: the aggregator queues candles, and late trades open a second    *)
(* again.  (No trade is stamped ahead of the clock.)  The candle is        *)
(* written, or stays in the writer, and the indicators are computed with   *)
(* it, and stored, or not.                                                 *)
Ticket(s, t, written, computed) ==
  LET due    == live.held[s] \union {t}
      stored == candles[s] \union (IF written THEN due ELSE {})
  IN  /\ live.at = "tickets" /\ s \in live.of /\ t <= live.time
      /\ IF t = live.time /\ written /\ computed THEN UNCHANGED bounds ELSE Fails
      /\ candles' = [candles EXCEPT ![s] = stored]
      /\ \E filled \in Filled(s, t, stored) :
           /\ live' = [live EXCEPT !.of = @ \ {s},
                                   !.held[s] = IF written THEN {} ELSE due,
                                   !.newest[s] = Max({@, t}),
                                   !.buffers[s] = AddCandle(filled, t)]
           /\ windows' = IF computed THEN [windows EXCEPT ![s] = Put(@, t, AddCandle(filled, t))]
                         ELSE windows
      /\ overtaken' = IF computed
                      THEN [overtaken EXCEPT ![s] = IF Late(s, t) THEN @ \union {t} ELSE @ \ {t}]
                      ELSE overtaken
      /\ job' = Disturbed(Unseen({s} \X (stored \ candles[s])), t)
      /\ UNCHANGED <<now, vectors>>

(* Nothing was emitted for the symbols that are left.                      *)
NothingEmitted ==
  /\ live.at = "tickets" /\ live.of # {} /\ Fails
  /\ live' = [live EXCEPT !.of = {}]
  /\ UNCHANGED <<now, tables, job>>

(* Step 3: the vector of the second, or none when that fails.              *)
GenerateVector ==
  /\ live.at = "tickets" /\ live.of = {}
  /\ \/ LET made == Generate(live.time, live.known)
        IN  /\ vectors' = Put(vectors, live.time, made)
            /\ live' = [live EXCEPT !.at = "waiting", !.known = made]
            /\ UNCHANGED bounds
     \/ /\ Fails
        /\ live' = [live EXCEPT !.at = "waiting"] /\ UNCHANGED vectors
  /\ UNCHANGED <<now, candles, windows, overtaken, job>>

(* stop() flushes the writer; a kill does not.                             *)
Stop ==
  /\ live.at # "down"
  /\ candles' = [s \in Symbols |-> candles[s] \union live.held[s]]
  /\ job' = Unseen(UNION {{s} \X (live.held[s] \ candles[s]) : s \in Symbols})
  /\ live' = Ended
  /\ UNCHANGED <<now, windows, overtaken, vectors, bounds>>

Crash ==
  /\ live.at # "down" /\ live' = Ended
  /\ UNCHANGED <<now, tables, job, bounds>>
-----------------------------------------------------------------------------
(* The jobs, one at a time.                                                *)
NoJob == [kind |-> "none", clean |-> TRUE]

Begins(j) == job.kind = "none" /\ bounds.jobs < MaxJobs /\ Counted("jobs") /\ job' = j

JobEnds ==
  /\ job.kind # "none" /\ job' = NoJob
  /\ UNCHANGED <<now, tables, live, bounds>>

(* HistoricalBackfill of one symbol: klines from the start of the range up *)
(* to the second that runs, or fewer after ten errors in a row.            *)
Backfill(s) ==
  /\ Begins(NoJob)
  /\ \E last \in Seconds :
       /\ last <= now
       /\ candles' = [candles EXCEPT ![s] = @ \union {t \in Seconds : t <= last}]
  /\ UNCHANGED <<now, windows, overtaken, vectors, live>>

(* detect_gaps: neighbours in the table more than two seconds apart.       *)
GapsOf(s) ==
  {gap \in {s} \X candles[s] \X candles[s] :
     /\ gap[3] - gap[2] > 2 * Second
     /\ \A t \in candles[s] : t <= gap[2] \/ gap[3] <= t}

BeginGapFill ==
  LET gaps == UNION {GapsOf(s) : s \in Symbols}
  IN  /\ gaps # {}
      /\ Begins([kind |-> "gaps", at |-> "fill", found |-> gaps, left |-> gaps,
                 inserted |-> FALSE, clean |-> TRUE,
                 known |-> [s \in Symbols |-> Nothing]])
      /\ UNCHANGED <<now, tables, live>>

(* The last of the seconds from u to t that n answers of klines reach, and *)
(* the klines in them.                                                     *)
Reached(u, t, n) == Min({t, u + Second * (Limit * n - 1)})

Answered(u, t, n) == {v \in Seconds : u <= v /\ v <= Reached(u, t, n)}

(* fill_gap: answers are asked for until they reach the second before the  *)
(* gap's end, or one fails; what was answered is inserted, or that fails.  *)
FillGap(gap) ==
  LET first   == gap[2] + Second
      last    == gap[3] - Second
      More(n) == n = 0 \/ Reached(first, last, n) + Second < last
  IN  /\ job.kind = "gaps" /\ job.at = "fill" /\ gap \in job.left
      /\ \E n \in 0 .. MaxClock, inserted \in BOOLEAN :
           LET got == IF inserted THEN Answered(first, last, n) ELSE {}
           IN  /\ \A m \in 0 .. n - 1 : More(m)
               /\ candles' = [candles EXCEPT ![gap[1]] = @ \union got]
               /\ job' = [job EXCEPT !.left = @ \ {gap},
                                     !.clean = @ /\ inserted /\ ~More(n),
                                     !.inserted = @ \/ got # {}]
      /\ UNCHANGED <<now, windows, overtaken, vectors, live, bounds>>

GapsDone ==
  /\ job.kind = "gaps" /\ job.at = "fill" /\ job.left = {}
  /\ job' = IF job.inserted THEN [job EXCEPT !.at = "indicators", !.left = Symbols]
            ELSE [job EXCEPT !.at = "done"]
  /\ UNCHANGED <<now, tables, live, bounds>>

(* calculate() of every symbol, stored under now(), or an error.           *)
CalculateNow(s) ==
  /\ job.kind = "gaps" /\ job.at = "indicators" /\ s \in job.left
  /\ \/ UNCHANGED windows
     \/ \E buffer \in Initializations(candles[s], Instant, ZeroRow) :
          windows' = [windows EXCEPT ![s] = Put(@, Instant, buffer)]
  /\ job' = [job EXCEPT !.left = @ \ {s}]
  /\ UNCHANGED <<now, candles, overtaken, vectors, live, bounds>>

(* The seconds that have a candle and no vector, and generate() of each in *)
(* order, or an error.                                                     *)
FindVectors ==
  /\ job.kind = "gaps" /\ job.at = "indicators" /\ job.left = {}
  /\ job' = [job EXCEPT !.at = "vectors",
               !.left = UNION {candles[s] : s \in Symbols} \ DOMAIN vectors]
  /\ UNCHANGED <<now, tables, live, bounds>>

FillVector ==
  /\ job.kind = "gaps" /\ job.at = "vectors" /\ job.left # {}
  /\ LET t    == Min(job.left)
         made == Generate(t, job.known)
         rest == [job EXCEPT !.left = @ \ {t}]
     IN  \/ vectors' = Put(vectors, t, made) /\ job' = [rest EXCEPT !.known = made]
         \/ UNCHANGED vectors /\ job' = rest
  /\ UNCHANGED <<now, candles, windows, overtaken, live, bounds>>
-----------------------------------------------------------------------------
(* recalculate_indicators over [from, to): the indicators there are, and   *)
(* chunks of candles from the lookback on.                                 *)
BeginRecalculation ==
  \E from \in Starts :
    /\ from < now
    /\ Begins([kind |-> "indicators", from |-> from, to |-> Instant,
               existing |-> {r \in Symbols \X Seconds :
                               from <= r[2] /\ r[2] \in Indicated(r[1])},
               cursor |-> from - Second * Period, chunk |-> {}, ready |-> {},
               buffers |-> [s \in Symbols |-> Empty], batch |-> {}, cut |-> {},
               clean |-> TRUE])
    /\ UNCHANGED <<now, tables, live>>

Rows == {r \in Symbols \X Seconds :
           r[2] \in candles[r[1]] /\ job.cursor <= r[2] /\ r[2] < job.to}

InTimeOrder(chunk) == \A r \in chunk : \A q \in Rows \ chunk : r[2] <= q[2]

(* ORDER BY time LIMIT chunk_size: which symbols of the last second are in *)
(* is open.                                                                *)
FetchChunk ==
  /\ job.kind = "indicators" /\ job.chunk = {} /\ job.cursor < job.to /\ Rows # {}
  /\ \E chunk \in kSubset(Min({Chunk, Cardinality(Rows)}), Rows) :
       /\ InTimeOrder(chunk)
       /\ job' = [job EXCEPT !.chunk = chunk,
                    !.cut = @ \union {r \in Rows \ chunk : \E q \in chunk : r[2] = q[2]}]
  /\ UNCHANGED <<now, tables, live, bounds>>

FirstOfChunk == Min({r[2] : r \in job.chunk})

PassedTwo(t) == t + 2 * Second

NextCursor(t) == t + Second

WriteBatch(batch) ==
  windows' = [s \in Symbols |->
                LET results == {b \in batch : b[1] = s}
                IN  [t \in Indicated(s) \union {b[2] : b \in results} |->
                       IF \E b \in results : b[2] = t
                       THEN (CHOOSE b \in results : b[2] = t)[3] ELSE windows[s][t]]]

(* One second of the chunk.  A symbol's buffer is initialized at its first *)
(* second in the range; the values of a second are computed before its     *)
(* candle is added, and stored when there are enough of them.              *)
RecalculateSecond ==
  LET t  == FirstOfChunk
      at == {r[1] : r \in {q \in job.chunk : q[2] = t}}
      fresh   == IF t < job.from THEN {} ELSE at \ job.ready
      missing == {s \in at : t >= job.from /\ <<s, t>> \notin job.existing}
  IN  /\ job.kind = "indicators" /\ job.chunk # {}
      /\ \E filled \in [fresh -> UNION {Initializations(candles[s], t, t) : s \in fresh}] :
           /\ \A s \in fresh : filled[s] \in Initializations(candles[s], t, t)
           /\ LET buffers == OrElse(filled, job.buffers)
                  batch   == job.batch \union {<<s, t, buffers[s]>> : s \in missing}
                  full    == Cardinality(batch) >= Batch
              IN  /\ IF full THEN WriteBatch(batch) ELSE UNCHANGED windows
                  /\ job' = [job EXCEPT
                       !.cursor = NextCursor(t),
                       !.chunk = {r \in @ : r[2] # t},
                       !.ready = @ \union fresh,
                       !.batch = IF full THEN {} ELSE batch,
                       !.buffers = [s \in Symbols |->
                          IF s \in at THEN AddCandle(buffers[s], t) ELSE @[s]]]
      /\ UNCHANGED <<now, candles, overtaken, vectors, live, bounds>>

FinishRecalculation ==
  /\ job.kind = "indicators" /\ job.chunk = {} /\ (job.cursor >= job.to \/ Rows = {})
  /\ WriteBatch(job.batch)
  /\ job' = [job EXCEPT !.kind = "recalculated", !.batch = {}]
  /\ UNCHANGED <<now, candles, overtaken, vectors, live, bounds>>
-----------------------------------------------------------------------------
(* recalculate_wide_vectors over [from, to), in batches of an hour, on its *)
(* own or (--all) after the indicators.                                    *)
Vectors(from, to) ==
  [kind |-> "vectors", from |-> from, to |-> to, cursor |-> from, made |-> <<>>,
   clean |-> TRUE]

BeginVectors ==
  /\ \E s \in Symbols : Indicated(s) # {}
  /\ \/ \E from \in Starts : from < now /\ Begins(Vectors(from, Instant))
     \/ /\ job.kind = "recalculated"
        /\ job' = Vectors(job.from, job.to) /\ UNCHANGED bounds
  /\ UNCHANGED <<now, tables, live>>

(* The rows of a batch.  A symbol that has none at a time takes its last   *)
(* rows before the batch; a time is made into a vector if it has           *)
(* indicators then.                                                        *)
VectorsOf(start, end) ==
  LET In(times)  == {t \in times : start <= t /\ t < end}
      C(s)       == In(candles[s])
      I(s)       == In(Indicated(s))
      all        == UNION {C(s) \union I(s) : s \in Symbols}
      Absent(s, t) == t \notin C(s) \union I(s)
      Ind(s, t)  == IF t \in I(s) THEN t
                    ELSE IF Absent(s, t) THEN LatestBefore(Indicated(s), start) ELSE Never
      Close(s, t) == IF t \in C(s) THEN t
                     ELSE IF Absent(s, t) THEN LatestBefore(candles[s], start) ELSE Never
  IN  IF \A s \in Symbols : I(s) = {} THEN <<>>
      ELSE [t \in {u \in all : \E s \in Symbols : Ind(s, u) # Never} |->
              [s \in Symbols |-> [close |-> Close(s, t), values |-> Ind(s, t)]]]

EndOfBatch == Min({job.cursor + Hour, job.to})

NextBatch == EndOfBatch

LoadVectors ==
  /\ job.kind = "vectors" /\ job.cursor < job.to /\ job.made = <<>>
  /\ LET made == VectorsOf(job.cursor, EndOfBatch)
     IN  job' = IF made = <<>> THEN [job EXCEPT !.cursor = NextBatch]
                ELSE [job EXCEPT !.made = made]
  /\ UNCHANGED <<now, tables, live, bounds>>

(* ON CONFLICT DO NOTHING.                                                 *)
InsertVectors ==
  /\ job.kind = "vectors" /\ job.made # <<>>
  /\ vectors' = OrElse(vectors, job.made)
  /\ job' = [job EXCEPT !.made = <<>>, !.cursor = NextBatch]
  /\ UNCHANGED <<now, candles, windows, overtaken, live, bounds>>
-----------------------------------------------------------------------------
Init ==
  /\ now = Second
  /\ candles = [s \in Symbols |-> {}] /\ windows = [s \in Symbols |-> <<>>]
  /\ overtaken = [s \in Symbols |-> {}] /\ vectors = <<>>
  /\ live = Down /\ job = NoJob
  /\ bounds = [jobs |-> 0, failures |-> 0]

Next ==
  \/ Start \/ ClockAdvances \/ Tick \/ NothingEmitted \/ GenerateVector \/ Stop \/ Crash
  \/ JobEnds \/ BeginGapFill \/ GapsDone \/ FindVectors \/ FillVector
  \/ BeginRecalculation \/ FetchChunk \/ RecalculateSecond \/ FinishRecalculation
  \/ BeginVectors \/ LoadVectors \/ InsertVectors
  \/ \E s \in Symbols :
       \/ Backfill(s) \/ CalculateNow(s)
       \/ \E t \in Seconds, written, computed \in BOOLEAN : Ticket(s, t, written, computed)
  \/ job.kind = "gaps" /\ job.at = "fill" /\ \E gap \in job.left : FillGap(gap)

Spec == Init /\ [][Next]_vars
-----------------------------------------------------------------------------
(* No value is made of what came later, whoever computes it and whatever   *)
(* was filled in since, but the values of a second the pipeline came to    *)
(* after a later one: models are trained on these rows.                    *)
NoLookAhead ==
  /\ \A s \in Symbols : \A t \in Indicated(s) :
       windows[s][t] <= t \/ t \in overtaken[s]
  /\ \A t \in DOMAIN vectors : \A s \in Symbols :
       vectors[t][s].close <= t /\ vectors[t][s].values <= t

(* A gap fill without an error leaves of the gaps it found at most one     *)
(* second each, the last, and that only when the answers were full up to   *)
(* the second before.                                                      *)
GapsAreClosed ==
  job.kind = "gaps" /\ job.at # "fill" /\ job.clean =>
    \A gap \in job.found :
      LET first == gap[2] + Second
          last  == gap[3] - Second
      IN  \A t \in Seconds : first <= t /\ t <= last =>
            \/ t \in candles[gap[1]]
            \/ t = last /\ ((last - first) \div Second) % Limit = 0

(* A recalculation leaves no candle of its range without indicators but    *)
(* those that the end of a chunk cut off and those stored behind its back. *)
RecalculationReaches ==
  job.kind = "recalculated" =>
    \A s \in Symbols : \A t \in candles[s] :
      job.from <= t /\ t < job.to => t \in Indicated(s) \/ <<s, t>> \in job.cut

(* A recalculation of vectors that no new indicators ran into makes one of *)
(* every time of its range that has indicators.                            *)
VectorsReach ==
  job.kind = "vectors" /\ job.cursor >= job.to /\ job.clean =>
    \A s \in Symbols : \A t \in Indicated(s) :
      job.from <= t /\ t < job.to => t \in DOMAIN vectors

(* The gap fill and both recalculations come to all that was there to find.*)
JobsReachTheirRows == GapsAreClosed /\ RecalculationReaches /\ VectorsReach

(* A vector made by generate() takes the candle of its own second of each  *)
(* symbol that has one by then, whatever the cache holds.                  *)
OwnSecondFirst ==
  [][\A t \in DOMAIN vectors' :
       /\ job.kind # "vectors" \/ live # live'
       /\ t \notin DOMAIN vectors \/ vectors'[t] # vectors[t]
       => \A s \in Symbols : t \in candles[s] => vectors'[t][s].close = t]_vars

(* What a row of the training data may be made of.                         *)
RowsAreOfTheirTime == []NoLookAhead /\ OwnSecondFirst

(* "Recalculate indicators for candles in time range" leaves none without. *)
RecalculatesAll ==
  job.kind = "recalculated" /\ job.clean =>
    \A s \in Symbols : \A t \in candles[s] :
      job.from <= t /\ t < job.to => t \in Indicated(s)

(* "Calculate indicators for filled candles": a gap fill that met no error *)
(* leaves none of the candles it filled in without.                        *)
FilledGetIndicators ==
  job.kind = "gaps" /\ job.at = "vectors" /\ job.clean =>
    \A gap \in job.found : \A t \in candles[gap[1]] :
      gap[2] < t /\ t < gap[3] => t \in Indicated(gap[1])
=============================================================================
