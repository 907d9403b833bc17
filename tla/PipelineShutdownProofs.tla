----------------------- MODULE PipelineShutdownProofs -----------------------
(***************************************************************************)
(* Proofs about the end of a pipeline and about the two components it is   *)
(* composed of.  The writer: no candle accepted is lost and no stored one  *)
(* gets older, for any seconds, any number of candles and any batch size,  *)
(* whichever flush fails or is cancelled.  The connection loop: its types. *)
(* The pipeline: what is left when a stop is over, and that whatever of it *)
(* is cancelled, in whichever order, it uses its writer as DatabaseWriter  *)
(* says, so that what is proved there holds of the pipeline.               *)
(***************************************************************************)
EXTENDS PipelineShutdown, WellFoundedInduction, TLAPS

(* A non-empty set of indices has a largest one.                           *)
LEMMA LessIn ==
  ASSUME NEW x \in Nat, NEW y \in Nat, y < x
  PROVE  <<y, x>> \in OpToRel(<, Nat)
  BY DEF OpToRel

LEMMA LargestIndex ==
  ASSUME NEW n \in Nat, NEW of \in SUBSET (1 .. n), of # {}
  PROVE  \E i \in of : \A j \in of : j <= i
<1> DEFINE T == {m \in Nat : n - m \in of}
<1>1. T \subseteq Nat /\ T # {}
  <2>1. PICK i \in of : TRUE
    OBVIOUS
  <2>2. n - i \in Nat /\ n - (n - i) = i
    OBVIOUS
  <2> QED
    BY <2>2
<1>2. PICK x \in T : \A y \in T : ~ (<<y, x>> \in OpToRel(<, Nat))
  BY <1>1, NatLessThanWellFounded, WFMin
<1>3. \A y \in T : ~ (y < x)
  BY <1>1, <1>2, LessIn
<1>4. n - x \in of
  OBVIOUS
<1>5. ASSUME NEW j \in of PROVE j <= n - x
  <2>1. n - j \in T
    OBVIOUS
  <2> QED
    BY <1>3, <2>1
<1> QED
  BY <1>4, <1>5

LEMMA AppendFacts ==
  ASSUME NEW S, NEW s \in Seq(S), NEW e \in S
  PROVE  /\ Append(s, e) \in Seq(S)
         /\ Len(Append(s, e)) = Len(s) + 1
         /\ DOMAIN Append(s, e) = 1 .. Len(s) + 1
         /\ DOMAIN s = 1 .. Len(s)
         /\ \A i \in 1 .. Len(s) : Append(s, e)[i] = s[i]
         /\ Append(s, e)[Len(s) + 1] = e
  OBVIOUS

(* The upsert of a batch leaves of each second the last candle in it, and  *)
(* rows of other seconds as they were.                                     *)
LEMMA UpsertLast ==
  ASSUME NEW rows \in Seq(Candle), NEW tab \in [Seconds -> 0 .. MaxVersion],
         NEW s \in Seconds, \E i \in DOMAIN rows : rows[i].time = s
  PROVE  \E i \in DOMAIN rows :
           /\ rows[i].time = s
           /\ \A j \in DOMAIN rows : rows[j].time = s => j <= i
           /\ Upsert(rows, tab)[s] = rows[i].version
<1> DEFINE of == {i \in DOMAIN rows : rows[i].time = s}
           last == CHOOSE i \in of : \A j \in of : j <= i
<1>1. Len(rows) \in Nat /\ of \in SUBSET (1 .. Len(rows)) /\ of # {}
  OBVIOUS
<1>2. \E i \in of : \A j \in of : j <= i
  BY <1>1, LargestIndex
<1>3. last \in of /\ \A j \in of : j <= last
  BY <1>2
<1>4. Upsert(rows, tab)[s] = rows[last].version
  BY <1>1 DEF Upsert
<1> QED
  BY <1>3, <1>4

LEMMA UpsertOther ==
  ASSUME NEW rows, NEW tab, NEW s \in Seconds,
         \A i \in DOMAIN rows : rows[i].time # s
  PROVE  Upsert(rows, tab)[s] = tab[s]
<1>1. {i \in DOMAIN rows : rows[i].time = s} = {}
  OBVIOUS
<1> QED
  BY <1>1 DEF Upsert

LEMMA UpsertType ==
  ASSUME NEW rows \in Seq(Candle), NEW tab \in [Seconds -> 0 .. MaxVersion]
  PROVE  Upsert(rows, tab) \in [Seconds -> 0 .. MaxVersion]
<1>1. ASSUME NEW s \in Seconds PROVE Upsert(rows, tab)[s] \in 0 .. MaxVersion
  <2>1. CASE \E i \in DOMAIN rows : rows[i].time = s
    <3>1. PICK i \in DOMAIN rows : Upsert(rows, tab)[s] = rows[i].version
      BY <2>1, UpsertLast
    <3>2. rows[i] \in Candle
      OBVIOUS
    <3>3. rows[i].version \in 1 .. MaxVersion
      BY <3>2 DEF Candle
    <3> QED
      BY <3>1, <3>3, MaxVersionAssumption
  <2>2. CASE \A i \in DOMAIN rows : rows[i].time # s
    BY <2>2, UpsertOther
  <2> QED
    BY <2>1, <2>2
<1>2. Upsert(rows, tab) = [s \in Seconds |-> Upsert(rows, tab)[s]]
  BY DEF Upsert
<1> QED
  BY <1>1, <1>2
-----------------------------------------------------------------------------
(* What a step does to buffer, table and written, whatever the tasks do.   *)
Accepts(s) ==
  LET c == [time |-> s, version |-> Len(written) + 1]
  IN  /\ Len(written) < MaxVersion
      /\ buffer' = Append(buffer, c)
      /\ written' = Append(written, c)
      /\ table' = table

Stores ==
  /\ table' = Upsert(buffer, table)
  /\ buffer' \in {<<>>, buffer}
  /\ written' = written

KeepsAll == UNCHANGED <<buffer, table, written>>

LEMMA StepKinds ==
  [Next]_vars => (\E s \in Seconds : Accepts(s)) \/ Stores \/ KeepsAll
<1> SUFFICES ASSUME [Next]_vars
             PROVE  (\E s \in Seconds : Accepts(s)) \/ Stores \/ KeepsAll
  OBVIOUS
<1>1. CASE WriteCandle
  BY <1>1 DEF WriteCandle, Accepts
<1>2. CASE FlushSymbol \/ LoopFlush \/ FlushFails \/ StopFlush
  BY <1>2 DEF FlushSymbol, LoopFlush, FlushFails, FlushReturns, StopFlush, KeepsAll
<1>3. CASE FlushStores
  BY <1>3 DEF FlushStores, FlushReturns, Stores
<1>4. CASE CancelTicker
  BY <1>4 DEF CancelTicker, Interrupt, Stores, KeepsAll
<1>5. CASE CancelLoop
  BY <1>5 DEF CancelLoop, Interrupt, Stores, KeepsAll
<1>6. CASE UNCHANGED vars
  BY <1>6 DEF vars, KeepsAll
<1> QED
  BY <1>1, <1>2, <1>3, <1>4, <1>5, <1>6 DEF Next
-----------------------------------------------------------------------------
(* Type correctness: of the data by kind of step, of the tasks by action.  *)
DataOK ==
  /\ buffer \in Seq(Candle)
  /\ table \in [Seconds -> 0 .. MaxVersion]
  /\ written \in Seq(Candle)

TasksOK ==
  /\ flushing \in {"none", "ticker", "loop", "stop"}
  /\ ticker \in {"idle", "writing", "written", "flushing", "cancelled"}
  /\ loop \in {"running", "cancelled"}
  /\ stopping \in {"no", "flush", "returned"}

LEMMA TypeParts == TypeOK <=> DataOK /\ TasksOK
  BY DEF TypeOK, DataOK, TasksOK

LEMMA TypePartsNext == TypeOK' <=> DataOK' /\ TasksOK'
  BY DEF TypeOK, DataOK, TasksOK

LEMMA DataStep == DataOK /\ [Next]_vars => DataOK'
<1> SUFFICES ASSUME DataOK, [Next]_vars
             PROVE  DataOK'
  OBVIOUS
<1>1. CASE \E s \in Seconds : Accepts(s)
  <2> PICK s \in Seconds : Accepts(s)
    BY <1>1
  <2>1. [time |-> s, version |-> Len(written) + 1] \in Candle
    BY MaxVersionAssumption DEF Accepts, Candle, DataOK
  <2> QED
    BY <2>1, AppendFacts DEF Accepts, DataOK
<1>2. CASE Stores
  <2>1. Upsert(buffer, table) \in [Seconds -> 0 .. MaxVersion]
    BY UpsertType DEF DataOK
  <2>2. <<>> \in Seq(Candle)
    OBVIOUS
  <2> QED
    BY <1>2, <2>1, <2>2 DEF Stores, DataOK
<1>3. CASE KeepsAll
  BY <1>3 DEF KeepsAll, DataOK
<1> QED
  BY <1>1, <1>2, <1>3, StepKinds

LEMMA TasksStep == TasksOK /\ [Next]_vars => TasksOK'
  BY DEF TasksOK, Next, vars, WriteCandle, FlushSymbol, LoopFlush, FlushStores,
         FlushFails, FlushReturns, CancelTicker, CancelLoop, Interrupt, StopFlush

LEMMA InitTypeOK == Init => TypeOK
  BY MaxVersionAssumption DEF Init, TypeOK

LEMMA NextTypeOK == TypeOK /\ [Next]_vars => TypeOK'
  BY TypeParts, TypePartsNext, DataStep, TasksStep

(* Every variable keeps its type in every behaviour.                       *)
THEOREM WriterTypeCorrect == Spec => []TypeOK
  BY InitTypeOK, NextTypeOK, PTL DEF Spec
-----------------------------------------------------------------------------
(* The inductive invariant.  Versions number the candles accepted, in the  *)
(* buffer they grow, and of each second the buffer holds nothing that is   *)
(* older than the table unless it also holds something at least as new: so *)
(* that a batch written a second time takes nothing back.                  *)
Numbered  == \A v \in Versions : written[v].version = v
Ascending == \A i, j \in DOMAIN buffer : i < j => buffer[i].version < buffer[j].version

KnownVersions ==
  /\ \A i \in DOMAIN buffer : buffer[i].version <= Len(written)
  /\ \A s \in Seconds : table[s] <= Len(written)

BufferNewest ==
  \A i \in DOMAIN buffer : \E j \in DOMAIN buffer :
    buffer[j].time = buffer[i].time /\ buffer[j].version >= table[buffer[i].time]

Ordered == Numbered /\ Ascending /\ KnownVersions /\ BufferNewest

IInv == TypeOK /\ Ordered /\ NoCandleDropped

(* A row after an upsert of the buffer is at least as new as before and as *)
(* every candle of its second in the buffer, and is one of them if any.    *)
LEMMA UpsertNewest ==
  ASSUME TypeOK, Ascending, BufferNewest, NEW s \in Seconds
  PROVE  /\ Upsert(buffer, table)[s] >= table[s]
         /\ \A i \in DOMAIN buffer : buffer[i].time = s =>
              /\ Upsert(buffer, table)[s] >= buffer[i].version
              /\ \E j \in DOMAIN buffer :
                   /\ buffer[j].time = s
                   /\ Upsert(buffer, table)[s] = buffer[j].version
<1>1. /\ buffer \in Seq(Candle) /\ DOMAIN buffer \subseteq Nat
      /\ table \in [Seconds -> 0 .. MaxVersion] /\ table[s] \in Nat
  BY MaxVersionAssumption DEF TypeOK
<1>2. ASSUME NEW i \in DOMAIN buffer PROVE buffer[i].version \in Nat
  <2>1. buffer[i] \in Candle
    BY <1>1
  <2> QED
    BY <2>1 DEF Candle
<1>3. CASE \A i \in DOMAIN buffer : buffer[i].time # s
  BY <1>1, <1>3, UpsertOther
<1>4. CASE \E i \in DOMAIN buffer : buffer[i].time = s
  <2>1. PICK k \in DOMAIN buffer :
          /\ buffer[k].time = s
          /\ \A j \in DOMAIN buffer : buffer[j].time = s => j <= k
          /\ Upsert(buffer, table)[s] = buffer[k].version
    BY <1>1, <1>4, UpsertLast
  <2>2. ASSUME NEW i \in DOMAIN buffer, buffer[i].time = s
        PROVE  buffer[i].version <= buffer[k].version
    <3>1. i = k \/ i < k
      BY <1>1, <2>1, <2>2
    <3> QED
      BY <1>2, <3>1 DEF Ascending
  <2>3. PICK j \in DOMAIN buffer : buffer[j].time = s /\ buffer[j].version >= table[s]
    BY <2>1 DEF BufferNewest
  <2>4. buffer[k].version >= table[s]
    BY <1>1, <1>2, <2>2, <2>3
  <2> QED
    BY <1>2, <2>1, <2>2, <2>4
<1> QED
  BY <1>3, <1>4

LEMMA InitIInv == Init => IInv
<1> SUFFICES ASSUME Init PROVE IInv
  OBVIOUS
<1>1. DOMAIN buffer = {} /\ DOMAIN written = {} /\ Len(written) = 0
  BY DEF Init
<1>2. \A s \in Seconds : table[s] <= Len(written)
  <2> SUFFICES ASSUME NEW s \in Seconds PROVE table[s] <= Len(written)
    OBVIOUS
  <2>1. table[s] = 0
    BY DEF Init
  <2> HIDE DEF Init
  <2> QED
    BY <1>1, <2>1, SMT
<1> QED
  BY <1>1, <1>2, InitTypeOK
     DEF IInv, Ordered, Numbered, Ascending, KnownVersions, BufferNewest,
         NoCandleDropped, Versions

LEMMA AcceptsInv ==
  ASSUME IInv, TypeOK', NEW s \in Seconds, Accepts(s)
  PROVE  IInv'
<1> DEFINE n == Len(written) + 1
           c == [time |-> s, version |-> n]
           m == Len(buffer) + 1
<1>1. /\ written \in Seq(Candle) /\ buffer \in Seq(Candle)
      /\ table \in [Seconds -> 0 .. MaxVersion] /\ table' = table
      /\ written' = Append(written, c) /\ buffer' = Append(buffer, c)
  BY DEF IInv, TypeOK, Accepts
<1>2. c \in Candle /\ c.time = s /\ c.version = n
  BY MaxVersionAssumption, <1>1 DEF Accepts, Candle
<1>3. /\ n \in Nat /\ m \in Nat /\ Len(written') = n
      /\ DOMAIN written = 1 .. n - 1 /\ DOMAIN written' = 1 .. n
      /\ DOMAIN buffer = 1 .. m - 1 /\ DOMAIN buffer' = 1 .. m
      /\ \A v \in 1 .. n - 1 : written'[v] = written[v]
      /\ \A i \in 1 .. m - 1 : buffer'[i] = buffer[i]
      /\ written'[n] = c /\ buffer'[m] = c
  BY <1>1, <1>2, AppendFacts
<1>4. /\ \A i \in DOMAIN buffer : buffer[i].version \in Nat /\ buffer[i].time \in Seconds
      /\ \A t \in Seconds : table[t] \in Nat
  <2>1. \A i \in DOMAIN buffer : buffer[i] \in Candle
    BY <1>1
  <2> QED
    BY <1>1, <2>1 DEF Candle
<1>5. \A v \in 1 .. n : v \in 1 .. n - 1 \/ v = n
  BY <1>3
<1>6. \A i \in 1 .. m : i \in 1 .. m - 1 \/ i = m
  BY <1>3
<1>7. Numbered'
  BY <1>2, <1>3, <1>5 DEF IInv, Ordered, Numbered, Versions
<1>8. KnownVersions'
  BY <1>1, <1>2, <1>3, <1>4, <1>6 DEF IInv, Ordered, KnownVersions
<1>9. Ascending'
  <2> SUFFICES ASSUME NEW i \in 1 .. m, NEW j \in 1 .. m, i < j
               PROVE  buffer'[i].version < buffer'[j].version
    BY <1>3 DEF Ascending
  <2>1. i \in 1 .. m - 1
    BY <1>3
  <2>2. CASE j \in 1 .. m - 1
    BY <1>3, <2>1, <2>2 DEF IInv, Ordered, Ascending
  <2>3. CASE j = m
    BY <1>2, <1>3, <1>4, <2>1, <2>3 DEF IInv, Ordered, KnownVersions
  <2> QED
    BY <1>6, <2>2, <2>3
<1>10. BufferNewest'
  <2> SUFFICES ASSUME NEW i \in 1 .. m
               PROVE  \E j \in 1 .. m : /\ buffer'[j].time = buffer'[i].time
                                        /\ buffer'[j].version >= table[buffer'[i].time]
    BY <1>1, <1>3 DEF BufferNewest
  <2>1. CASE i \in 1 .. m - 1
    <3>1. PICK j \in 1 .. m - 1 : /\ buffer[j].time = buffer[i].time
                                 /\ buffer[j].version >= table[buffer[i].time]
      BY <1>3, <2>1 DEF IInv, Ordered, BufferNewest
    <3>2. j \in 1 .. m
      BY <1>3
    <3> QED
      BY <1>3, <2>1, <3>1, <3>2
  <2>2. CASE i = m
    <3>1. n >= table[s]
      BY <1>3, <1>4 DEF IInv, Ordered, KnownVersions
    <3> QED
      BY <1>2, <1>3, <2>2, <3>1
  <2> QED
    BY <1>6, <2>1, <2>2
<1>11. NoCandleDropped'
  <2> SUFFICES ASSUME NEW v \in 1 .. n
               PROVE  \/ \E i \in 1 .. m : buffer'[i] = written'[v]
                      \/ table[written'[v].time] >= v
    BY <1>1, <1>3 DEF NoCandleDropped, Versions, Buffered, Stored
  <2>1. CASE v \in 1 .. n - 1
    <3>1. \/ \E i \in 1 .. m - 1 : buffer[i] = written[v]
          \/ table[written[v].time] >= v
      BY <1>3, <2>1 DEF IInv, NoCandleDropped, Versions, Buffered, Stored
    <3>2. \A i \in 1 .. m - 1 : i \in 1 .. m
      BY <1>3
    <3> QED
      BY <1>3, <2>1, <3>1, <3>2
  <2>2. CASE v = n
    BY <1>3, <2>2
  <2> QED
    BY <1>5, <2>1, <2>2
<1> QED
  BY <1>7, <1>8, <1>9, <1>10, <1>11 DEF IInv, Ordered

LEMMA StoresInv ==
  ASSUME IInv, TypeOK', Stores
  PROVE  IInv'
<1>1. /\ written' = written /\ table' = Upsert(buffer, table)
      /\ buffer' = <<>> \/ buffer' = buffer
      /\ buffer \in Seq(Candle) /\ written \in Seq(Candle)
      /\ table \in [Seconds -> 0 .. MaxVersion] /\ table' \in [Seconds -> 0 .. MaxVersion]
      /\ Len(written) \in Nat
  BY DEF IInv, TypeOK, Stores
<1>2. \A i \in DOMAIN buffer' : i \in DOMAIN buffer /\ buffer' = buffer
  BY <1>1
<1>3. /\ \A i \in DOMAIN buffer : buffer[i].version \in Nat /\ buffer[i].time \in Seconds
      /\ \A s \in Seconds : table[s] \in Nat /\ table'[s] \in Nat
      /\ \A v \in Versions : v \in Nat /\ written[v].time \in Seconds
  <2>1. /\ \A i \in DOMAIN buffer : buffer[i] \in Candle
        /\ \A v \in Versions : v \in Nat /\ written[v] \in Candle
    BY <1>1 DEF Versions
  <2> QED
    BY <1>1, <2>1, MaxVersionAssumption DEF Candle
<1>4. \A s \in Seconds :
        /\ table'[s] >= table[s]
        /\ \A i \in DOMAIN buffer : buffer[i].time = s =>
             /\ table'[s] >= buffer[i].version
             /\ \E j \in DOMAIN buffer : buffer[j].time = s /\ table'[s] = buffer[j].version
  BY <1>1, UpsertNewest DEF IInv, Ordered
<1>5. Numbered'
  BY <1>1 DEF IInv, Ordered, Numbered, Versions
<1>6. Ascending'
  BY <1>2 DEF IInv, Ordered, Ascending
<1>7. KnownVersions'
  <2>1. \A i \in DOMAIN buffer' : buffer'[i].version <= Len(written')
    BY <1>1, <1>2 DEF IInv, Ordered, KnownVersions
  <2>2. ASSUME NEW s \in Seconds PROVE table'[s] <= Len(written')
    <3>1. CASE \E i \in DOMAIN buffer : buffer[i].time = s
      BY <1>1, <1>4, <3>1 DEF IInv, Ordered, KnownVersions
    <3>2. CASE \A i \in DOMAIN buffer : buffer[i].time # s
      BY <1>1, <3>2, UpsertOther DEF IInv, Ordered, KnownVersions
    <3> QED
      BY <3>1, <3>2
  <2> QED
    BY <2>1, <2>2 DEF KnownVersions
<1>8. BufferNewest'
  <2> SUFFICES ASSUME NEW i \in DOMAIN buffer, buffer' = buffer
               PROVE  \E j \in DOMAIN buffer :
                        /\ buffer[j].time = buffer[i].time
                        /\ buffer[j].version >= table'[buffer[i].time]
    BY <1>2 DEF BufferNewest
  <2>1. PICK j \in DOMAIN buffer : /\ buffer[j].time = buffer[i].time
                                  /\ table'[buffer[i].time] = buffer[j].version
    BY <1>3, <1>4
  <2> QED
    BY <1>3, <2>1
<1>9. NoCandleDropped'
  <2> SUFFICES ASSUME NEW v \in Versions
               PROVE  table'[written[v].time] >= v
    BY <1>1 DEF NoCandleDropped, Versions, Stored
  <2>1. CASE Buffered(v)
    <3>1. PICK i \in DOMAIN buffer : buffer[i] = written[v]
      BY <2>1 DEF Buffered
    <3>2. buffer[i].version = v
      BY <3>1 DEF IInv, Ordered, Numbered
    <3> QED
      BY <1>3, <1>4, <3>1, <3>2
  <2>2. CASE Stored(v)
    BY <1>3, <1>4, <2>2 DEF Stored
  <2> QED
    BY <2>1, <2>2 DEF IInv, NoCandleDropped
<1> QED
  BY <1>5, <1>6, <1>7, <1>8, <1>9 DEF IInv, Ordered

LEMMA NextIInv == IInv /\ [Next]_vars => IInv'
<1> SUFFICES ASSUME IInv, [Next]_vars PROVE IInv'
  OBVIOUS
<1>1. TypeOK'
  BY NextTypeOK DEF IInv
<1>2. CASE \E s \in Seconds : Accepts(s)
  BY <1>1, <1>2, AcceptsInv
<1>3. CASE Stores
  BY <1>1, <1>3, StoresInv
<1>4. CASE KeepsAll
  BY <1>1, <1>4
     DEF KeepsAll, IInv, Ordered, Numbered, Ascending, KnownVersions, BufferNewest,
         NoCandleDropped, Buffered, Stored, Versions
<1> QED
  BY <1>2, <1>3, <1>4, StepKinds

LEMMA IInvHolds == Spec => []IInv
  BY InitIInv, NextIInv, PTL DEF Spec

(* A candle accepted by write_candle stays in the buffer until it, or a    *)
(* newer one of its second, is in the table.                               *)
THEOREM CandlesKept == Spec => []NoCandleDropped
<1>1. IInv => NoCandleDropped
  BY DEF IInv
<1> QED
  BY <1>1, IInvHolds, PTL

(* No row goes back to an older version, though batches whose outcome is   *)
(* unknown are written again.                                              *)
THEOREM RowsOnlyGetNewer == Spec => LatestVersionStays
<1> DEFINE Newer == \A s \in Seconds : table'[s] >= table[s]
<1>1. ASSUME IInv, [Next]_vars PROVE Newer
  <2>1. \A s \in Seconds : table[s] \in Nat
    BY <1>1, MaxVersionAssumption DEF IInv, TypeOK
  <2>2. CASE \E s \in Seconds : Accepts(s)
    BY <2>1, <2>2 DEF Accepts
  <2>3. CASE Stores
    BY <1>1, <2>3, UpsertNewest DEF Stores, IInv, Ordered
  <2>4. CASE KeepsAll
    BY <2>1, <2>4 DEF KeepsAll
  <2> QED
    BY <1>1, <2>2, <2>3, <2>4, StepKinds
<1>2. IInv /\ [Next]_vars => [Newer]_table
  BY <1>1
<1> QED
  BY <1>2, IInvHolds, PTL DEF Spec, LatestVersionStays
-----------------------------------------------------------------------------
LEMMA SocketInitTypeOK == SocketInit => SocketTypeOK
BY MaxConnectionsAssumption, MaxDelayAssumption, MaxFailuresAssumption
   DEF SocketInit, SocketTypeOK, InitialDelay

(* The connection counter and the sets of connections, when one is opened. *)
LEMMA OpensTyped ==
  ASSUME SocketTypeOK, Opens
  PROVE  /\ opened' \in 0 .. MaxConnections
         /\ ws' \in 0 .. opened' /\ open' \subseteq 1 .. opened'
         /\ replaced' \subseteq 1 .. opened'
BY MaxConnectionsAssumption DEF SocketTypeOK, Opens

LEMMA SocketNextTypeOK == SocketTypeOK /\ [SocketNext]_socketVars => SocketTypeOK'
<1> SUFFICES ASSUME SocketTypeOK, [SocketNext]_socketVars PROVE SocketTypeOK'
  OBVIOUS
<1>1. CASE Connect
  BY <1>1, OpensTyped DEF Connect, SocketTypeOK
<1>2. CASE Reconnect
  BY <1>2, OpensTyped, MaxDelayAssumption, MaxFailuresAssumption
     DEF Reconnect, SocketTypeOK, InitialDelay
<1>3. CASE GiveError
  BY <1>3 DEF GiveError, ConnectFails, ReconnectFails, SocketTypeOK
<1>4. CASE Read
  BY <1>4 DEF Read, ReadBreaks, ReadEnds, ReadAfterStop, SocketTypeOK
<1>5. CASE Wait
  <2>1. delay' \in 1 .. MaxDelay
    BY <1>5, MaxDelayAssumption DEF Wait, SocketTypeOK, Least
  <2>2. failures' \in 0 .. MaxFailures
    BY <1>5, MaxFailuresAssumption DEF Wait, SocketTypeOK, Least
  <2> QED
    BY <1>5, <2>1, <2>2 DEF Wait, SocketTypeOK
<1>6. CASE ServerCloses
  BY <1>6 DEF ServerCloses, SocketTypeOK
<1>7. CASE StopSocket
  BY <1>7 DEF StopSocket, SocketTypeOK
<1>8. CASE UNCHANGED socketVars
  BY <1>8 DEF socketVars, SocketTypeOK
<1> QED
  BY <1>1, <1>2, <1>3, <1>4, <1>5, <1>6, <1>7, <1>8 DEF SocketNext, Succeed

(* Every wait of _reconnect lies between INITIAL_RECONNECT_DELAY and       *)
(* MAX_RECONNECT_DELAY, and _ws is None or a connection that was opened.   *)
THEOREM SocketTypeCorrect == SocketSpec => []SocketTypeOK
BY SocketInitTypeOK, SocketNextTypeOK, PTL DEF SocketSpec
-----------------------------------------------------------------------------
(* Who may hold the writer's lock, and what each part of stop() has done.  *)
LockHolders ==
  /\ flushing = "ticker" => ticker \in {"writing", "flushing"}
  /\ flushing = "loop" => loop = "running"
  /\ flushing = "stop" => stopping = "flush"
  /\ flushing \in {"none", "ticker", "loop", "stop"}

TakenDown ==
  /\ stage \in {"no", "ticker", "loop", "flush", "done"}
  /\ alive \in BOOLEAN /\ caught \in BOOLEAN
  /\ alive <=> stage = "no"
  /\ stage \in {"loop", "flush", "done"} <=> ticker = "cancelled"
  /\ stage \in {"flush", "done"} <=> loop = "cancelled"
  /\ stage \in {"no", "ticker", "loop"} => stopping = "no"
  /\ stage = "done" => stopping = "returned"
  /\ stopping = "returned" => flushing = "none" /\ (buffer = <<>> \/ unflushed)

(* The connections: all but the last one were replaced, and the last one   *)
(* is closed by a stop that found the socket reading.                      *)
Connection ==
  /\ alive => ~caught /\ stopper = "nobody" /\ main \in {"preparing", "socket", "over"}
  /\ alive /\ main # "socket" => pc = "connect"
  /\ ~alive /\ ~caught => ~running /\ ws \notin open /\ pc \in {"read", "ended"}
  /\ open \subseteq replaced \union {ws}
  /\ stage = "done" => main = "over"

StopInv == LockHolders /\ TakenDown /\ Connection

-----------------------------------------------------------------------------
LEMMA StopInit == ShutdownInit => StopInv
BY DEF ShutdownInit, SocketInit, Init, StopInv, LockHolders, TakenDown, Connection

(* The lock of the writer is held by a task that is in a flush, the one    *)
(* that stop() awaits included.                                            *)
LEMMA LockHoldersStep ==
  ASSUME StopInv, SocketTypeOK, TypeOK, [ShutdownNext]_pipelineVars
  PROVE  LockHolders'
<1> USE DEF StopInv, LockHolders, TakenDown, Connection
<1>1. CASE Prepared
  BY <1>1 DEF Prepared, writerVars, controlVars, vars, socketVars, SocketTypeOK, TypeOK
<1>2. CASE PrepareFails
  BY <1>2 DEF PrepareFails, writerVars, controlVars, vars, socketVars, SocketTypeOK, TypeOK
<1>3. CASE SocketReturns
  BY <1>3 DEF SocketReturns, writerVars, controlVars, vars, socketVars, SocketTypeOK, TypeOK
<1>4. CASE ClientStops
  BY <1>4 DEF ClientStops, BeginStop, StopSocket, writerVars, controlVars, vars, socketVars, SocketTypeOK, TypeOK
<1>5. CASE Interrupted
  BY <1>5 DEF Interrupted, writerVars, controlVars, vars, socketVars, SocketTypeOK, TypeOK
<1>6. CASE StopTicker
  BY <1>6 DEF StopTicker, CancelTicker, Interrupt, writerVars, controlVars, vars, socketVars, SocketTypeOK, TypeOK
<1>7. CASE StopLoop
  BY <1>7 DEF StopLoop, CancelLoop, Interrupt, writerVars, controlVars, vars, socketVars, SocketTypeOK, TypeOK
<1>8. CASE StopWriter
  BY <1>8 DEF StopWriter, StopFlush, writerVars, controlVars, vars, socketVars, SocketTypeOK, TypeOK
<1>9. CASE StopEnds
  BY <1>9 DEF StopEnds, Forget, writerVars, controlVars, vars, socketVars, SocketTypeOK, TypeOK
<1>10. CASE SecondStop
  BY <1>10 DEF SecondStop, Forget, writerVars, controlVars, vars, socketVars, SocketTypeOK, TypeOK
<1>11. CASE SocketStep
  <2>1. CASE Connect
    BY <1>11, <2>1 DEF SocketStep, Connect, Opens, FlushReturns, writerVars, controlVars, vars, socketVars, TypeOK, SocketTypeOK
  <2>2. CASE Reconnect
    BY <1>11, <2>2 DEF SocketStep, Reconnect, Opens, FlushReturns, writerVars, controlVars, vars, socketVars, TypeOK, SocketTypeOK
  <2>3. CASE ConnectFails
    BY <1>11, <2>3 DEF SocketStep, ConnectFails, Opens, FlushReturns, writerVars, controlVars, vars, socketVars, TypeOK, SocketTypeOK
  <2>4. CASE ReconnectFails
    BY <1>11, <2>4 DEF SocketStep, ReconnectFails, Opens, FlushReturns, writerVars, controlVars, vars, socketVars, TypeOK, SocketTypeOK
  <2>5. CASE ReadBreaks
    BY <1>11, <2>5 DEF SocketStep, ReadBreaks, Opens, FlushReturns, writerVars, controlVars, vars, socketVars, TypeOK, SocketTypeOK
  <2>6. CASE ReadEnds
    BY <1>11, <2>6 DEF SocketStep, ReadEnds, Opens, FlushReturns, writerVars, controlVars, vars, socketVars, TypeOK, SocketTypeOK
  <2>7. CASE ReadAfterStop
    BY <1>11, <2>7 DEF SocketStep, ReadAfterStop, Opens, FlushReturns, writerVars, controlVars, vars, socketVars, TypeOK, SocketTypeOK
  <2>8. CASE Wait
    BY <1>11, <2>8 DEF SocketStep, Wait, Opens, FlushReturns, writerVars, controlVars, vars, socketVars, TypeOK, SocketTypeOK
  <2>9. CASE ServerCloses
    BY <1>11, <2>9 DEF SocketStep, ServerCloses, Opens, FlushReturns, writerVars, controlVars, vars, socketVars, TypeOK, SocketTypeOK
  <2> QED
    BY <1>11, <2>1, <2>2, <2>3, <2>4, <2>5, <2>6, <2>7, <2>8, <2>9 DEF SocketStep, WriterStep, Succeed, GiveError, Read
<1>12. CASE WriterStep
  <2>1. CASE WriteCandle
    BY <1>12, <2>1 DEF WriterStep, WriteCandle, Opens, FlushReturns, writerVars, controlVars, vars, socketVars, TypeOK, SocketTypeOK
  <2>2. CASE FlushSymbol
    BY <1>12, <2>2 DEF WriterStep, FlushSymbol, Opens, FlushReturns, writerVars, controlVars, vars, socketVars, TypeOK, SocketTypeOK
  <2>3. CASE LoopFlush
    BY <1>12, <2>3 DEF WriterStep, LoopFlush, Opens, FlushReturns, writerVars, controlVars, vars, socketVars, TypeOK, SocketTypeOK
  <2>4. CASE FlushStores
    BY <1>12, <2>4 DEF WriterStep, FlushStores, Opens, FlushReturns, writerVars, controlVars, vars, socketVars, TypeOK, SocketTypeOK
  <2>5. CASE FlushFails
    BY <1>12, <2>5 DEF WriterStep, FlushFails, Opens, FlushReturns, writerVars, controlVars, vars, socketVars, TypeOK, SocketTypeOK
  <2> QED
    BY <1>12, <2>1, <2>2, <2>3, <2>4, <2>5 DEF SocketStep, WriterStep, Succeed, GiveError, Read
<1>13. CASE UNCHANGED pipelineVars
  BY <1>13 DEF pipelineVars, writerVars, controlVars, vars, socketVars, SocketTypeOK, TypeOK
<1> QED
  BY <1>1, <1>2, <1>3, <1>4, <1>5, <1>6, <1>7, <1>8, <1>9, <1>10, <1>11, <1>12, <1>13 DEF ShutdownNext, Stopping

(* stop() goes through its parts in order, and what it took down stays so. *)
LEMMA TakenDownStep ==
  ASSUME StopInv, SocketTypeOK, TypeOK, [ShutdownNext]_pipelineVars
  PROVE  TakenDown'
<1> USE DEF StopInv, LockHolders, TakenDown, Connection
<1>1. CASE Prepared
  BY <1>1 DEF Prepared, writerVars, controlVars, vars, socketVars, SocketTypeOK, TypeOK
<1>2. CASE PrepareFails
  BY <1>2 DEF PrepareFails, writerVars, controlVars, vars, socketVars, SocketTypeOK, TypeOK
<1>3. CASE SocketReturns
  BY <1>3 DEF SocketReturns, writerVars, controlVars, vars, socketVars, SocketTypeOK, TypeOK
<1>4. CASE ClientStops
  BY <1>4 DEF ClientStops, BeginStop, StopSocket, writerVars, controlVars, vars, socketVars, SocketTypeOK, TypeOK
<1>5. CASE Interrupted
  BY <1>5 DEF Interrupted, writerVars, controlVars, vars, socketVars, SocketTypeOK, TypeOK
<1>6. CASE StopTicker
  BY <1>6 DEF StopTicker, CancelTicker, Interrupt, writerVars, controlVars, vars, socketVars, SocketTypeOK, TypeOK
<1>7. CASE StopLoop
  BY <1>7 DEF StopLoop, CancelLoop, Interrupt, writerVars, controlVars, vars, socketVars, SocketTypeOK, TypeOK
<1>8. CASE StopWriter
  BY <1>8 DEF StopWriter, StopFlush, writerVars, controlVars, vars, socketVars, SocketTypeOK, TypeOK
<1>9. CASE StopEnds
  BY <1>9 DEF StopEnds, Forget, writerVars, controlVars, vars, socketVars, SocketTypeOK, TypeOK
<1>10. CASE SecondStop
  BY <1>10 DEF SecondStop, Forget, writerVars, controlVars, vars, socketVars, SocketTypeOK, TypeOK
<1>11. CASE SocketStep
  <2>1. CASE Connect
    BY <1>11, <2>1 DEF SocketStep, Connect, Opens, FlushReturns, writerVars, controlVars, vars, socketVars, TypeOK, SocketTypeOK
  <2>2. CASE Reconnect
    BY <1>11, <2>2 DEF SocketStep, Reconnect, Opens, FlushReturns, writerVars, controlVars, vars, socketVars, TypeOK, SocketTypeOK
  <2>3. CASE ConnectFails
    BY <1>11, <2>3 DEF SocketStep, ConnectFails, Opens, FlushReturns, writerVars, controlVars, vars, socketVars, TypeOK, SocketTypeOK
  <2>4. CASE ReconnectFails
    BY <1>11, <2>4 DEF SocketStep, ReconnectFails, Opens, FlushReturns, writerVars, controlVars, vars, socketVars, TypeOK, SocketTypeOK
  <2>5. CASE ReadBreaks
    BY <1>11, <2>5 DEF SocketStep, ReadBreaks, Opens, FlushReturns, writerVars, controlVars, vars, socketVars, TypeOK, SocketTypeOK
  <2>6. CASE ReadEnds
    BY <1>11, <2>6 DEF SocketStep, ReadEnds, Opens, FlushReturns, writerVars, controlVars, vars, socketVars, TypeOK, SocketTypeOK
  <2>7. CASE ReadAfterStop
    BY <1>11, <2>7 DEF SocketStep, ReadAfterStop, Opens, FlushReturns, writerVars, controlVars, vars, socketVars, TypeOK, SocketTypeOK
  <2>8. CASE Wait
    BY <1>11, <2>8 DEF SocketStep, Wait, Opens, FlushReturns, writerVars, controlVars, vars, socketVars, TypeOK, SocketTypeOK
  <2>9. CASE ServerCloses
    BY <1>11, <2>9 DEF SocketStep, ServerCloses, Opens, FlushReturns, writerVars, controlVars, vars, socketVars, TypeOK, SocketTypeOK
  <2> QED
    BY <1>11, <2>1, <2>2, <2>3, <2>4, <2>5, <2>6, <2>7, <2>8, <2>9 DEF SocketStep, WriterStep, Succeed, GiveError, Read
<1>12. CASE WriterStep
  <2>1. CASE WriteCandle
    BY <1>12, <2>1 DEF WriterStep, WriteCandle, Opens, FlushReturns, writerVars, controlVars, vars, socketVars, TypeOK, SocketTypeOK
  <2>2. CASE FlushSymbol
    BY <1>12, <2>2 DEF WriterStep, FlushSymbol, Opens, FlushReturns, writerVars, controlVars, vars, socketVars, TypeOK, SocketTypeOK
  <2>3. CASE LoopFlush
    BY <1>12, <2>3 DEF WriterStep, LoopFlush, Opens, FlushReturns, writerVars, controlVars, vars, socketVars, TypeOK, SocketTypeOK
  <2>4. CASE FlushStores
    BY <1>12, <2>4 DEF WriterStep, FlushStores, Opens, FlushReturns, writerVars, controlVars, vars, socketVars, TypeOK, SocketTypeOK
  <2>5. CASE FlushFails
    BY <1>12, <2>5 DEF WriterStep, FlushFails, Opens, FlushReturns, writerVars, controlVars, vars, socketVars, TypeOK, SocketTypeOK
  <2> QED
    BY <1>12, <2>1, <2>2, <2>3, <2>4, <2>5 DEF SocketStep, WriterStep, Succeed, GiveError, Read
<1>13. CASE UNCHANGED pipelineVars
  BY <1>13 DEF pipelineVars, writerVars, controlVars, vars, socketVars, SocketTypeOK, TypeOK
<1> QED
  BY <1>1, <1>2, <1>3, <1>4, <1>5, <1>6, <1>7, <1>8, <1>9, <1>10, <1>11, <1>12, <1>13 DEF ShutdownNext, Stopping

(* A socket that was reading when it was stopped opens nothing any more.   *)
LEMMA ConnectionStep ==
  ASSUME StopInv, SocketTypeOK, TypeOK, [ShutdownNext]_pipelineVars
  PROVE  Connection'
<1> USE DEF StopInv, LockHolders, TakenDown, Connection
<1>1. CASE Prepared
  BY <1>1 DEF Prepared, writerVars, controlVars, vars, socketVars, SocketTypeOK, TypeOK
<1>2. CASE PrepareFails
  BY <1>2 DEF PrepareFails, writerVars, controlVars, vars, socketVars, SocketTypeOK, TypeOK
<1>3. CASE SocketReturns
  BY <1>3 DEF SocketReturns, writerVars, controlVars, vars, socketVars, SocketTypeOK, TypeOK
<1>4. CASE ClientStops
  BY <1>4 DEF ClientStops, BeginStop, StopSocket, writerVars, controlVars, vars, socketVars, SocketTypeOK, TypeOK
<1>5. CASE Interrupted
  BY <1>5 DEF Interrupted, writerVars, controlVars, vars, socketVars, SocketTypeOK, TypeOK
<1>6. CASE StopTicker
  BY <1>6 DEF StopTicker, CancelTicker, Interrupt, writerVars, controlVars, vars, socketVars, SocketTypeOK, TypeOK
<1>7. CASE StopLoop
  BY <1>7 DEF StopLoop, CancelLoop, Interrupt, writerVars, controlVars, vars, socketVars, SocketTypeOK, TypeOK
<1>8. CASE StopWriter
  BY <1>8 DEF StopWriter, StopFlush, writerVars, controlVars, vars, socketVars, SocketTypeOK, TypeOK
<1>9. CASE StopEnds
  BY <1>9 DEF StopEnds, Forget, writerVars, controlVars, vars, socketVars, SocketTypeOK, TypeOK
<1>10. CASE SecondStop
  BY <1>10 DEF SecondStop, Forget, writerVars, controlVars, vars, socketVars, SocketTypeOK, TypeOK
<1>11. CASE SocketStep
  <2>1. CASE Connect
    BY <1>11, <2>1 DEF SocketStep, Connect, Opens, FlushReturns, writerVars, controlVars, vars, socketVars, TypeOK, SocketTypeOK
  <2>2. CASE Reconnect
    BY <1>11, <2>2 DEF SocketStep, Reconnect, Opens, FlushReturns, writerVars, controlVars, vars, socketVars, TypeOK, SocketTypeOK
  <2>3. CASE ConnectFails
    BY <1>11, <2>3 DEF SocketStep, ConnectFails, Opens, FlushReturns, writerVars, controlVars, vars, socketVars, TypeOK, SocketTypeOK
  <2>4. CASE ReconnectFails
    BY <1>11, <2>4 DEF SocketStep, ReconnectFails, Opens, FlushReturns, writerVars, controlVars, vars, socketVars, TypeOK, SocketTypeOK
  <2>5. CASE ReadBreaks
    BY <1>11, <2>5 DEF SocketStep, ReadBreaks, Opens, FlushReturns, writerVars, controlVars, vars, socketVars, TypeOK, SocketTypeOK
  <2>6. CASE ReadEnds
    BY <1>11, <2>6 DEF SocketStep, ReadEnds, Opens, FlushReturns, writerVars, controlVars, vars, socketVars, TypeOK, SocketTypeOK
  <2>7. CASE ReadAfterStop
    BY <1>11, <2>7 DEF SocketStep, ReadAfterStop, Opens, FlushReturns, writerVars, controlVars, vars, socketVars, TypeOK, SocketTypeOK
  <2>8. CASE Wait
    BY <1>11, <2>8 DEF SocketStep, Wait, Opens, FlushReturns, writerVars, controlVars, vars, socketVars, TypeOK, SocketTypeOK
  <2>9. CASE ServerCloses
    BY <1>11, <2>9 DEF SocketStep, ServerCloses, Opens, FlushReturns, writerVars, controlVars, vars, socketVars, TypeOK, SocketTypeOK
  <2> QED
    BY <1>11, <2>1, <2>2, <2>3, <2>4, <2>5, <2>6, <2>7, <2>8, <2>9 DEF SocketStep, WriterStep, Succeed, GiveError, Read
<1>12. CASE WriterStep
  <2>1. CASE WriteCandle
    BY <1>12, <2>1 DEF WriterStep, WriteCandle, Opens, FlushReturns, writerVars, controlVars, vars, socketVars, TypeOK, SocketTypeOK
  <2>2. CASE FlushSymbol
    BY <1>12, <2>2 DEF WriterStep, FlushSymbol, Opens, FlushReturns, writerVars, controlVars, vars, socketVars, TypeOK, SocketTypeOK
  <2>3. CASE LoopFlush
    BY <1>12, <2>3 DEF WriterStep, LoopFlush, Opens, FlushReturns, writerVars, controlVars, vars, socketVars, TypeOK, SocketTypeOK
  <2>4. CASE FlushStores
    BY <1>12, <2>4 DEF WriterStep, FlushStores, Opens, FlushReturns, writerVars, controlVars, vars, socketVars, TypeOK, SocketTypeOK
  <2>5. CASE FlushFails
    BY <1>12, <2>5 DEF WriterStep, FlushFails, Opens, FlushReturns, writerVars, controlVars, vars, socketVars, TypeOK, SocketTypeOK
  <2> QED
    BY <1>12, <2>1, <2>2, <2>3, <2>4, <2>5 DEF SocketStep, WriterStep, Succeed, GiveError, Read
<1>13. CASE UNCHANGED pipelineVars
  BY <1>13 DEF pipelineVars, writerVars, controlVars, vars, socketVars, SocketTypeOK, TypeOK
<1> QED
  BY <1>1, <1>2, <1>3, <1>4, <1>5, <1>6, <1>7, <1>8, <1>9, <1>10, <1>11, <1>12, <1>13 DEF ShutdownNext, Stopping
-----------------------------------------------------------------------------
(* A step of the pipeline is a step of its writer or leaves the writer     *)
(* alone: stop() uses CancelTicker, CancelLoop and StopFlush in this order *)
(* only.                                                                   *)
LEMMA StepsOfTheWriter == [ShutdownNext]_pipelineVars => [Next]_vars
<1> SUFFICES ASSUME [ShutdownNext]_pipelineVars PROVE [Next]_vars
  OBVIOUS
<1> USE DEF writerVars
<1>1. CASE Prepared \/ PrepareFails \/ SocketStep \/ SocketReturns
  BY <1>1 DEF Prepared, PrepareFails, SocketStep, SocketReturns
<1>2. CASE WriterStep
  BY <1>2 DEF WriterStep, Next
<1>3. CASE ClientStops \/ Interrupted
  BY <1>3 DEF ClientStops, BeginStop, Interrupted
<1>4. CASE StopTicker \/ StopLoop \/ StopWriter
  BY <1>4 DEF StopTicker, StopLoop, StopWriter, Next
<1>5. CASE StopEnds \/ SecondStop
  BY <1>5 DEF StopEnds, SecondStop
<1>6. CASE UNCHANGED pipelineVars
  BY <1>6 DEF pipelineVars
<1> QED
  BY <1>1, <1>2, <1>3, <1>4, <1>5, <1>6 DEF ShutdownNext, Stopping

(* Of the socket the same cannot be said: cancelling start() ends its loop *)
(* at any await.  Its variables keep their types all the same.             *)
LEMMA SocketStaysTyped ==
  SocketTypeOK /\ [ShutdownNext]_pipelineVars => SocketTypeOK'
<1> SUFFICES ASSUME SocketTypeOK, [ShutdownNext]_pipelineVars PROVE SocketTypeOK'
  OBVIOUS
<1>1. CASE [SocketNext]_socketVars
  BY <1>1, SocketNextTypeOK
<1>2. CASE Prepared \/ PrepareFails \/ SocketReturns \/ WriterStep
  BY <1>1, <1>2 DEF Prepared, PrepareFails, SocketReturns, WriterStep
<1>3. CASE SocketStep
  BY <1>1, <1>3 DEF SocketStep, SocketNext
<1>4. CASE ClientStops
  BY <1>1, <1>4 DEF ClientStops, BeginStop, SocketNext
<1>5. CASE Interrupted
  BY <1>5 DEF Interrupted, SocketTypeOK
<1>6. CASE StopTicker \/ StopLoop \/ StopWriter
  BY <1>1, <1>6 DEF StopTicker, StopLoop, StopWriter
<1>7. CASE StopEnds \/ SecondStop
  BY <1>7 DEF StopEnds, SecondStop, Forget, SocketTypeOK
<1>8. CASE UNCHANGED pipelineVars
  BY <1>1, <1>8 DEF pipelineVars
<1> QED
  BY <1>2, <1>3, <1>4, <1>5, <1>6, <1>7, <1>8 DEF ShutdownNext, Stopping

LEMMA StopInvariant == ShutdownSpec => [](SocketTypeOK /\ TypeOK /\ StopInv)
<1>1. ShutdownInit => SocketTypeOK /\ TypeOK /\ StopInv
  BY SocketInitTypeOK, InitTypeOK, StopInit DEF ShutdownInit
<1>2. (SocketTypeOK /\ TypeOK /\ StopInv) /\ [ShutdownNext]_pipelineVars
        => (SocketTypeOK /\ TypeOK /\ StopInv)'
  <2> SUFFICES ASSUME SocketTypeOK, TypeOK, StopInv, [ShutdownNext]_pipelineVars
               PROVE  (SocketTypeOK /\ TypeOK /\ StopInv)'
    OBVIOUS
  <2>1. SocketTypeOK'
    BY SocketStaysTyped
  <2>2. TypeOK'
    BY StepsOfTheWriter, NextTypeOK
  <2>3. StopInv'
    BY LockHoldersStep, TakenDownStep, ConnectionStep DEF StopInv
  <2> QED
    BY <2>1, <2>2, <2>3
<1> QED
  BY <1>1, <1>2, PTL DEF ShutdownSpec

(* When a stop is over, whoever called it and whatever start() was doing,  *)
(* no task and no lock is left, every candle is stored unless the last     *)
(* flush failed, and every connection is closed but those of _reconnect    *)
(* that were replaced, and the last one if the socket was not reading when *)
(* the stop came.                                                          *)
THEOREM StopAlwaysLeavesNothing == ShutdownSpec => []StopLeavesNothing
<1>1. StopInv => StopLeavesNothing
  BY DEF StopInv, LockHolders, TakenDown, Connection, StopLeavesNothing
<1> QED
  BY <1>1, StopInvariant, PTL

(* The pipeline uses its writer as DatabaseWriter says, in every behaviour *)
(* in which it is started, stopped, stopped again or interrupted.          *)
THEOREM UsesItsWriter == ShutdownSpec => Spec
BY StepsOfTheWriter, PTL DEF ShutdownSpec, ShutdownInit, Spec

(* So no candle accepted while the pipeline ran is lost on the way ...     *)
THEOREM PipelineDropsNoCandle == ShutdownSpec => []NoCandleDropped
BY UsesItsWriter, CandlesKept, PTL

(* ... and no stored candle is replaced by an older one of its second.     *)
THEOREM PipelineRowsOnlyGetNewer == ShutdownSpec => LatestVersionStays
BY UsesItsWriter, RowsOnlyGetNewer
=============================================================================
